-------------------------- MODULE SessionEndpoints --------------------------
(***************************************************************************)
(* What ends or suspends a login, and who sees it: /revoke (revoke.rs),    *)
(* /end_session (session.rs), the /admin endpoints (admin.rs), and what    *)
(* /introspect and /userinfo answer (introspect.rs, userinfo.rs).          *)
(***************************************************************************)
EXTENDS TokenEndpoint

CONSTANT OverrideClaims     \* the claim sets an admin PUTs, or None

ASSUME SessionAssumption == OverrideClaims \subseteq Claims \cup {None}

\* Is a JWT accepted at /userinfo and active at /introspect?
Active(jwt) == Verify(jwt) /\ ~IsBlocked(jwt.claims)

\* Is a refresh token active at /introspect?
RefreshActive(e) == Live(e) /\ ~IsBlocked(e.claims)

----------------------------------------------------------------------------
(* POST /revoke *)

RevokeRefresh(e, client, secret) ==
    /\ Authenticated(client, secret)
    /\ e.client = client
    /\ refresh' = refresh \ {e}
    /\ UNCHANGED <<worldVars, minted, pending, codes, clients, subjects, revokedJti, jwts,
                   logins>>

\* Expired tokens are accepted; `azp` says whose the token is.
RevokeJwt(jwt, client, secret) ==
    /\ Authenticated(client, secret)
    /\ VerifyAllowExpired(jwt)
    /\ AsStr(jwt.claims["azp"]) = client
    /\ revokedJti' = revokedJti \cup {[jti |-> jwt.claims["jti"], exp |-> jwt.claims["exp"]]}
    /\ UNCHANGED <<worldVars, minted, pending, codes, refresh, clients, subjects, jwts, logins>>

----------------------------------------------------------------------------
(* GET /end_session with an id_token_hint; any token signed by this provider *)
(* will do.  `azp` is always there, so the code's fallback to `aud` is not    *)
(* taken.                                                                     *)

EndSession(hint) ==
    /\ VerifyAllowExpired(hint)
    /\ refresh' = RevokeSession(hint.claims["sid"], AsStr(hint.claims["azp"]))
    /\ UNCHANGED <<worldVars, minted, pending, codes, clients, subjects, revokedJti, jwts,
                   logins>>

----------------------------------------------------------------------------
(* /admin/subjects and /admin/sessions *)

\* Mutant of PutSubject: a `sub` among the claims is taken as given.
PutSubject_TypedSub(sub, claims, disabled) ==
    /\ subjects' = {s \in subjects : s.sub # sub}
                     \cup {[sub |-> sub, claims |-> claims, disabled |-> disabled]}
    /\ UNCHANGED <<worldVars, minted, pending, codes, refresh, clients, revokedJti, jwts,
                   logins>>

PutSubject(sub, claims, disabled) ==
    LET forced == IF claims = None THEN None ELSE [claims EXCEPT !["sub"] = sub]
    IN  /\ subjects' = {s \in subjects : s.sub # sub}
                         \cup {[sub |-> sub, claims |-> forced, disabled |-> disabled]}
        /\ UNCHANGED <<worldVars, minted, pending, codes, refresh, clients, revokedJti, jwts,
                       logins>>

DeleteSubject(sub) ==
    /\ subjects' = {s \in subjects : s.sub # sub}
    /\ refresh' = RevokeRefreshFor(sub)
    /\ UNCHANGED <<worldVars, minted, pending, codes, clients, revokedJti, jwts, logins>>

\* Answers 404 if no refresh token went.
EndAdminSession(sid) ==
    /\ refresh' = RevokeSid(sid)
    /\ UNCHANGED <<worldVars, minted, pending, codes, clients, subjects, revokedJti, jwts,
                   logins>>
=============================================================================
