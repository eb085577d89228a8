------------------------- MODULE ProviderProperties -------------------------
(***************************************************************************)
(* What must hold of the provider.                                         *)
(***************************************************************************)
EXTENDS Provider

Agreed(e) ==
    [sid |-> e.sid, client |-> e.client, claims |-> e.claims, offline |-> e.offline,
     expiresIn |-> e.expiresIn, upstream |-> e.upstream]

----------------------------------------------------------------------------
(* State properties *)

\* A login is good for one credential at a time: its code, and after the exchange the
\* one refresh token that rotation replaces.  The grouping of /admin/sessions by sid
\* (Store::sessions takes the fields of the first entry it meets) depends on it.
OneCredentialPerLogin ==
    /\ \A e, f \in codes : e.sid = f.sid => e = f
    /\ \A e, f \in refresh : e.sid = f.sid => e = f
    /\ \A e \in codes, f \in refresh : e.sid # f.sid

\* However often it was rotated, and whatever an admin put meanwhile, a credential is
\* for the client, the claims, the kind (online or offline), the lifetime and the tester
\* agreed at the login.
CredentialMatchesLogin ==
    /\ \A e \in codes : LoginOf(e) \in logins
    /\ \A e \in refresh : Agreed(e) \in logins

\* Every token with a sid of its own is about the persona of that login, and about its
\* tester when tokens name one, although claims are typed by anyone at login and
\* replaced by admins later.  (A token for no login has the sid of DEFAULT_CLAIMS, if
\* any; a tester's claim named `sid` gives way to the sid.)
TokenMatchesLogin ==
    \A t \in jwts : t.claims["sid"] # DefaultClaims["sid"] =>
        \E l \in logins : /\ l.sid = t.claims["sid"]
                          /\ l.claims["sub"] = t.claims["sub"]
                          /\ UpstreamClaim \notin {None, "sid"} /\ l.upstream # None
                               => t.claims[UpstreamClaim] = l.upstream

\* Two tokens never share a jti, so that revoking one leaves the others alone.
JtiUnique == \A t, u \in jwts : t.claims["jti"] = u.claims["jti"] => t = u

\* How long a token was to live: as typed at its login, else as configured for its kind.
Lifetime(t) ==
    LET typed == {l.expiresIn : l \in {m \in logins : m.sid = t.claims["sid"]}} \ {None}
    IN  IF typed # {} THEN CHOOSE ttl \in typed : TRUE
        ELSE IF t.typ = "JWT" THEN IdTtl ELSE AccessTtl

\* A token verifies for the lifetime agreed at its login, however often the login was
\* refreshed since, and not a second longer.  The sum that makes `exp` may wrap: then the
\* token dies early, but it never lives longer than agreed (Issuer::issue, verify_inner).
TokensLiveAsAgreed ==
    \A t \in jwts : LET end == t.claims["iat"] + Lifetime(t) IN
        /\ Verify(t) => now < end
        /\ VerifyAllowExpired(t) /\ now < end /\ end < U64 => Verify(t)

\* Behind the gate, whoever logs in is a known tester or a client the operator configured
\* with a secret.
GatedLoginsAttributed ==
    GateOn => \A l \in logins :
        \/ l.upstream \in Testers
        \/ \E c \in ConfiguredClients : c.id = l.client /\ c.secret # None

\* In strict mode, an outstanding code belongs to a client still registered, goes to a
\* URI of it, and cannot be redeemed by a public client without a code verifier.
StrictCodesBound ==
    Strict => \A e \in codes : \E c \in clients :
        /\ c.id = e.req.client
        /\ e.req.uri \in c.uris
        /\ c.secret = None => e.req.challenge # None

\* Whenever a client logs out with a token it got for an online login, and whose `azp`
\* nobody typed over, that login has no credential left: the refresh token that /end_session
\* revokes is all there was.
LogoutEndsLogin ==
    \A t \in jwts, l \in logins :
        /\ VerifyAllowExpired(t)
        /\ l.sid = t.claims["sid"] /\ l.client = t.claims["azp"] /\ ~l.offline
        => \A e \in codes \cup RevokeSession(l.sid, l.client) : e.sid # l.sid

----------------------------------------------------------------------------
(* The inductive invariant behind the properties above *)

\* Every code, refresh token, sid and jti in sight was drawn, so the next draw is new.
Drawn ==
    /\ \A e \in codes : e.code <= minted /\ e.sid <= minted
    /\ \A e \in refresh : e.token <= minted /\ e.sid <= minted
    /\ \A l \in logins : l.sid <= minted
    /\ \A t \in jwts : t.claims["jti"] \in 1 .. minted /\ t.claims["exp"] \in Nat

\* Claims that replace a persona's, and the persona's own, are about someone.
Named ==
    /\ \A l \in logins : l.claims["sub"] # None
    /\ \A s \in subjects : s.claims # None => s.claims["sub"] = s.sub

IInv ==
    /\ TypeOK
    /\ Drawn
    /\ Named
    /\ OneCredentialPerLogin
    /\ CredentialMatchesLogin
    /\ JtiUnique

\* A sid stands for one login, and no token carries the sid of a login whose code is still
\* to be exchanged.
SidsOfLogins ==
    /\ \A l, m \in logins : l.sid = m.sid => l = m
    /\ \A t \in jwts, e \in codes : t.claims["sid"] # e.sid

\* The invariant behind LogoutEndsLogin.
LInv == IInv /\ TokenMatchesLogin /\ SidsOfLogins

----------------------------------------------------------------------------
(* Step properties *)

\* No step issues a token for a subject that is disabled at that moment, be it by a
\* login, an exchange, a refresh, or a refresh under an admin's claims.
NoMintWhileDisabled ==
    [][\A t \in jwts' \ jwts :
         t.claims["sid"] # DefaultClaims["sid"] => ~IsDisabled(SubOf(t.claims))]_vars

\* A token that /introspect called inactive becomes active again only if an admin enables
\* its subject, and never if it was revoked, unless the process restarts with a key from
\* the settings (see RevocationIsRemembered).  (A refresh token is looked up by the claims
\* of the persona, so that a `jti` typed there counts; none is typed here.)
ReactivatedOnlyByAdmin ==
    [][/\ boots' = boots \/ ~StableKey =>
            \A t \in jwts : ~Active(t) /\ Active(t)'
                => IsDisabled(SubOf(t.claims)) /\ ~Revoked(t.claims)
       /\ \A e \in refresh \cap refresh' :
            e.claims["jti"] = None /\ ~RefreshActive(e) /\ RefreshActive(e)'
            => IsDisabled(SubOf(e.claims)) /\ Live(e)]_vars

----------------------------------------------------------------------------
(* Liveness *)

Tokens == 1 .. MaxMinted

\* As long as anything in memory is expired, the sweeper has something to do (Store::sweep).
\* It follows from the definition of Sweep, but ENABLED is out of the provers' reach: the
\* liveness theorem takes it as a hypothesis.
SweeperSeesExpired ==
    \/ \E e \in pending \cup codes \cup refresh : IsExpired(e)
    \/ \E r \in revokedJti : r.exp <= now
    => ENABLED <<Sweep>>_vars

\* Whatever is expired is removed from memory, also what nothing else ever removes.
ExpiredIsReclaimed ==
    \A n \in Tokens :
        /\ (\E e \in pending : e.key = n /\ IsExpired(e)) ~> ~\E e \in pending : e.key = n
        /\ (\E e \in codes : e.code = n /\ IsExpired(e)) ~> ~\E e \in codes : e.code = n
        /\ (\E e \in refresh : e.token = n /\ IsExpired(e)) ~> ~\E e \in refresh : e.token = n
        /\ (\E r \in revokedJti : r.jti = n /\ r.exp <= now)
             ~> ~\E r \in revokedJti : r.jti = n /\ r.exp <= now

----------------------------------------------------------------------------
(* The provider implements LoginLifecycle: a login has the phase its live     *)
(* credential gives it, so that to sweep expired ones changes nothing, and    *)
(* /admin/sessions lists it as long as it has a refresh token.                *)

Phase(s) ==
    CASE \E e \in codes : e.sid = s /\ Live(e) -> "code"
      [] s \in Sessions -> "tokens"
      [] OTHER -> IF \E l \in logins : l.sid = s THEN "over" ELSE "unused"

IssuedFor(s) == {t.claims["jti"] : t \in {u \in jwts : u.claims["sid"] = s}}

Lifecycle == INSTANCE LoginLifecycle
    WITH Sids <- Tokens, Jtis <- Tokens, Refreshable <- RefreshTtl # 0,
         phase <- [s \in Tokens |-> Phase(s)],
         issued <- [s \in Tokens |-> IssuedFor(s)]

LoginsFollowLifecycle == Lifecycle!LifeSpec

\* Whatever ends a login or takes its credential leaves every other login as it is, but for
\* the clock, a restart, and the removal of the one subject that several logins are about:
\* a logout, a revocation, a misuse and the sweeper reach no further.
LoginsEndApart ==
    [][now' = now /\ boots' = boots =>
         \A l, m \in logins' :
            Phase(l.sid)' # Phase(l.sid) /\ Phase(m.sid)' # Phase(m.sid) =>
               \/ l = m
               \/ \E sub \in Subs : /\ DeleteSubject(sub)
                                    /\ SubOf(l.claims) = sub /\ SubOf(m.claims) = sub]_vars

----------------------------------------------------------------------------
(* The provider implements EagerProvider: an expired code or refresh token    *)
(* that the sweeper has not reached counts as gone from the next tick on.     *)

Kept(entries) == {e \in entries : e.expires >= now}

Eager == INSTANCE EagerProvider WITH codes <- Kept(codes), refresh <- Kept(refresh)

\* When the sweeper comes makes no difference to anybody: what is expired and still in
\* memory never yields a token, ends a login or lends it a claim, whoever presents it and
\* whatever an admin removes (Expiring::is_expired at every read; Store::sweep).
SweeperIsInvisible == Eager!EagerSpec

----------------------------------------------------------------------------
(* What the documentation says and the code does not do. *)

\* "To log a `sub` out everywhere, use `DELETE /admin/subjects/{sub}`" (README).
DeleteLogsOutEverywhere ==
    [][\A sub \in Subs : DeleteSubject(sub) =>
         \A e \in codes' \cup refresh' : SubOf(e.claims) # sub]_vars

\* "A client can only revoke its own tokens" (README): whatever is asked of /token, a live
\* refresh token gives way only to its successor.
RefreshTokenKept ==
    [][Grant => \A e \in refresh : Live(e) => \E f \in refresh' : f.sid = e.sid]_vars

\* "Revoking an access/ID token remembers its `jti` until it expires" (README): a token
\* whose jti was revoked is never accepted again.
RevocationIsRemembered ==
    [][\A t \in jwts : Revoked(t.claims) => ~Active(t)']_vars

\* "`azp` is always the `client_id`" (README).
AzpIsClient ==
    \A t \in jwts : \A l \in logins :
        l.sid = t.claims["sid"] => t.claims["azp"] = l.client
=============================================================================
