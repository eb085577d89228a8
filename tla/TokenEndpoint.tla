--------------------------- MODULE TokenEndpoint ---------------------------
(***************************************************************************)
(* POST /token (token.rs under routes): the four grants.                   *)
(***************************************************************************)
EXTENDS LoginEndpoint

CONSTANTS
    UpstreamClaim,      \* UPSTREAM_SUB_TOKEN_CLAIM: a claim name, or None
    MaxServiceTokens    \* bound: tokens of client_credentials grants

\* The names UPSTREAM_SUB_TOKEN_CLAIM may not take (of those that are modelled).
RESERVED_CLAIMS == {"sub", "azp", "exp", "iat", "jti"}

ASSUME TokenEndpointAssumption ==
    /\ UpstreamClaim \in (ClaimName \ RESERVED_CLAIMS) \cup {None} /\ None \notin ClaimName
    /\ MaxServiceTokens \in Nat

\* Mutant of WithUpstreamClaim: a typed claim wins.
WithUpstreamClaim_TypedWins(claims, upstream) ==
    IF UpstreamClaim # None /\ upstream # None /\ claims[UpstreamClaim] = None
    THEN [claims EXCEPT ![UpstreamClaim] = upstream] ELSE claims

\* The tester's `sub`, set over whatever was typed at login.
WithUpstreamClaim(claims, upstream) ==
    IF UpstreamClaim # None /\ upstream # None
    THEN [claims EXCEPT ![UpstreamClaim] = upstream] ELSE claims

\* The tokens of one grant to a user, under the claims of the moment.
UserTokens(login, claims, withId, drawn) ==
    Issue([client |-> login.client, claims |-> WithUpstreamClaim(claims, login.upstream),
           sid |-> login.sid, expiresIn |-> login.expiresIn, withId |-> withId], drawn)

\* The claims of a refresh: the subject's admin override if there is one, else the login
\* snapshot.
RefreshClaims(e) ==
    LET overrides == {s \in subjects : s.sub = SubOf(e.claims) /\ s.claims # None}
    IN  IF overrides = {} THEN e.claims ELSE (CHOOSE s \in overrides : TRUE).claims

\* Mutants of NewRefresh: the sid is lost, the kind is lost, the override is kept for good.
NewRefresh_NoSid(token, login) ==
    [token |-> token, client |-> login.client, claims |-> login.claims, sid |-> None,
     expiresIn |-> login.expiresIn, offline |-> login.offline, upstream |-> login.upstream,
     expires |-> now + RefreshTtl]
NewRefresh_Online(token, login) ==
    [token |-> token, client |-> login.client, claims |-> login.claims, sid |-> login.sid,
     expiresIn |-> login.expiresIn, offline |-> FALSE, upstream |-> login.upstream,
     expires |-> now + RefreshTtl]
NewRefresh_KeepsOverride(token, login) ==
    [token |-> token, client |-> login.client, claims |-> RefreshClaims(login), sid |-> login.sid,
     expiresIn |-> login.expiresIn, offline |-> login.offline, upstream |-> login.upstream,
     expires |-> now + RefreshTtl]

\* The refresh token of a login, fresh or rotated: what was agreed stays.
NewRefresh(token, login) ==
    [token |-> token, client |-> login.client, claims |-> login.claims, sid |-> login.sid,
     expiresIn |-> login.expiresIn, offline |-> login.offline, upstream |-> login.upstream,
     expires |-> now + RefreshTtl]

----------------------------------------------------------------------------
(* grant_type=authorization_code.  The code is taken out before anything else *)
(* is looked at.                                                              *)

\* Mutants of Redeemable: who was disabled since the login is not asked again; that expired
\* codes go is left to the sweeper.
Redeemable_ForgetsDisabled(e, client, uri, verifier) ==
    /\ Live(e)
    /\ e.req.client = client
    /\ e.req.uri = uri
    /\ e.req.challenge \in {None, verifier}

Redeemable_WhileInMemory(e, client, uri, verifier) ==
    /\ e.req.client = client
    /\ e.req.uri = uri
    /\ e.req.challenge \in {None, verifier}
    /\ ~IsDisabled(SubOf(e.claims))

Redeemable(e, client, uri, verifier) ==
    /\ Live(e)
    /\ e.req.client = client
    /\ e.req.uri = uri
    /\ e.req.challenge \in {None, verifier}
    /\ ~IsDisabled(SubOf(e.claims))

RedeemCode(e, client, secret, uri, verifier) ==
    /\ Authenticated(client, secret)
    /\ Redeemable(e, client, uri, verifier)
    /\ CanMint(3)
    /\ codes' = TakeCode(e)
    /\ jwts' = jwts \cup UserTokens(LoginOf(e), e.claims, TRUE, minted)
    /\ refresh' = refresh \cup {NewRefresh(minted + 3, LoginOf(e))}
    /\ minted' = minted + 3
    /\ UNCHANGED <<worldVars, pending, clients, subjects, revokedJti, logins>>

WasteCode(e, client, secret, uri, verifier) ==
    /\ Authenticated(client, secret)
    /\ ~Redeemable(e, client, uri, verifier)
    /\ codes' = TakeCode(e)
    /\ UNCHANGED <<worldVars, minted, pending, refresh, clients, subjects, revokedJti, jwts,
                   logins>>

----------------------------------------------------------------------------
(* grant_type=refresh_token.  A disabled subject is told so and keeps the     *)
(* token; otherwise the token is taken out, whoever presented it.             *)

Taken(e) == ~(Live(e) /\ IsDisabled(SubOf(e.claims)))

Rotate(e, client, secret) ==
    /\ Authenticated(client, secret)
    /\ Taken(e) /\ Live(e)
    /\ e.client = client
    /\ CanMint(3)
    /\ jwts' = jwts \cup UserTokens(e, RefreshClaims(e), TRUE, minted)
    /\ refresh' = TakeRefresh(e) \cup {NewRefresh(minted + 3, e)}
    /\ minted' = minted + 3
    /\ UNCHANGED <<worldVars, pending, codes, clients, subjects, revokedJti, logins>>

WasteRefresh(e, client, secret) ==
    /\ Authenticated(client, secret)
    /\ Taken(e)
    /\ IsExpired(e) \/ e.client # client
    /\ refresh' = TakeRefresh(e)
    /\ UNCHANGED <<worldVars, minted, pending, codes, clients, subjects, revokedJti, jwts,
                   logins>>

----------------------------------------------------------------------------
(* grant_type=password: a login without a browser. *)

Password(client, secret, username, offline, openid) ==
    LET claims == [NoClaims EXCEPT !["sub"] = username]
        sid == minted + 1
        token == minted + (IF openid THEN 4 ELSE 3)
        login == [sid |-> sid, client |-> client, claims |-> claims, offline |-> offline,
                  expiresIn |-> None, upstream |-> None]
    IN  /\ Authenticated(client, secret)
        /\ Trusted(client, secret)
        /\ ~IsDisabled(SubOf(claims))
        /\ token <= MaxMinted
        /\ Cardinality(logins) < MaxLogins
        /\ jwts' = jwts \cup UserTokens(login, claims, openid, sid)
        /\ refresh' = refresh \cup {NewRefresh(token, login)}
        /\ minted' = token
        /\ logins' = logins \cup {login}
        /\ UNCHANGED <<worldVars, pending, codes, clients, subjects, revokedJti>>

\* grant_type=client_credentials: an access token for the client itself, no login.
ClientCredentials(client, secret) ==
    /\ Authenticated(client, secret)
    /\ Trusted(client, secret)
    /\ CanMint(1)
    /\ Cardinality({t \in jwts : t.claims["sid"] = DefaultClaims["sid"]}) < MaxServiceTokens
    /\ jwts' = jwts \cup
           Issue([client |-> client, claims |-> [NoClaims EXCEPT !["sub"] = client],
                  sid |-> None, expiresIn |-> None, withId |-> FALSE], minted)
    /\ minted' = minted + 1
    /\ UNCHANGED <<worldVars, storeVars, logins>>
=============================================================================
