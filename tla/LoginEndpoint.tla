--------------------------- MODULE LoginEndpoint ---------------------------
(***************************************************************************)
(* GET and POST /authorize (authorize.rs): the login page and the login    *)
(* form, whose outcome is an authorization code.                           *)
(***************************************************************************)
EXTENDS ClientRegistry

CONSTANTS
    TypedClaims,        \* the claim sets typed into the form
    TypedExpiresIn,     \* the `expires_in` typed into the form, or None
    UpstreamIdentity,   \* the forwarded upstream claims of each tester
    MaxLogins           \* bound: logins made

ASSUME LoginAssumption ==
    /\ TypedClaims \subseteq Claims
    /\ TypedExpiresIn \subseteq 0 .. U64 - 1 \cup {None}
    /\ UpstreamIdentity \in [Testers -> Claims]
    /\ MaxLogins \in Nat

\* The tester behind the browser's gate cookie; no cookie is needed with the gate off.
GateSessions == IF GateOn THEN Testers ELSE {None}

\* The login page is on record until the sweeper forgets it; nothing reads the record.
GetAuthorize(req, upstream) ==
    /\ upstream \in GateSessions
    /\ ValidRequest(req)
    /\ CanMint(1)
    /\ Cardinality(pending) < MaxPending
    /\ pending' = pending \cup {[key |-> minted + 1, req |-> req, expires |-> now + PendingTtl]}
    /\ minted' = minted + 1
    /\ UNCHANGED <<worldVars, codes, refresh, clients, subjects, revokedJti, jwts, logins>>

\* What a code agrees to: the fields its refresh token takes over.
LoginOf(entry) ==
    [sid |-> entry.sid, client |-> entry.req.client, claims |-> entry.claims,
     offline |-> entry.req.offline, expiresIn |-> entry.expiresIn, upstream |-> entry.upstream]

\* issue_code: a disabled subject gets no code.
IssueCode(req, claims, expiresIn, upstream) ==
    LET entry == [code |-> minted + 1, req |-> req, claims |-> claims, sid |-> minted + 2,
                  expiresIn |-> expiresIn, upstream |-> upstream, expires |-> now + CodeTtl]
    IN  /\ ~IsDisabled(SubOf(claims))
        /\ CanMint(2)
        /\ Cardinality(logins) < MaxLogins
        /\ codes' = codes \cup {entry}
        /\ minted' = minted + 2
        /\ logins' = logins \cup {LoginOf(entry)}
        /\ UNCHANGED <<worldVars, pending, refresh, clients, subjects, revokedJti, jwts>>

\* The persona: the typed claims, with the username as `sub` unless one was typed.
Persona(typed, username) ==
    IF typed["sub"] # None THEN typed ELSE [typed EXCEPT !["sub"] = username]

PostAuthorize(req, typed, username, expiresIn, upstream) ==
    /\ upstream \in GateSessions
    /\ ValidRequest(req)
    /\ IssueCode(req, Persona(typed, username), expiresIn, upstream)

\* Log in as the tester's own upstream identity.
PostAsUpstream(req, expiresIn, upstream) ==
    /\ upstream \in GateSessions \ {None}
    /\ ValidRequest(req)
    /\ IssueCode(req, [UpstreamIdentity[upstream] EXCEPT !["sub"] = upstream],
                 expiresIn, upstream)
=============================================================================
