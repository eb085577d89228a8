------------------------------ MODULE Provider ------------------------------
(***************************************************************************)
(* The provider as a whole: every request the router (routes/mod.rs) sends *)
(* to a handler that changes the store, interleaved with the sweeper, the  *)
(* clock and restarts; and what must hold of it.                           *)
(***************************************************************************)
EXTENDS SessionEndpoints

CONSTANTS
    AdminOn,        \* ADMIN_TOKEN is set, so the admin endpoints exist
    Requests,       \* the authorization requests applications send
    Usernames,      \* the names people log in with
    PasswordScopes  \* the scopes of password grants: with offline_access?  with openid?

ASSUME RequestsAssumption ==
    /\ AdminOn \in BOOLEAN
    /\ Requests \subseteq AuthRequest
    /\ Usernames \subseteq Subs
    /\ PasswordScopes \subseteq [offline : BOOLEAN, openid : BOOLEAN]

Init == StoreInit

\* A browser at the login page; upstream is the tester behind it.
LogIn(upstream) ==
    \E req \in Requests :
        \/ GetAuthorize(req, upstream)
        \/ \E expiresIn \in TypedExpiresIn :
             \/ \E typed \in TypedClaims, username \in Usernames :
                  PostAuthorize(req, typed, username, expiresIn, upstream)
             \/ PostAsUpstream(req, expiresIn, upstream)

Grant ==
    \E client \in KnownIds, secret \in KnownSecrets :
        \/ \E e \in codes, uri \in Uris \cup {None}, verifier \in Verifiers \cup {None} :
             \/ RedeemCode(e, client, secret, uri, verifier)
             \/ WasteCode(e, client, secret, uri, verifier)
        \/ \E e \in refresh : \/ Rotate(e, client, secret)
                              \/ WasteRefresh(e, client, secret)
        \/ \E username \in Usernames, scope \in PasswordScopes :
             Password(client, secret, username, scope.offline, scope.openid)
        \/ ClientCredentials(client, secret)

End ==
    \/ \E client \in KnownIds, secret \in KnownSecrets :
         \/ \E e \in refresh : RevokeRefresh(e, client, secret)
         \/ \E jwt \in jwts : RevokeJwt(jwt, client, secret)
    \/ \E hint \in jwts : EndSession(hint)

Admin ==
    /\ AdminOn
    /\ \/ \E sub \in Subs : \/ \E claims \in OverrideClaims, disabled \in BOOLEAN :
                                 PutSubject(sub, claims, disabled)
                            \/ DeleteSubject(sub)
       \/ \E e \in refresh : EndAdminSession(e.sid)

\* What needs no browser: the applications' requests, the admin's, and the sweeper.
Serve ==
    \/ Grant
    \/ End
    \/ Admin
    \/ \E uris \in SUBSET Uris, public \in BOOLEAN : Register(uris, public)
    \/ Sweep

Next ==
    \/ \E upstream \in GateSessions : LogIn(upstream)
    \/ Serve
    \/ Tick
    \/ Restart

Spec == Init /\ [][Next]_vars

\* The sweeper's loop never ends, and every tick of it sweeps.
FairSpec == Spec /\ WF_vars(Sweep)

=============================================================================
