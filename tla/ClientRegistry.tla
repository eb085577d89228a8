--------------------------- MODULE ClientRegistry ---------------------------
(***************************************************************************)
(* Who a caller is: dynamic registration (register.rs), client             *)
(* authentication and the trusted clients of the gate (token.rs), and the  *)
(* check of an authorization request (authorize.rs).                       *)
(***************************************************************************)
EXTENDS Issuer

CONSTANTS
    GateOn,         \* UPSTREAM_ISSUER is set
    MaxRegistered   \* bound: clients registered at run time

ASSUME RegistryAssumption == GateOn \in BOOLEAN /\ MaxRegistered \in Nat

\* The ids and secrets a caller may present.
KnownIds == Clients \cup {c.id : c \in clients}
KnownSecrets == {c.secret : c \in clients} \cup {None}

\* authenticate_client: anything goes outside strict mode.
Authenticated(client, secret) ==
    Strict => \E c \in clients : c.id = client /\ c.secret \in {None, secret}

\* Mutant of Trusted: it looks a client up among the registered ones.
Trusted_AnyRegistered(client, secret) ==
    GateOn => \E c \in clients : c.id = client /\ c.secret # None /\ c.secret = secret

\* ensure_trusted_client: with the gate on, a grant without a browser needs a client of
\* CLIENTS that has a secret.
Trusted(client, secret) ==
    GateOn => \E c \in ConfiguredClients :
                 c.id = client /\ c.secret # None /\ c.secret = secret

\* Mutant of ValidRequest: PKCE stays optional.
ValidRequest_SkipsPkce(req) ==
    Strict => \E c \in clients : c.id = req.client /\ req.uri \in c.uris

\* validate: strict mode wants a registered redirect URI, and PKCE of a public client.
ValidRequest(req) ==
    Strict => \E c \in clients : /\ c.id = req.client
                                 /\ req.uri \in c.uris
                                 /\ c.secret = None => req.challenge # None

\* A public client draws an id, a confidential one an id and a secret.
Register(uris, public) ==
    LET id == minted + 1
        drawn == IF public THEN 1 ELSE 2
    IN  /\ CanMint(drawn)
        /\ Cardinality({c \in clients : c.id \in Nat}) < MaxRegistered
        /\ clients' = clients \cup
               {[id |-> id, secret |-> IF public THEN None ELSE minted + 2, uris |-> uris]}
        /\ minted' = minted + drawn
        /\ UNCHANGED <<worldVars, pending, codes, refresh, subjects, revokedJti, jwts, logins>>
=============================================================================
