--------------------------- MODULE UpstreamClient ---------------------------
(***************************************************************************)
(* The client of the upstream identity provider (upstream/client.rs): the  *)
(* discovery document and the keys it caches, the answers it waits for,    *)
(* and what it makes of an ID token.  Requests wait here, so they          *)
(* interleave: a visit is one request of a browser that waits for the      *)
(* upstream.  The upstream itself is external: people log in there, it     *)
(* hands out codes, signs ID tokens and rotates its keys.                  *)
(***************************************************************************)
EXTENDS Integers, FiniteSets, Sequences

CONSTANTS
    Visits,         \* names for requests that wait for the upstream
    Browsers,
    Testers,        \* the people known to the upstream
    None,           \* an empty Option
    NoKid,          \* the kid of a key that has none
    NamedKeys,      \* the upstream names its keys (`kid`)
    ChecksPkce,     \* the upstream looks at the PKCE verifier
    DiscoveryRetry, \* DISCOVERY_RETRY
    Leeway,         \* LEEWAY
    TokenLife,      \* lifetime of an upstream ID token
    MaxNow,         \* bound: the clock stops here
    MaxBoots,       \* bound: restarts of the process
    MaxKeys         \* bound: keys the upstream ever has

VARIABLES
    now,            \* seconds
    boots,          \* restarts so far
    meta,           \* Upstream.meta: is the discovery document cached?
    metaErr,        \* Upstream.meta_err: the age of the last failure, or None
    keys,           \* Upstream.keys: cached keys by kid
    visits,         \* the requests that wait
    published,      \* the upstream's JWKS
    newest,         \* the key the upstream signs with
    asserted,       \* history: every code the upstream issued
    codes,          \* those not yet redeemed
    rejected        \* history: the ID tokens for which no key fitted

clientVars == <<meta, metaErr, keys>>
upstreamVars == <<published, newest, asserted, codes>>

Key == 1 .. MaxKeys
\* The random `state`, `nonce` and PKCE verifier of one login are drawn together:
\* a login is named by one number.
Code == [login : Nat, sub : Testers]
IdToken == [sub : Testers, nonce : Nat, key : Key, exp : Nat]
Visit == [step : {"discover", "exchange", "jwks"}, browser : Browsers,
          login : Nat \cup {None}, code : Code \cup {None},
          token : IdToken \cup {None}, doc : (SUBSET Key) \cup {None}]
Idle == None

ASSUME UpstreamAssumption ==
    /\ NamedKeys \in BOOLEAN /\ ChecksPkce \in BOOLEAN
    /\ DiscoveryRetry \in Nat \ {0} /\ Leeway \in Nat /\ TokenLife \in Nat
    /\ MaxNow \in Nat /\ MaxBoots \in Nat /\ MaxKeys \in Nat \ {0}
    /\ None \notin Nat \cup Testers \cup IdToken \cup Visit /\ (\A doc \in SUBSET Key : None # doc)
    /\ NoKid \notin Nat \cup {None}

ClientTypeOK ==
    /\ now \in Nat /\ boots \in Nat
    /\ meta \in BOOLEAN
    /\ metaErr \in 0 .. DiscoveryRetry \cup {None}
    /\ DOMAIN keys \subseteq Key \cup {NoKid} /\ \A kid \in DOMAIN keys : keys[kid] \in Key
    /\ visits \in [Visits -> Visit \cup {Idle}]
    /\ published \subseteq Key /\ newest \in published
    /\ asserted \subseteq Code /\ codes \subseteq asserted
    /\ rejected \subseteq IdToken

----------------------------------------------------------------------------
(* Keys *)

KidOf(key) == IF NamedKeys THEN key ELSE NoKid

\* The caches a JWKS may be read into: of keys with the same kid any one stays.
ParseJwks(doc) ==
    {cache \in [{KidOf(k) : k \in doc} -> doc] :
        \A kid \in DOMAIN cache : KidOf(cache[kid]) = kid}

\* A token without a kid can only mean the one key there is.
CachedKey(cache, kid) ==
    IF kid = NoKid
    THEN IF Cardinality(DOMAIN cache) = 1
         THEN cache[CHOOSE k \in DOMAIN cache : TRUE] ELSE None
    ELSE IF kid \in DOMAIN cache THEN cache[kid] ELSE None

\* Is the key at hand, or must the JWKS be fetched?  Mutant: a filled cache is
\* never fetched again.
HasKey_Once(token) == DOMAIN keys # {}
HasKey(token) == CachedKey(keys, KidOf(token.key)) # None

\* The signature, exp and nonce checks of verify_id_token.  Mutant: no nonce.
Verified_AnyNonce(token, nonce, key) == token.key = key /\ token.exp + Leeway > now
Verified(token, nonce, key) ==
    /\ token.key = key
    /\ token.exp + Leeway > now
    /\ token.nonce = nonce

----------------------------------------------------------------------------
(* Discovery *)

\* Is a remembered failure still the answer?  Mutant: for ever.
Paused_Forever == metaErr # None
Paused == metaErr # None /\ metaErr < DiscoveryRetry

\* What a failed fetch leaves of the cache.  Mutant: it empties it.
MetaAfterFailure_Cleared == FALSE
MetaAfterFailure == meta

Waiting(v, step) == visits[v] # Idle /\ visits[v].step = step
End(v) == visits' = [visits EXCEPT ![v] = Idle]

\* A request asks for the discovery document.
FetchDiscovery(v, b) ==
    /\ ~meta /\ ~Paused
    /\ visits[v] = Idle
    /\ visits' = [visits EXCEPT ![v] =
                    [step |-> "discover", browser |-> b, login |-> None, code |-> None,
                     token |-> None, doc |-> None]]

\* The answer to a fetch of the discovery document, and its failure.
DiscoveryArrives(v) ==
    /\ Waiting(v, "discover")
    /\ meta' = TRUE
    /\ UNCHANGED <<metaErr, keys>>

DiscoveryFails(v) ==
    /\ Waiting(v, "discover")
    /\ meta' = MetaAfterFailure
    /\ metaErr' = 0
    /\ End(v)
    /\ UNCHANGED keys

----------------------------------------------------------------------------
(* The upstream *)

\* A tester logs in at the upstream, which sends the browser back with a code.
LogInUpstream(login, sub) ==
    LET code == [login |-> login, sub |-> sub] IN
    /\ code \notin asserted
    /\ asserted' = asserted \cup {code}
    /\ codes' = codes \cup {code}
    /\ UNCHANGED <<published, newest>>

\* The ID token for a code, if it is good and, when looked at, the verifier fits.
Redeemable(code, login) == code \in codes /\ (ChecksPkce => code.login = login)
TokenFor(code) == [sub |-> code.sub, nonce |-> code.login, key |-> newest,
                   exp |-> now + TokenLife]

\* The upstream redeems a code.  Until its answer arrives, time passes and keys change.
ServeExchange(v) ==
    LET code == visits[v].code IN
    /\ Waiting(v, "exchange") /\ visits[v].token = None
    /\ Redeemable(code, visits[v].login)
    /\ codes' = codes \ {code}
    /\ visits' = [visits EXCEPT ![v].token = TokenFor(code)]
    /\ UNCHANGED <<published, newest, asserted>>

\* Key rotation: a new key joins and signs from now on; an old one is withdrawn.
Rotate ==
    /\ newest < MaxKeys
    /\ newest' = newest + 1
    /\ published' = published \cup {newest + 1}
    /\ UNCHANGED <<asserted, codes>>

Retire ==
    /\ \E key \in published \ {newest} : published' = published \ {key}
    /\ UNCHANGED <<newest, asserted, codes>>

\* The upstream answers a JWKS request with what it publishes at that moment.
ServeJwks(v) ==
    /\ Waiting(v, "jwks") /\ visits[v].doc = None
    /\ visits' = [visits EXCEPT ![v].doc = published]

----------------------------------------------------------------------------
ClientInit ==
    /\ now = 0 /\ boots = 0
    /\ meta = FALSE /\ metaErr = None /\ keys = <<>>
    /\ visits = [v \in Visits |-> Idle]
    /\ published = {1} /\ newest = 1 /\ asserted = {} /\ codes = {}
    /\ rejected = {}

\* Upstream::new in a new process: nothing is cached and nobody waits.
ClientRestart ==
    /\ boots < MaxBoots
    /\ boots' = boots + 1
    /\ meta' = FALSE /\ metaErr' = None /\ keys' = <<>>
    /\ visits' = [v \in Visits |-> Idle]

=============================================================================
