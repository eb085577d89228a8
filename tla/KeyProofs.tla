------------------------------ MODULE KeyProofs ------------------------------
(***************************************************************************)
(* Proof that an upstream that names its keys sees an ID token refused     *)
(* only for a key it has withdrawn.                                        *)
(***************************************************************************)
EXTENDS GateProofs

\* No key comes back, and keys are numbered as they join.
KeysInOrder ==
    /\ published \subseteq 1 .. newest
    /\ \A token \in rejected : token.key \in 1 .. newest
    /\ \A v \in Visits : Holding(v) => visits[v].token.key \in 1 .. newest

\* A key is cached by its name.
CacheNamed == \A kid \in DOMAIN keys : KidOf(keys[kid]) = kid

\* A request that waits for its ID token has read no JWKS.
NoDocYet == \A v \in Visits : Waiting(v, "exchange") => visits[v].doc = None

\* A JWKS that was read when the ID token was there lacks its key only if that is withdrawn.
DocsTell ==
    \A v \in Visits : Waiting(v, "jwks") /\ visits[v].doc # None =>
        \/ visits[v].token.key \in visits[v].doc
        \/ visits[v].token.key \notin published

KInv ==
    GInv /\ KeysInOrder /\ CacheNamed /\ NoDocYet /\ DocsTell /\ RefusedKeysAreWithdrawn

\* KInv without what GateProofs proves.
KeysFit == KeysInOrder /\ CacheNamed /\ NoDocYet /\ DocsTell /\ RefusedKeysAreWithdrawn

\* With named keys, what the cache finds for a token is its own key or nothing.
LEMMA CacheFinds ==
  ASSUME NamedKeys, NEW cache, NEW key \in Key, \A kid \in DOMAIN cache : cache[kid] \in Key,
         \A kid \in DOMAIN cache : KidOf(cache[kid]) = kid
  PROVE  /\ CachedKey(cache, KidOf(key)) \in {key, None}
         /\ key \in DOMAIN cache => CachedKey(cache, KidOf(key)) = key
<1>1. KidOf(key) = key /\ key # NoKid
  BY UpstreamAssumption DEF KidOf, Key
<1> QED
  BY <1>1 DEF CachedKey, KidOf

\* A step that leaves the keys, the cache and the waiting requests as they are, or ends one.
LEMMA KeysStay ==
  ASSUME KInv, UNCHANGED <<keys, published, newest, rejected>>,
         \A v \in Visits : Holding(v)' \/ Waiting(v, "jwks")' => visits'[v] = visits[v],
         NoDocYet'
  PROVE  KeysFit'
BY DEF KInv, KeysFit, KeysInOrder, CacheNamed, DocsTell, RefusedKeysAreWithdrawn, KidOf,
   Holding, Waiting

\* The end of a callback: a token joins the refused ones only if its key was not found.
LEMMA ConcludeKeys ==
  ASSUME KInv, NEW v \in Visits, NEW token \in IdToken, NEW key,
         Conclude(v, token, key), UNCHANGED <<published, newest>>, CacheNamed',
         token.key \in 1 .. newest, key = token.key \/ token.key \notin published
  PROVE  KeysFit'
<1>1. /\ visits' = [visits EXCEPT ![v] = Idle]
      /\ rejected' = IF key = token.key THEN rejected ELSE rejected \cup {token}
  BY DEF Conclude, End
<1>2. visits \in [Visits -> Visit \cup {Idle}]
  BY Parts DEF KInv
<1>3. \A w \in Visits : visits'[w] # Idle => visits'[w] = visits[w]
  BY <1>1, <1>2
<1>4. KeysInOrder'
  BY <1>1, <1>3 DEF KInv, KeysInOrder, Holding
<1>5. DocsTell'
  BY <1>3 DEF KInv, DocsTell, Waiting
<1>6. RefusedKeysAreWithdrawn'
  BY <1>1 DEF KInv, RefusedKeysAreWithdrawn
<1>7. NoDocYet'
  BY <1>1, <1>2 DEF KInv, NoDocYet, Waiting
<1> QED
  BY <1>4, <1>5, <1>6, <1>7 DEF KeysFit

\* A step in which a request ends or begins, or nothing happens to it.
LEMMA OthersStay ==
  ASSUME KInv, UNCHANGED <<keys, published, newest, rejected>>,
         \/ visits' = visits
         \/ \E v \in Visits, new \in Visit \cup {Idle} :
              /\ visits' = [visits EXCEPT ![v] = new]
              /\ new # Idle => new.step # "jwks" /\ new.token = None /\ new.doc = None
  PROVE  KeysFit'
<1>1. visits \in [Visits -> Visit \cup {Idle}]
  BY Parts DEF KInv
<1>2. CASE visits' = visits
  BY <1>2, KeysStay DEF KInv, NoDocYet, Waiting
<1>3. CASE \E v \in Visits, new \in Visit \cup {Idle} :
              /\ visits' = [visits EXCEPT ![v] = new]
              /\ new # Idle => new.step # "jwks" /\ new.token = None /\ new.doc = None
  <2>1. PICK v \in Visits, new \in Visit \cup {Idle} :
              /\ visits' = [visits EXCEPT ![v] = new]
              /\ new # Idle => new.step # "jwks" /\ new.token = None /\ new.doc = None
    BY <1>3
  <2>2. \A w \in Visits : Holding(w)' \/ Waiting(w, "jwks")' => visits'[w] = visits[w]
    BY <1>1, <2>1 DEF Holding, Waiting
  <2>3. NoDocYet'
    BY <1>1, <2>1 DEF KInv, NoDocYet, Waiting
  <2> QED
    BY <2>2, <2>3, KeysStay
<1> QED
  BY <1>2, <1>3

\* The end of a visit leaves the keys as they were.
LEMMA EndedKeys ==
  ASSUME KInv, NEW v \in Visits, End(v), UNCHANGED <<keys, published, newest, rejected>>
  PROVE  KeysFit'
BY OthersStay DEF End

\* An ID token is signed with the newest key.
LEMMA RedeemedKeys == ASSUME KInv, NEW v \in Visits, ExchangeServed(v) PROVE KeysFit'
<1> DEFINE token == TokenFor(visits[v].code)
<1>1. WorldType /\ visits \in [Visits -> Visit \cup {Idle}]
  BY Parts DEF KInv
<1>2. /\ visits[v] # Idle /\ visits[v].step = "exchange" /\ visits[v].doc = None
      /\ visits' = [visits EXCEPT ![v].token = token]
      /\ UNCHANGED <<keys, published, newest, rejected>>
  BY DEF ExchangeServed, ServeExchange, Waiting, clientVars, KInv, NoDocYet
<1>3. visits[v] \in Visit /\ token.key = newest
  BY <1>2, Waits, TokenType DEF KInv
<1>4. newest \in 1 .. newest
  BY <1>1, UpstreamAssumption DEF WorldType, Key
<1> HIDE DEF token
<1>5. /\ visits'[v].token = token /\ visits'[v].step = "exchange" /\ visits'[v].doc = None
      /\ \A w \in Visits \ {v} : visits'[w] = visits[w]
  BY <1>1, <1>2, <1>3 DEF Visit
<1>6. KeysInOrder'
  BY <1>2, <1>3, <1>4, <1>5 DEF KInv, KeysInOrder, Holding
<1>7. NoDocYet' /\ DocsTell'
  BY <1>2, <1>5 DEF KInv, NoDocYet, DocsTell, Waiting
<1>8. CacheNamed' /\ RefusedKeysAreWithdrawn'
  BY <1>2 DEF KInv, CacheNamed, RefusedKeysAreWithdrawn, KidOf
<1> QED
  BY <1>6, <1>7, <1>8 DEF KeysFit

\* A token whose key is cached is checked at once, and the cache only held true keys.
LEMMA ExchangeKeys == ASSUME NamedKeys, KInv, NEW v \in Visits, ExchangeAnswered(v) PROVE KeysFit'
<1> DEFINE token == visits[v].token
<1>1. WorldType /\ visits \in [Visits -> Visit \cup {Idle}]
  BY Parts DEF KInv
<1>2. /\ visits[v] # Idle /\ visits[v].step = "exchange" /\ visits[v].doc = None
      /\ token # None /\ UNCHANGED <<keys, published, newest>>
  BY DEF ExchangeAnswered, Waiting, clientVars, upstreamVars, KInv, NoDocYet
<1>3. visits[v] \in Visit /\ token \in IdToken /\ token.key \in Key
  BY <1>2, Waits, Holds DEF KInv, IdToken
<1>4. token.key \in 1 .. newest
  BY <1>2 DEF KInv, KeysInOrder, Holding
<1>5. CASE HasKey(token)
  <2> DEFINE key == CachedKey(keys, KidOf(token.key))
  <2>1. Conclude(v, token, key)
    BY <1>5 DEF ExchangeAnswered
  <2>2. key = token.key
    BY <1>1, <1>3, <1>5, CacheFinds DEF HasKey, WorldType, KInv, CacheNamed
  <2>3. CacheNamed'
    BY <1>2 DEF KInv, CacheNamed, KidOf
  <2> HIDE DEF token, key
  <2> QED
    BY <1>2, <1>3, <1>4, <2>1, <2>2, <2>3, ConcludeKeys
<1>6. CASE ~HasKey(token)
  <2>1. /\ visits' = [visits EXCEPT ![v].step = "jwks"]
        /\ rejected' = rejected
    BY <1>6 DEF ExchangeAnswered
  <2>2. /\ visits'[v].token = token /\ visits'[v].step = "jwks" /\ visits'[v].doc = None
        /\ \A w \in Visits \ {v} : visits'[w] = visits[w]
    BY <1>1, <1>2, <1>3, <2>1 DEF Visit
  <2> HIDE DEF token
  <2>3. KeysInOrder'
    BY <1>2, <1>4, <2>1, <2>2 DEF KInv, KeysInOrder, Holding
  <2>4. NoDocYet' /\ DocsTell'
    BY <1>2, <2>2 DEF KInv, NoDocYet, DocsTell, Waiting
  <2>5. CacheNamed' /\ RefusedKeysAreWithdrawn'
    BY <1>2, <2>1 DEF KInv, CacheNamed, RefusedKeysAreWithdrawn, KidOf
  <2> QED
    BY <2>3, <2>4, <2>5 DEF KeysFit
<1> QED
  BY <1>5, <1>6

\* The JWKS on its way holds the keys published when it was read.
LEMMA ServedKeys == ASSUME KInv, NEW v \in Visits, JwksServed(v) PROVE KeysFit'
<1>1. WorldType /\ visits \in [Visits -> Visit \cup {Idle}]
  BY Parts DEF KInv
<1>2. /\ Waiting(v, "jwks") /\ visits' = [visits EXCEPT ![v].doc = published]
      /\ UNCHANGED <<keys, published, newest, rejected>>
  BY DEF JwksServed, ServeJwks, clientVars, upstreamVars
<1>3. /\ visits'[v].token = visits[v].token /\ visits'[v].doc = published
      /\ visits'[v].step = "jwks"
      /\ \A w \in Visits \ {v} : visits'[w] = visits[w]
  BY <1>1, <1>2 DEF Visit, Waiting
<1>4. KeysInOrder'
  BY <1>2, <1>3 DEF KInv, KeysInOrder, Holding, Waiting
<1>5. NoDocYet' /\ DocsTell'
  BY <1>2, <1>3 DEF KInv, NoDocYet, DocsTell, Waiting
<1>6. CacheNamed' /\ RefusedKeysAreWithdrawn'
  BY <1>2 DEF KInv, CacheNamed, RefusedKeysAreWithdrawn, KidOf
<1> QED
  BY <1>4, <1>5, <1>6 DEF KeysFit

\* The JWKS that arrives replaces the cache and settles the token that waited for it.
LEMMA ArrivedKeys == ASSUME NamedKeys, KInv, NEW v \in Visits, JwksArrives(v) PROVE KeysFit'
<1> DEFINE token == visits[v].token
           doc == visits[v].doc
<1>1. /\ Waiting(v, "jwks") /\ visits[v] # Idle /\ visits[v].step = "jwks" /\ doc # None
      /\ UNCHANGED <<published, newest>>
  BY DEF JwksArrives, Waiting, upstreamVars
<1>2. doc \in SUBSET Key /\ token \in IdToken /\ token.key \in Key
  BY <1>1, Waits, Holds DEF Visit, KInv, IdToken
<1>3. PICK cache \in ParseJwks(doc) :
        keys' = cache /\ Conclude(v, token, CachedKey(cache, KidOf(token.key)))
  BY DEF JwksArrives
<1>4. /\ cache \in [doc -> doc] /\ \A kid \in DOMAIN cache : KidOf(cache[kid]) = kid
  BY <1>3 DEF ParseJwks, KidOf
<1>5. CacheNamed'
  BY <1>3, <1>4 DEF CacheNamed, KidOf
<1>6. token.key \in 1 .. newest
  BY <1>1, Holds DEF KInv, KeysInOrder, Holding
<1>7. \/ CachedKey(cache, KidOf(token.key)) = token.key
      \/ token.key \notin published
  <2>1. CASE token.key \in doc
    <3>1. token.key \in DOMAIN cache /\ \A kid \in DOMAIN cache : cache[kid] \in Key
      BY <1>2, <1>4, <2>1
    <3> QED
      BY <1>2, <1>4, <3>1, CacheFinds
  <2>2. CASE token.key \notin doc
    BY <1>1, <2>2 DEF KInv, DocsTell
  <2> QED
    BY <2>1, <2>2
<1> HIDE DEF token, doc
<1> QED
  BY <1>1, <1>2, <1>3, <1>5, <1>6, <1>7, ConcludeKeys

\* The upstream rotates its keys or withdraws one.
LEMMA AtUpstreamKeys == ASSUME KInv, AtUpstream PROVE KeysFit'
<1>1. newest \in Nat /\ published \subseteq 1 .. newest /\ newest \in published
  <2>1. WorldType /\ KeysInOrder
    BY Parts DEF KInv
  <2> QED
    BY <2>1, UpstreamAssumption DEF WorldType, Key, KeysInOrder
<1>2. UNCHANGED <<keys, visits, rejected>>
  BY DEF AtUpstream, clientVars
<1>3. CASE \E login \in 1 .. Len(started), sub \in Testers : LogInUpstream(login, sub)
  BY <1>2, <1>3, OthersStay DEF LogInUpstream
<1>4. CASE Rotate
  <2>1. newest' = newest + 1 /\ published' = published \cup {newest + 1}
    BY <1>4 DEF Rotate
  <2>2. published' \subseteq 1 .. newest' /\ 1 .. newest \subseteq 1 .. newest'
        /\ newest + 1 \notin 1 .. newest
    BY <1>1, <2>1
  <2>3. KeysInOrder'
    BY <1>2, <2>2 DEF KInv, KeysInOrder, Holding
  <2>4. DocsTell' /\ NoDocYet'
    <3>1. \A v \in Visits : Waiting(v, "jwks") => visits[v].token.key \in 1 .. newest
      BY Holds DEF KInv, KeysInOrder, Holding, Waiting
    <3> QED
      BY <1>2, <2>1, <2>2, <3>1 DEF KInv, DocsTell, NoDocYet, Waiting
  <2>5. RefusedKeysAreWithdrawn' /\ CacheNamed'
    BY <1>2, <2>1, <2>2 DEF KInv, KeysInOrder, RefusedKeysAreWithdrawn, CacheNamed, KidOf
  <2> QED
    BY <2>3, <2>4, <2>5 DEF KeysFit
<1>5. CASE Retire
  <2>1. newest' = newest /\ published' \subseteq published
    BY <1>5 DEF Retire
  <2> QED
    BY <1>2, <2>1 DEF KInv, KeysFit, KeysInOrder, DocsTell, NoDocYet, Holding, Waiting,
       RefusedKeysAreWithdrawn, CacheNamed, KidOf
<1> QED
  BY <1>3, <1>4, <1>5 DEF AtUpstream

\* A restart empties the cache.
LEMMA RestartKeys == ASSUME KInv, Restart PROVE KeysFit'
<1>1. /\ \A v \in Visits : visits'[v] = Idle
      /\ UNCHANGED <<published, newest, rejected>>
  BY DEF Restart, ClientRestart, upstreamVars
<1>2. keys' = <<>>
  BY DEF Restart, ClientRestart
<1>3. DOMAIN keys' = {}
  BY <1>2
<1>4. CacheNamed'
  BY <1>3 DEF CacheNamed
<1> QED
  BY <1>1, <1>4 DEF KInv, KeysFit, KeysInOrder, NoDocYet, DocsTell, RefusedKeysAreWithdrawn,
     Holding, Waiting

\* Whatever browsers, the upstream and the HTTP client do keeps KeysFit.
LEMMA MoveKeys == ASSUME NamedKeys, KInv, Move PROVE KeysFit'
<1>1. CASE \E b \in Browsers : StartLogin(b)
  BY <1>1, OthersStay DEF StartLogin, clientVars, upstreamVars
<1>2. CASE SomeoneVisits
  <2>1. PICK v \in Visits, b \in Browsers : BeginDiscovery(v, b)
    BY <1>2 DEF SomeoneVisits
  <2> DEFINE new == [step |-> "discover", browser |-> b, login |-> None, code |-> None,
                     token |-> None, doc |-> None]
  <2>2. new \in Visit /\ new.step # "jwks" /\ new.token = None /\ new.doc = None
    BY DEF Visit
  <2>3. visits' = [visits EXCEPT ![v] = new] /\ UNCHANGED <<keys, published, newest, rejected>>
    BY <2>1 DEF BeginDiscovery, FetchDiscovery, clientVars, upstreamVars
  <2> HIDE DEF new
  <2> QED
    BY <2>2, <2>3, OthersStay
<1>3. CASE \E v \in Visits, b \in Browsers, login \in 1 .. Len(started), code \in asserted :
             Callback(v, b, login, code)
  <2>1. PICK v \in Visits, b \in Browsers, login \in 1 .. Len(started), code \in asserted :
               Callback(v, b, login, code)
    BY <1>3
  <2> DEFINE new == [step |-> "exchange", browser |-> b, login |-> login, code |-> code,
                     token |-> None, doc |-> None]
  <2>2. code \in Code /\ login \in Nat
    BY Parts DEF KInv, WorldType
  <2>3. new \in Visit /\ new.step # "jwks" /\ new.token = None /\ new.doc = None
    BY <2>2 DEF Visit
  <2>4. visits' = [visits EXCEPT ![v] = new] /\ UNCHANGED <<keys, published, newest, rejected>>
    BY <2>1 DEF Callback, clientVars, upstreamVars
  <2> HIDE DEF new
  <2> QED
    BY <2>3, <2>4, OthersStay
<1>4. CASE \E b \in Browsers, login \in 1 .. Len(started) : CallbackRefused(b, login)
  BY <1>4, OthersStay DEF CallbackRefused, clientVars, upstreamVars
<1>5. CASE \E v \in Visits : Settles(v) \/ Abandon(v)
  <2>1. PICK v \in Visits : Settles(v) \/ Abandon(v)
    BY <1>5
  <2>2. CASE \/ LoginAfterDiscovery(v) \/ NoLoginAfterDiscovery(v)
             \/ ExchangeFailed(v) \/ JwksFails(v) \/ Abandon(v)
    BY <2>2, EndedKeys DEF LoginAfterDiscovery, DiscoveryArrives, NoLoginAfterDiscovery,
       DiscoveryFails, ExchangeFailed, JwksFails, Abandon, clientVars, upstreamVars
  <2> QED
    BY <2>1, <2>2, RedeemedKeys, ExchangeKeys, ServedKeys, ArrivedKeys DEF Settles
<1>6. CASE AtUpstream
  BY <1>6, AtUpstreamKeys
<1>7. CASE Elapse
  BY <1>7, OthersStay DEF Elapse, upstreamVars
<1> QED
  BY <1>1, <1>2, <1>3, <1>4, <1>5, <1>6, <1>7 DEF Move

\* An ID token is refused for want of its key only when the upstream has withdrawn that
\* key, provided that the upstream names its keys.
THEOREM RefusedAreWithdrawn == NamedKeys /\ Spec => []RefusedKeysAreWithdrawn
<1> SUFFICES ASSUME NamedKeys PROVE Spec => []RefusedKeysAreWithdrawn
  OBVIOUS
<1>1. Init => KInv
  <2> SUFFICES ASSUME Init PROVE KInv
    OBVIOUS
  <2>1. /\ \A v \in Visits : visits[v] = Idle
        /\ published = {1} /\ newest = 1 /\ rejected = {}
    BY DEF Init, ClientInit
  <2>2. keys = <<>>
    BY DEF Init, ClientInit
  <2>3. DOMAIN keys = {}
    BY <2>2
  <2>4. CacheNamed
    BY <2>3 DEF CacheNamed
  <2> QED
    BY <2>1, <2>4, GInvInit DEF KInv, KeysInOrder, NoDocYet, DocsTell, RefusedKeysAreWithdrawn,
       Holding, Waiting
<1>2. KInv /\ [Next]_vars => KInv'
  <2> SUFFICES ASSUME KInv, [Next]_vars PROVE KInv'
    OBVIOUS
  <2>1. GInv'
    BY GInvNext DEF KInv
  <2>2. KeysFit'
    <3>1. CASE UNCHANGED vars
      BY <3>1, OthersStay DEF vars
    <3>2. CASE Tick
      BY <3>2, OthersStay DEF Tick, clientVars, upstreamVars
    <3> QED
      BY <3>1, <3>2, MoveKeys, RestartKeys DEF Next
  <2> QED
    BY <2>1, <2>2 DEF KInv, KeysFit
<1>3. KInv => RefusedKeysAreWithdrawn
  BY DEF KInv
<1> QED
  BY <1>1, <1>2, <1>3, PTL DEF Spec
=============================================================================
