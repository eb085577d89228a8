---------------------------- MODULE EndpointProofs ----------------------------
(***************************************************************************)
(* Proofs about the URLs of the provider, for any host names, origins and  *)
(* settings: the origin a party asked at is found again behind any proxy   *)
(* modelled, and so all parties agree on the issuer.                       *)
(***************************************************************************)
EXTENDS Endpoints, TLAPS

----------------------------------------------------------------------------
(* The origin of a request *)

\* A header with one value, or with two.
Once(x) == <<x>>
Twice(x, y) == <<x>> \o <<y>>

\* A header is there, and its first value counts.
Given(S) == \A x, y \in S : \A default :
    /\ Once(x) # None /\ First(Once(x), default) = x
    /\ Twice(x, y) # None /\ First(Twice(x, y), default) = x

\* The first value of a header is read, whether a proxy appended one or not (urls.rs, first).
LEMMA FirstValue == ASSUME NEW S, None \notin Seq(S) PROVE Given(S)
<1> SUFFICES ASSUME NEW x \in S, NEW y \in S, NEW default
             PROVE  /\ Once(x) # None /\ First(Once(x), default) = x
                    /\ Twice(x, y) # None /\ First(Twice(x, y), default) = x
  BY DEF Given
<1>1. <<x>> \in Seq(S) /\ <<x>> \o <<y>> \in Seq(S)
  OBVIOUS
<1>2. Head(<<x>>) = x /\ Head(<<x>> \o <<y>>) = x
  OBVIOUS
<1> QED
  BY <1>1, <1>2 DEF First, Once, Twice

\* The headers of one way to an origin: each is absent or begins with the origin's own value.
Tells(h, origin) ==
    LET port == IF origin.host.port = None THEN DefaultPort[origin.scheme] ELSE origin.host.port
    IN  /\ First(h.proto, "http") = origin.scheme
        /\ \/ h.fhost # None /\ First(h.fhost, h.host) = origin.host
              /\ (origin.host.port = None => First(h.fport, None) \in {None, port})
           \/ h.fhost # None /\ First(h.fhost, h.host) = [origin.host EXCEPT !.port = None]
              /\ First(h.fport, None) = port
           \/ h.fhost = None /\ First(h.fhost, h.host) = origin.host

\* Whatever tells of an origin is taken for it.
LEMMA BaseIsOrigin ==
  ASSUME NEW origin \in Origin, Canonical(origin), NEW h, Tells(h, origin)
  PROVE  RequestBase(h) = origin
<1> DEFINE default == DefaultPort[origin.scheme]
           port == IF origin.host.port = None THEN default ELSE origin.host.port
           host == First(h.fhost, h.host)
           given == First(h.fport, None)
<1>1. /\ origin.scheme \in Scheme /\ origin.host \in Host
      /\ origin = [scheme |-> origin.scheme, host |-> origin.host]
      /\ origin.host = [name |-> origin.host.name, port |-> origin.host.port]
  BY DEF Origin, Host
<1>2. default \in Port /\ default # None /\ origin.host.port # default
  BY <1>1, EndpointsAssumption DEF DefaultPort, Scheme, Port, Canonical
<1>3. First(h.proto, "http") = origin.scheme
  BY DEF Tells
<1>4. RequestBase(h) =
        [scheme |-> origin.scheme,
         host |-> IF h.fhost # None /\ host.port = None /\ given \notin {None, default}
                  THEN [host EXCEPT !.port = given] ELSE host]
  BY <1>3 DEF RequestBase
<1>5. \/ h.fhost # None /\ host = origin.host
         /\ (origin.host.port = None => given \in {None, port})
      \/ h.fhost # None /\ host = [origin.host EXCEPT !.port = None] /\ given = port
      \/ h.fhost = None /\ host = origin.host
  BY DEF Tells
<1> HIDE DEF default, host, given
<1>6. CASE h.fhost # None /\ host = origin.host
           /\ (origin.host.port = None => given \in {None, port})
  <2>1. ~(host.port = None /\ given \notin {None, default})
    BY <1>6
  <2> QED
    BY <1>1, <1>4, <1>6, <2>1
<1>7. CASE h.fhost # None /\ host = [origin.host EXCEPT !.port = None] /\ given = port
  <2>1. host.port = None /\ [host EXCEPT !.port = given] = [origin.host EXCEPT !.port = given]
    BY <1>1, <1>7
  <2>2. CASE origin.host.port = None
    <3>1. host = origin.host /\ given = default
      BY <1>1, <1>7, <2>2
    <3> QED
      BY <1>1, <1>4, <3>1
  <2>3. CASE origin.host.port # None
    <3>1. given = origin.host.port /\ given \notin {None, default}
      BY <1>2, <1>7, <2>3
    <3>2. [host EXCEPT !.port = given] = origin.host
      BY <1>1, <2>1, <3>1
    <3> QED
      BY <1>1, <1>4, <1>7, <2>1, <3>1, <3>2
  <2> QED
    BY <2>2, <2>3
<1>8. CASE h.fhost = None /\ host = origin.host
  BY <1>1, <1>4, <1>8
<1> QED
  BY <1>5, <1>6, <1>7, <1>8

\* Every way to an origin, over any of the proxies, tells of it.
LEMMA ArrivalsTell ==
  ASSUME NEW origin \in Origin, NEW h \in Arrivals(origin)
  PROVE  Tells(h, origin)
<1> DEFINE port == IF origin.host.port = None THEN DefaultPort[origin.scheme]
                   ELSE origin.host.port
           bare == [origin.host EXCEPT !.port = None]
           first == [proto |-> <<origin.scheme>>, fhost |-> <<origin.host>>, fport |-> None,
                     host |-> Inner]
           second == [proto |-> <<origin.scheme>>, fhost |-> <<bare>>, fport |-> <<port>>,
                      host |-> Inner]
           third == [proto |-> <<origin.scheme>>, fhost |-> None, fport |-> <<port>>,
                     host |-> origin.host]
<1>1. /\ origin.scheme \in Scheme /\ origin.host \in Host /\ bare \in Host /\ port \in Port
      /\ "http" \in Scheme /\ Inner \in Host /\ 8080 \in Port
  BY EndpointsAssumption DEF Origin, Host, Port, Scheme, DefaultPort
<1>2. Given(Scheme) /\ Given(Host) /\ Given(Port)
  BY EndpointsAssumption, FirstValue
<1>3. ASSUME NEW default
      PROVE  /\ First(Once(origin.scheme), default) = origin.scheme
             /\ First(Twice(origin.scheme, "http"), default) = origin.scheme
             /\ First(Once(origin.host), default) = origin.host
             /\ First(Twice(origin.host, Inner), default) = origin.host
             /\ First(Once(bare), default) = bare
             /\ First(Twice(bare, Inner), default) = bare
             /\ First(Once(port), default) = port
             /\ First(Twice(port, 8080), default) = port
             /\ First(None, default) = default
  <2> HIDE DEF port, bare
  <2>1. First(None, default) = default
    BY DEF First
  <2>2. /\ First(Once(origin.scheme), default) = origin.scheme
        /\ First(Twice(origin.scheme, "http"), default) = origin.scheme
    BY <1>1, <1>2 DEF Given
  <2>3. /\ First(Once(origin.host), default) = origin.host
        /\ First(Twice(origin.host, Inner), default) = origin.host
    BY <1>1, <1>2 DEF Given
  <2>4. First(Once(bare), default) = bare /\ First(Twice(bare, Inner), default) = bare
    BY <1>1, <1>2 DEF Given
  <2>5. First(Once(port), default) = port /\ First(Twice(port, 8080), default) = port
    BY <1>1, <1>2 DEF Given
  <2> QED
    BY <2>1, <2>2, <2>3, <2>4, <2>5
<1>4. /\ Once(origin.host) # None /\ Twice(origin.host, Inner) # None
      /\ Once(bare) # None /\ Twice(bare, Inner) # None
      /\ Once(port) # None
  <2> HIDE DEF port, bare
  <2> QED
    BY <1>1, <1>2 DEF Given
<1>5. CASE h \in Direct(origin)
  <2>1. /\ origin.scheme = "http"
        /\ h = [proto |-> None, fhost |-> None, fport |-> None, host |-> origin.host]
    BY <1>5 DEF Direct
  <2>2. h.proto = None /\ h.fhost = None /\ h.host = origin.host
    BY <2>1
  <2> QED
    BY <1>3, <2>1, <2>2 DEF Tells
<1>6. CASE h \in Through(origin)
  <2>1. h \in {first, second, third}
    BY <1>6 DEF Through
  <2> HIDE DEF port, bare
  <2>2. CASE h = first
    <3>1. /\ h.proto = Once(origin.scheme) /\ h.fhost = Once(origin.host) /\ h.fport = None
      BY <2>2 DEF Once
    <3> QED
      BY <1>3, <1>4, <3>1 DEF Tells
  <2>3. CASE h = second
    <3>1. h.proto = Once(origin.scheme) /\ h.fhost = Once(bare) /\ h.fport = Once(port)
      BY <2>3 DEF Once
    <3> QED
      BY <1>3, <1>4, <3>1 DEF Tells, port, bare
  <2>4. CASE h = third
    <3>1. h.proto = Once(origin.scheme) /\ h.fhost = None /\ h.host = origin.host
      BY <2>4 DEF Once
    <3> QED
      BY <1>3, <3>1 DEF Tells
  <2> QED
    BY <2>1, <2>2, <2>3, <2>4
<1>7. CASE h \in TwiceThrough(origin)
  <2>1. PICK g \in Through(origin) : h = Again(g)
    BY <1>7 DEF TwiceThrough
  <2>2. g \in {first, second, third}
    BY DEF Through
  <2> HIDE DEF port, bare
  <2>3. CASE g = first
    <3>1. /\ h.proto = Twice(origin.scheme, "http") /\ h.fport = None
          /\ h.fhost = Twice(origin.host, Inner)
      BY <1>4, <2>1, <2>3 DEF Again, Once, Twice
    <3> QED
      BY <1>3, <1>4, <3>1 DEF Tells
  <2>4. CASE g = second
    <3>1. /\ h.proto = Twice(origin.scheme, "http") /\ h.fhost = Twice(bare, Inner)
          /\ h.fport = Twice(port, 8080)
      BY <1>4, <2>1, <2>4 DEF Again, Once, Twice
    <3> QED
      BY <1>3, <1>4, <3>1 DEF Tells, port, bare
  <2>5. CASE g = third
    <3>1. /\ h.proto = Twice(origin.scheme, "http") /\ h.fhost = None
          /\ h.host = origin.host
      BY <1>4, <2>1, <2>5 DEF Again, Once, Twice
    <3> QED
      BY <1>3, <3>1 DEF Tells
  <2> QED
    BY <2>2, <2>3, <2>4, <2>5
<1> QED
  BY <1>5, <1>6, <1>7 DEF Arrivals

\* Whichever way a request takes to an origin, RequestBase finds that origin.
LEMMA ArrivesAtOrigin ==
  ASSUME NEW origin \in Origin, Canonical(origin), NEW h \in Arrivals(origin)
  PROVE  RequestBase(h) = origin
BY ArrivalsTell, BaseIsOrigin

----------------------------------------------------------------------------
(* Documents and tokens *)

\* A parsed URL is a URL that names no default port.
LEMMA Parsed == ASSUME NEW url \in Url PROVE ParseUrl(url) \in Url /\ Canonical(ParseUrl(url))
<1>1. url.scheme \in Scheme /\ url.host \in Host
  BY DEF Url
<1>2. DefaultPort[url.scheme] \in Port /\ DefaultPort[url.scheme] # None
  BY <1>1, EndpointsAssumption DEF DefaultPort, Scheme, Port
<1>3. CASE Canonical(url)
  BY <1>3 DEF ParseUrl
<1>4. CASE ~Canonical(url)
  <2>1. /\ ParseUrl(url) \in Url /\ ParseUrl(url).scheme = url.scheme
        /\ ParseUrl(url).host.port = None
    BY <1>1, <1>4 DEF ParseUrl, Url, Host
  <2> QED
    BY <1>2, <2>1 DEF Canonical
<1> QED
  BY <1>3, <1>4

\* What all runs of the provider keep: the settings are parsed, a document says what the
\* settings say of the origin it was read at, and a token has the issuer that the settings
\* give to the origin it was got at.
EInv ==
    /\ config \in Config
    /\ Canonical(config.issuer) /\ (config.internal # None => Canonical(config.internal))
    /\ \A d \in docs : d.at \in Origins /\ d = [at |-> d.at, doc |-> Resolve(d.at)]
    /\ \A t \in tokens :
         /\ t.by \in docs
         /\ t = [iss |-> IssuerFor(OriginOf(t.by.doc.backend)), by |-> t.by]

\* The URLs of a document.
LEMMA ResolveType ==
  ASSUME config \in Config, Canonical(config.issuer),
         config.internal # None => Canonical(config.internal),
         NEW base \in Origin, Canonical(base)
  PROVE  /\ IssuerFor(base) \in Url
         /\ Resolve(base) \in Doc
         /\ Canonical(Resolve(base).backend)
         /\ OriginOf(Resolve(base).backend) \in Origin
         /\ Canonical(OriginOf(Resolve(base).backend))
<1>1. config.issuer \in Url /\ config.internal \in Url \cup {None}
  BY DEF Config
<1>2. /\ base.scheme \in Scheme /\ base.host \in Host /\ config.issuer.path \in Path
  BY <1>1 DEF Origin, Url
<1>3. At(base, config.issuer.path) \in Url /\ Canonical(At(base, config.issuer.path))
  BY <1>2 DEF At, Url, Canonical
<1>4. IssuerFor(base) \in Url /\ Canonical(IssuerFor(base))
  BY <1>1, <1>3 DEF IssuerFor
<1>5. PICK backend \in Url :
        /\ Resolve(base) = [issuer |-> IssuerFor(base), browser |-> IssuerFor(base),
                            backend |-> backend]
        /\ Canonical(backend)
  BY <1>1, <1>3, <1>4 DEF Resolve
<1>6. Resolve(base) \in Doc /\ Resolve(base).backend = backend
  BY <1>4, <1>5 DEF Doc
<1>7. OriginOf(backend) \in Origin /\ Canonical(OriginOf(backend))
  BY <1>5 DEF OriginOf, Url, Origin, Canonical
<1> QED
  BY <1>4, <1>5, <1>6, <1>7

\* Reading a document at an origin keeps the invariant.
LEMMA DiscoverKeeps ==
  ASSUME EInv, NEW origin \in Origins, Discover(origin), UNCHANGED <<config, tokens>>
  PROVE  EInv'
<1>1. origin \in Origin /\ Canonical(origin)
  BY EndpointsAssumption
<1>2. PICK d : docs' = docs \cup {d} /\ d = [at |-> origin, doc |-> Resolve(origin)]
  <2>1. PICK h \in Arrivals(origin) :
          docs' = docs \cup {[at |-> origin, doc |-> Resolve(RequestBase(h))]}
    BY DEF Discover
  <2> QED
    BY <1>1, <2>1, ArrivesAtOrigin
<1>3. \A base : Resolve(base)' = Resolve(base) /\ IssuerFor(base)' = IssuerFor(base)
  BY DEF Resolve, IssuerFor
<1>4. d.at = origin
  BY <1>2
<1>5. \A e \in docs' : e.at \in Origins /\ e = [at |-> e.at, doc |-> Resolve(e.at)']
  BY <1>2, <1>3, <1>4 DEF EInv
<1>6. \A t \in tokens' :
        t.by \in docs' /\ t = [iss |-> IssuerFor(OriginOf(t.by.doc.backend))', by |-> t.by]
  BY <1>2, <1>3 DEF EInv
<1> QED
  BY <1>5, <1>6 DEF EInv

\* Getting a token at the endpoint of a document keeps the invariant.
LEMMA ObtainKeeps ==
  ASSUME EInv, NEW d \in docs, Obtain(d), UNCHANGED <<config, docs>>
  PROVE  EInv'
<1> DEFINE backend == OriginOf(d.doc.backend)
<1>1. d.at \in Origin /\ Canonical(d.at) /\ d.doc = Resolve(d.at)
  BY EndpointsAssumption DEF EInv
<1>2. backend \in Origin /\ Canonical(backend)
  BY <1>1, ResolveType DEF EInv
<1>3. PICK t : tokens' = tokens \cup {t} /\ t = [iss |-> IssuerFor(backend), by |-> d]
  <2>1. PICK h \in Arrivals(backend) :
          tokens' = tokens \cup {[iss |-> IssuerFor(RequestBase(h)), by |-> d]}
    BY DEF Obtain, OriginOf
  <2> QED
    BY <1>2, <2>1, ArrivesAtOrigin
<1>4. \A base : Resolve(base)' = Resolve(base) /\ IssuerFor(base)' = IssuerFor(base)
  BY DEF Resolve, IssuerFor
<1>5. t.by = d
  BY <1>3
<1>6. \A e \in docs' : e.at \in Origins /\ e = [at |-> e.at, doc |-> Resolve(e.at)']
  BY <1>4 DEF EInv
<1>7. \A u \in tokens' :
        u.by \in docs' /\ u = [iss |-> IssuerFor(OriginOf(u.by.doc.backend))', by |-> u.by]
  BY <1>3, <1>4, <1>5 DEF EInv
<1> QED
  BY <1>6, <1>7 DEF EInv

\* The invariant holds throughout.
LEMMA EndpointInvariance == Spec => []EInv
<1>1. Init => EInv
  <2> SUFFICES ASSUME Init PROVE EInv
    OBVIOUS
  <2>1. PICK issuer \in Typed, internal \in Internals, e \in BOOLEAN, i \in BOOLEAN :
          config = FromMap(issuer, internal, e, i)
    BY DEF Init
  <2>2. issuer \in Url /\ internal \in Url \cup {None} /\ None \notin Url
    BY EndpointsAssumption
  <2>3. /\ config.issuer = ParseUrl(issuer)
        /\ config.internal = IF internal = None THEN None ELSE ParseUrl(internal)
        /\ config \in Config
    BY <2>1, <2>2, Parsed DEF FromMap, Config
  <2> QED
    BY <2>2, <2>3, Parsed DEF EInv, Init
<1>2. EInv /\ [Next]_vars => EInv'
  <2>1. ASSUME EInv, UNCHANGED vars PROVE EInv'
    BY <2>1 DEF EInv, vars, Resolve, IssuerFor
  <2> QED
    BY <2>1, DiscoverKeeps, ObtainKeeps DEF Next
<1> QED
  BY <1>1, <1>2, PTL DEF Spec

\* What a document says, and the issuer of a token.
LEMMA EndpointFacts ==
  ASSUME EInv
  PROVE  /\ \A d \in docs : /\ d.at \in Origin /\ Canonical(d.at)
                            /\ d.doc = Resolve(d.at) /\ Resolve(d.at) \in Doc
         /\ \A t \in tokens : /\ t.by \in docs /\ t.iss \in Url
                              /\ t.iss = IssuerFor(OriginOf(t.by.doc.backend))
<1>1. ASSUME NEW d \in docs
      PROVE  /\ d.at \in Origin /\ Canonical(d.at)
             /\ d.doc = Resolve(d.at)
  BY EndpointsAssumption DEF EInv
<1>2. ASSUME NEW d \in docs
      PROVE  Resolve(d.at) \in Doc /\ IssuerFor(OriginOf(d.doc.backend)) \in Url
  <2>1. /\ Resolve(d.at) \in Doc /\ OriginOf(d.doc.backend) \in Origin
        /\ Canonical(OriginOf(d.doc.backend))
    BY <1>1, ResolveType DEF EInv
  <2> QED
    BY <2>1, ResolveType DEF EInv
<1>3. ASSUME NEW t \in tokens
      PROVE  t.by \in docs /\ t.iss = IssuerFor(OriginOf(t.by.doc.backend))
  BY DEF EInv
<1> QED
  BY <1>1, <1>2, <1>3

----------------------------------------------------------------------------
(* The theorems *)

\* Documents and tokens are made of URLs, whatever the settings and the headers.
THEOREM UrlsTyped == Spec => []TypeOK
<1>1. ASSUME EInv PROVE TypeOK
  <2>1. \A d \in docs : d \in [at : Origin, doc : Doc]
    BY <1>1, EndpointFacts DEF EInv
  <2>2. \A t \in tokens : t \in [iss : Url, by : docs]
    BY <1>1, EndpointFacts DEF EInv
  <2> QED
    BY <1>1, <2>1, <2>2 DEF EInv, TypeOK
<1> QED
  BY <1>1, EndpointInvariance, PTL

\* A party finds the backend endpoints at the origin it asked at, through any of the proxies,
\* unless an INTERNAL_URL leads elsewhere.
THEOREM BackendsReachable == Spec => []BackendIsReachable
<1>1. ASSUME EInv PROVE BackendIsReachable
  <2> SUFFICES ASSUME config.internal = None, NEW d \in docs
               PROVE  /\ Served(d.doc.backend)
                      /\ config.endpointsFromHost => OriginOf(d.doc.backend) = d.at
    BY DEF BackendIsReachable
  <2>1. d.at \in Origin /\ d.doc = Resolve(d.at)
    BY <1>1, EndpointFacts
  <2>2. d.doc.backend = IF config.endpointsFromHost THEN At(d.at, config.issuer.path)
                        ELSE IssuerFor(d.at)
    BY <2>1 DEF Resolve
  <2>3. /\ At(d.at, config.issuer.path).path = config.issuer.path
        /\ OriginOf(At(d.at, config.issuer.path)) = d.at
    BY <2>1 DEF At, OriginOf, Origin
  <2>4. IssuerFor(d.at).path = config.issuer.path
    BY <2>3 DEF IssuerFor
  <2> QED
    BY <2>2, <2>3, <2>4 DEF Served
<1> QED
  BY <1>1, EndpointInvariance, PTL

\* Tokens have the issuer of the document that led to them, or all have one issuer where an
\* INTERNAL_URL leads to the token endpoint; it is ISSUER_URL unless it follows the host.
THEOREM IssuersAgree == Spec => []PartiesAgreeOnIssuer
<1>1. ASSUME EInv PROVE PartiesAgreeOnIssuer
  <2>1. \A base : ~config.issuerFromHost => IssuerFor(base) = config.issuer
    BY DEF IssuerFor
  <2>2. \A base : Resolve(base).issuer = IssuerFor(base)
    BY DEF Resolve
  <2>3. ASSUME NEW t \in tokens, config.internal = None PROVE t.iss = t.by.doc.issuer
    <3> DEFINE base == t.by.at
    <3>1. /\ base \in Origin /\ t.by.doc = Resolve(base)
          /\ t.iss = IssuerFor(OriginOf(t.by.doc.backend))
      BY <1>1, EndpointFacts
    <3>2. t.by.doc.backend = IF config.endpointsFromHost THEN At(base, config.issuer.path)
                             ELSE IssuerFor(base)
      BY <2>3, <3>1 DEF Resolve
    <3>3. t.by.doc.issuer = IssuerFor(base)
      BY <2>2, <3>1
    <3> HIDE DEF base
    <3>4. OriginOf(At(base, config.issuer.path)) = base
      BY <3>1 DEF At, OriginOf, Origin
    <3>5. CASE ~config.issuerFromHost
      BY <2>1, <3>1, <3>3, <3>5
    <3>6. CASE config.issuerFromHost
      BY <3>1, <3>2, <3>3, <3>4, <3>6 DEF IssuerFor
    <3> QED
      BY <3>5, <3>6
  <2>4. ASSUME ~config.issuerFromHost
        PROVE  /\ \A d \in docs : d.doc.issuer = config.issuer
               /\ \A t \in tokens : t.iss = config.issuer
    BY <1>1, <2>1, <2>2, <2>4, EndpointFacts
  <2>5. ASSUME config.internal # None, NEW t \in tokens
        PROVE  t.iss = IssuerFor(OriginOf(config.internal))
    <3>1. t.by.doc = Resolve(t.by.at) /\ t.iss = IssuerFor(OriginOf(t.by.doc.backend))
      BY <1>1, EndpointFacts
    <3>2. Resolve(t.by.at).backend = config.internal
      BY <2>5 DEF Resolve
    <3> QED
      BY <3>1, <3>2
  <2> QED
    BY <2>3, <2>4, <2>5 DEF PartiesAgreeOnIssuer
<1> QED
  BY <1>1, EndpointInvariance, PTL

\* A token got at any host is accepted at every host.
THEOREM TokensTravel == Spec => []TokensWorkAtEveryHost
<1>1. ASSUME EInv PROVE TokensWorkAtEveryHost
  <2>1. \A base : IssuerChecked(IssuerFor(base))
    BY DEF IssuerChecked, IssuerFor, At
  <2> QED
    BY <1>1, <2>1, EndpointFacts DEF TokensWorkAtEveryHost
<1> QED
  BY <1>1, EndpointInvariance, PTL
=============================================================================
