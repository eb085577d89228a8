------------------------------ MODULE Endpoints ------------------------------
(***************************************************************************)
(* The URLs of the provider (urls.rs, discovery.rs, config.rs): relying    *)
(* parties reach it at several origins, directly or through proxies, read  *)
(* its discovery document there and get tokens at the endpoints they find; *)
(* the issuer in all of this must fit together.                            *)
(***************************************************************************)
EXTENDS Integers, Sequences

CONSTANTS
    Names,      \* host names
    Inner,      \* the address a proxy sends requests on to: [name, port]
    Origins,    \* where the provider can be reached: [scheme, host]
    Typed,      \* the URLs an operator may give: [scheme, host, path]
    Internals,  \* the INTERNAL_URLs an operator may give, or None
    None

VARIABLES
    config,     \* the settings of the process
    docs,       \* the discovery documents read: at which origin, and what it says
    tokens      \* the tokens got, with the document that showed the way

vars == <<config, docs, tokens>>

Scheme == {"http", "https"}
Port == {80, 443, 8080}
DefaultPort == [http |-> 80, https |-> 443]
Host == [name : Names, port : Port \cup {None}]
Origin == [scheme : Scheme, host : Host]
Path == {"", "/oidc"}
Url == [scheme : Scheme, host : Host, path : Path]
Doc == [issuer : Url, browser : Url, backend : Url]

\* Browsers and HTTP clients leave the default port of a URL out.
Canonical(url) == url.host.port # DefaultPort[url.scheme]

ASSUME EndpointsAssumption ==
    /\ Inner \in Host /\ Typed \subseteq Url /\ Internals \subseteq Url \cup {None}
    /\ Origins \subseteq Origin /\ \A origin \in Origins : Canonical(origin)
    /\ None \notin Port /\ None \notin Url
    /\ None \notin Seq(Scheme) \cup Seq(Host) \cup Seq(Port)

----------------------------------------------------------------------------
(* Settings (config.rs).  A parsed URL has no trailing slash and does not name *)
(* the default port.                                                           *)

ParseUrl(url) == IF Canonical(url) THEN url ELSE [url EXCEPT !.host.port = None]

Config == [issuer : Url, internal : Url \cup {None},
           endpointsFromHost : BOOLEAN, issuerFromHost : BOOLEAN]

FromMap(issuer, internal, endpointsFromHost, issuerFromHost) ==
    [issuer |-> ParseUrl(issuer),
     internal |-> IF internal = None THEN None ELSE ParseUrl(internal),
     endpointsFromHost |-> endpointsFromHost, issuerFromHost |-> issuerFromHost]

----------------------------------------------------------------------------
(* The headers a request to an origin arrives with: a list of values, or None. *)
(* A proxy tells of the origin's port in X-Forwarded-Host, in X-Forwarded-Port *)
(* next to it, or by leaving Host alone.                                       *)

Through(origin) ==
    LET port == IF origin.host.port = None THEN DefaultPort[origin.scheme] ELSE origin.host.port
        bare == [origin.host EXCEPT !.port = None]
    IN  {[proto |-> <<origin.scheme>>, fhost |-> <<origin.host>>, fport |-> None, host |-> Inner],
         [proto |-> <<origin.scheme>>, fhost |-> <<bare>>, fport |-> <<port>>, host |-> Inner],
         [proto |-> <<origin.scheme>>, fhost |-> None, fport |-> <<port>>, host |-> origin.host]}

\* A second proxy, spoken to over HTTP at Inner, appends its own values.
Again(h) == [h EXCEPT !.proto = @ \o <<"http">>,
                      !.fhost = IF @ = None THEN None ELSE @ \o <<Inner>>,
                      !.fport = IF @ = None THEN None ELSE @ \o <<8080>>]
TwiceThrough(origin) == {Again(h) : h \in Through(origin)}

Direct(origin) ==
    IF origin.scheme = "http"
    THEN {[proto |-> None, fhost |-> None, fport |-> None, host |-> origin.host]} ELSE {}

Arrivals(origin) == Direct(origin) \cup Through(origin) \cup TwiceThrough(origin)

----------------------------------------------------------------------------
(* RequestBase: the first value of each header counts. *)

First(values, default) == IF values = None THEN default ELSE Head(values)

\* Mutant: the last proxy counts.
RequestBase_Last(h) ==
    LET last(values, default) == IF values = None THEN default ELSE values[Len(values)]
    IN  [scheme |-> last(h.proto, "http"), host |-> last(h.fhost, h.host)]

\* X-Forwarded-Port completes an X-Forwarded-Host that has no port.
RequestBase(h) ==
    LET scheme == First(h.proto, "http")
        host == First(h.fhost, h.host)
        port == First(h.fport, None)
    IN  [scheme |-> scheme,
         host |-> IF h.fhost # None /\ host.port = None /\ port \notin {None, DefaultPort[scheme]}
                  THEN [host EXCEPT !.port = port] ELSE host]

At(base, path) == [scheme |-> base.scheme, host |-> base.host, path |-> path]

\* Mutant of IssuerFor: ISSUER_URL's path is lost.
IssuerFor_Bare(base) == IF config.issuerFromHost THEN At(base, "") ELSE config.issuer
IssuerFor(base) ==
    IF config.issuerFromHost THEN At(base, config.issuer.path) ELSE config.issuer

\* Mutants of Resolve: there is no fallback for INTERNAL_URL; the issuer is always ISSUER_URL.
Resolve_Unset(base) ==
    [issuer |-> IssuerFor(base), browser |-> IssuerFor(base), backend |-> config.internal]
Resolve_Public(base) ==
    [issuer |-> config.issuer, browser |-> config.issuer,
     backend |-> IF config.internal # None THEN config.internal
                 ELSE IF config.endpointsFromHost THEN At(base, config.issuer.path)
                 ELSE config.issuer]

\* Endpoints::resolve: where browsers go, and where backends go.
Resolve(base) ==
    LET public == IssuerFor(base)
    IN  [issuer |-> public, browser |-> public,
         backend |-> IF config.internal # None THEN config.internal
                     ELSE IF config.endpointsFromHost THEN At(base, config.issuer.path)
                     ELSE public]

\* The router nests its routes at ISSUER_URL's path and never looks at the host.
Served(url) == url.path = config.issuer.path

\* AppState::issuer_check, verify_inner.  Mutant: always to the letter.
IssuerChecked_Exact(iss) == iss = config.issuer
IssuerChecked(iss) ==
    IF config.issuerFromHost THEN iss.path = config.issuer.path ELSE iss = config.issuer

----------------------------------------------------------------------------
Init ==
    /\ \E issuer \in Typed, internal \in Internals, e \in BOOLEAN, i \in BOOLEAN :
         config = FromMap(issuer, internal, e, i)
    /\ docs = {} /\ tokens = {}

\* GET /.well-known/openid-configuration at an origin.
Discover(origin) ==
    \E h \in Arrivals(origin) :
        docs' = docs \cup {[at |-> origin, doc |-> Resolve(RequestBase(h))]}

\* POST to the token endpoint of a document.
Obtain(d) ==
    \E h \in Arrivals([scheme |-> d.doc.backend.scheme, host |-> d.doc.backend.host]) :
        /\ Served(d.doc.backend)
        /\ tokens' = tokens \cup {[iss |-> IssuerFor(RequestBase(h)), by |-> d]}

Next ==
    \/ \E origin \in Origins : Discover(origin) /\ UNCHANGED <<config, tokens>>
    \/ \E d \in docs : Obtain(d) /\ UNCHANGED <<config, docs>>

Spec == Init /\ [][Next]_vars

----------------------------------------------------------------------------
(* Properties *)

OriginOf(url) == [scheme |-> url.scheme, host |-> url.host]

\* Every variable keeps its type.
TypeOK ==
    /\ config \in Config
    /\ docs \subseteq [at : Origin, doc : Doc]
    /\ tokens \subseteq [iss : Url, by : docs]

\* With none, one or two proxies in between, each telling of the origin in one of the manners
\* of Through, a party finds the backend endpoints where it asked, at a path the router serves
\* (RequestBase, Endpoints::resolve).  An INTERNAL_URL leads where the operator wants.
BackendIsReachable ==
    config.internal = None => \A d \in docs :
        /\ Served(d.doc.backend)
        /\ config.endpointsFromHost => OriginOf(d.doc.backend) = d.at

\* All parties agree on the issuer, wherever they asked: it is ISSUER_URL.  If it follows
\* the host, a token has the issuer of the document that led to it; where an INTERNAL_URL
\* leads every backend to one host, all tokens have one issuer (issuer_for at the token
\* endpoint and in discovery).
PartiesAgreeOnIssuer ==
    /\ ~config.issuerFromHost =>
         /\ \A d \in docs : d.doc.issuer = config.issuer
         /\ \A t \in tokens : t.iss = config.issuer
    /\ config.internal = None => \A t \in tokens : t.iss = t.by.doc.issuer
    /\ config.internal # None => \A t, u \in tokens : t.iss = u.iss

\* A token got at any host is accepted at every host (issuer_check).
TokensWorkAtEveryHost == \A t \in tokens : IssuerChecked(t.iss)

\* "The path component is always taken from `ISSUER_URL`" (design, "Public vs. internal").
PathIsIssuers == \A d \in docs : d.doc.backend.path = config.issuer.path
=============================================================================
