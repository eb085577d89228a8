----------------------------- MODULE MCEndpoints -----------------------------
(***************************************************************************)
(* A public host, a service name inside the cluster, the settings an       *)
(* operator may choose for them, and the ways requests take, for TLC.      *)
(***************************************************************************)
EXTENDS Endpoints

MCHost(name, port) == [name |-> name, port |-> port]
MCUrl(scheme, name, port, path) ==
    [scheme |-> scheme, host |-> MCHost(name, port), path |-> path]

MCInner == MCHost("svc", 8080)
\* Behind TLS at the default port, forwarded to a port of its own, and inside.
MCOrigins == {[scheme |-> "https", host |-> MCHost("public", None)],
              [scheme |-> "https", host |-> MCHost("public", 8080)],
              [scheme |-> "http", host |-> MCInner]}
\* With and without a path, and with the default port spelled out.
MCTyped == {MCUrl("https", "public", 443, "/oidc"), MCUrl("https", "public", None, "")}
MCInternals == {None, MCUrl("http", "svc", 8080, "/oidc")}
\* INTERNAL_URL without the path.
MCBareInternal == {MCUrl("http", "svc", 8080, "")}
=============================================================================
