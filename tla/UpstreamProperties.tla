------------------------- MODULE UpstreamProperties -------------------------
(***************************************************************************)
(* What the upstream gate promises, whatever the order of requests,        *)
(* answers, key rotations, failures and restarts.                          *)
(***************************************************************************)
EXTENDS UpstreamGate

\* A browser is let through only for a tester who may pass and who logged in
\* upstream for a login that this browser began with this process: codes carried
\* over from another login, a replayed callback or a cookie of an earlier process
\* let nobody in, even when the upstream ignores PKCE (redeem, verify_id_token,
\* GateKey).
SessionIsOwnLogin ==
    \A b \in Browsers : Session(b) # None =>
        /\ Session(b) \in Admitted
        /\ \E login \in 1 .. Len(started) :
             /\ started[login].browser = b
             /\ started[login].boot = boots
             /\ [login |-> login, sub |-> Session(b)] \in asserted

\* Logins begun in several tabs do not disturb one another: the cookie of a login
\* stays with its browser until that login's own callback is answered, for as long as the
\* browser keeps cookies, LOGIN_TTL (login_cookie_name, callback).
TabsKeepTheirLogin ==
    \A login \in 1 .. Len(started) :
        \/ started[login].answered
        \/ \E c \in loginCookies[started[login].browser] : c.login = login

\* A callback whose cookie opens finds the discovery document cached: it never
\* waits for discovery, and no failure of a concurrent fetch, however late, gets
\* in its way (Upstream::metadata).
CallbackFindsDiscovery ==
    \A b \in Browsers : \A c \in loginCookies[b] : Opens(c) => meta

\* An ID token is refused for want of its key only when the upstream has withdrawn
\* that key, whatever rotations and late JWKS answers did to the cache
\* (Upstream::key); the upstream names its keys.
RefusedKeysAreWithdrawn ==
    \A token \in rejected : token.key \notin published

----------------------------------------------------------------------------
(* The inductive invariant behind SessionIsOwnLogin, TabsKeepTheirLogin and   *)
(* CallbackFindsDiscovery: what a browser or a request holds is traced to a   *)
(* login begun, to its browser and to its process.                            *)

Begun == 1 .. Len(started)

\* No login was begun with a process to come, nor a code issued for a login to come.
HistoryTraced ==
    /\ \A login \in Begun : started[login].boot <= boots
    /\ \A code \in asserted : code.login \in Begun

CookiesTraced ==
    \A b \in Browsers : \A c \in loginCookies[b] :
        /\ c.login \in Begun /\ c.name = CookieName(c.login)
        /\ started[c.login].browser = b /\ started[c.login].boot = c.boot
        /\ c.boot = boots => meta

\* A request that waits at the callback is about a login of its browser with this process;
\* the ID token it holds is the one for its code.
VisitsTraced ==
    \A v \in Visits : visits[v] # Idle /\ visits[v].step # "discover" =>
        /\ visits[v].login \in Begun
        /\ started[visits[v].login].browser = visits[v].browser
        /\ started[visits[v].login].boot = boots
        /\ visits[v].code \in asserted
        /\ visits[v].step = "jwks" => visits[v].token # None
        /\ visits[v].token # None => /\ visits[v].token \in IdToken
                                     /\ visits[v].token.sub = visits[v].code.sub
                                     /\ visits[v].token.nonce = visits[v].code.login

SessionsTraced ==
    \A b \in Browsers : gateCookie[b] # None =>
        /\ gateCookie[b].sub \in Admitted
        /\ \E login \in Begun : /\ started[login].browser = b
                                /\ started[login].boot = gateCookie[b].boot
                                /\ [login |-> login, sub |-> gateCookie[b].sub] \in asserted

GInv ==
    /\ TypeOK
    /\ HistoryTraced
    /\ CookiesTraced
    /\ VisitsTraced
    /\ SessionsTraced
    /\ TabsKeepTheirLogin

----------------------------------------------------------------------------
(* The gate implements GateLifecycle: a browser is in while its gate cookie   *)
(* opens, and the logins of this process count.                               *)

Ours(login) == started[login].boot = boots

\* Is there an ID token on its way to a request, or with one that fetches the JWKS?
Holding(v) == visits[v] # Idle /\ visits[v].token # None

\* Does some callback hold the ID token for this code?
Held(code) == \E v \in Visits : Holding(v) /\ visits[v].code = code

Life == INSTANCE GateLifecycle
    WITH time <- now,
         begun <- {[login |-> n, browser |-> started[n].browser] :
                     n \in {m \in DOMAIN started : Ours(m)}},
         vouched <- {c \in asserted : Ours(c.login)},
         used <- {c \in asserted : Ours(c.login) /\ c \notin codes /\ ~Held(c)},
         inside <- [b \in Browsers |->
                      IF Session(b) = None THEN None
                      ELSE [sub |-> Session(b), until |-> gateCookie[b].exp]]

\* A browser comes in only for an admitted tester whom the upstream vouched for, for a
\* login of that browser with this process, and once for each time the upstream did,
\* however many tabs present the code and whatever they wait for.  It stays in for the
\* length of a session: no other request of it, no failed callback and no other browser
\* puts it out (the gate cookie is set by a callback and by nothing else).
SessionsFollowLifecycle == Life!GateSpec

----------------------------------------------------------------------------
(* Liveness *)

\* Whatever a request waits for, the wait can end: with an answer, with a refusal, or by the
\* HTTP client's timeout (redeem, fetch_jwks, fetch_metadata; `.timeout`).  It follows from the
\* definition of Settles, but ENABLED is out of the provers' reach: the liveness theorem takes
\* it as a hypothesis.
EveryWaitCanEnd == \A v \in Visits : visits[v] # Idle => ENABLED <<Settles(v)>>_vars

\* Every request that waits for the upstream is answered or given up
\* (Upstream::key fetches once; the HTTP client has a timeout).
EveryVisitEnds ==
    \A v \in Visits : visits[v] # Idle ~> visits[v] = Idle

\* An outage is forgotten: once fetches of the discovery document stop failing and
\* visitors stop leaving, and visitors keep coming, it is cached for good
\* (Upstream::metadata: a failure is answered only for DISCOVERY_RETRY).
OutageIsForgotten ==
    /\ <>[][~ \E v \in Visits : DiscoveryFails(v) \/ Abandon(v)]_vars
    /\ WF_vars(SomeoneVisits)
    => <>[]meta

=============================================================================
