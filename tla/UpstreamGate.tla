---------------------------- MODULE UpstreamGate ----------------------------
(***************************************************************************)
(* The gate in front of the login page (upstream/mod.rs, upstream/gate.rs):*)
(* it sends a browser to the upstream, takes it back at the callback, and  *)
(* keeps nothing in the server.  A login in progress and a passed gate are *)
(* cookies sealed with a key that lives as long as the process.            *)
(***************************************************************************)
EXTENDS UpstreamClient

CONSTANTS
    Admitted,       \* the testers whom UPSTREAM_REQUIRE_CLAIM lets in and whose claims fit
    LoginTtl,       \* LOGIN_TTL
    SessionTtl,     \* UPSTREAM_SESSION_TTL
    MaxStarted      \* bound: logins begun

VARIABLES
    loginCookies,   \* the pre-login cookies of each browser
    gateCookie,     \* the gate cookie of each browser
    started         \* history: the logins begun, by their number

vars == <<now, boots, meta, metaErr, keys, visits, published, newest, asserted, codes,
          rejected, loginCookies, gateCookie, started>>
cookieVars == <<loginCookies, gateCookie>>

\* A sealed cookie names the process whose key sealed it.
LoginCookie == [name : Nat, login : Nat, boot : Nat, exp : Nat]
GateCookie == [sub : Testers, boot : Nat, exp : Nat]
Started == [browser : Browsers, boot : Nat, answered : BOOLEAN]

ASSUME GateAssumption ==
    /\ Admitted \subseteq Testers
    /\ LoginTtl \in Nat \ {0} /\ SessionTtl \in Nat /\ MaxStarted \in Nat
    /\ None \notin GateCookie

\* Every variable keeps its type.
TypeOK ==
    /\ ClientTypeOK
    /\ loginCookies \in [Browsers -> SUBSET LoginCookie]
    /\ gateCookie \in [Browsers -> GateCookie \cup {None}]
    /\ started \in Seq(Started)

----------------------------------------------------------------------------
(* Cookies *)

\* GateKey::open.  Mutants: the key outlives the process; a cookie is good at its `exp`.
Opens_AnyKey(cookie) == cookie.exp > now
Opens_AtExp(cookie) == cookie.boot = boots /\ cookie.exp >= now
Opens(cookie) == cookie.boot = boots /\ cookie.exp > now

\* Who passed the gate with browser b (None: nobody).
Session(b) ==
    IF gateCookie[b] # None /\ Opens(gateCookie[b]) THEN gateCookie[b].sub ELSE None

\* Each login has a cookie of its own.  Mutant: one name for all.
CookieName_Shared(login) == 0
CookieName(login) == login

Without(cookies, name) == {c \in cookies : c.name # name}
Named(b, login) == {c \in loginCookies[b] : c.name = CookieName(login)}

----------------------------------------------------------------------------
(* GET /authorize without a session: to the upstream *)

\* May another login be begun?  (a bound of the model, not of the code)
CanStart == Len(started) + Cardinality({v \in Visits : Waiting(v, "discover")}) < MaxStarted

\* The redirect to the upstream and the pre-login cookie that comes with it.
SendUpstream(b) ==
    LET login == Len(started) + 1
        cookie == [name |-> CookieName(login), login |-> login, boot |-> boots,
                   exp |-> now + LoginTtl]
    IN /\ started' = Append(started, [browser |-> b, boot |-> boots, answered |-> FALSE])
       /\ loginCookies' = [loginCookies EXCEPT ![b] = Without(@, cookie.name) \cup {cookie}]
       /\ UNCHANGED gateCookie

StartLogin(b) ==
    /\ Session(b) = None /\ meta /\ CanStart
    /\ SendUpstream(b)
    /\ UNCHANGED <<now, boots, clientVars, visits, upstreamVars, rejected>>

BeginDiscovery(v, b) ==
    /\ Session(b) = None /\ CanStart
    /\ FetchDiscovery(v, b)
    /\ UNCHANGED <<now, boots, clientVars, upstreamVars, rejected, cookieVars, started>>

LoginAfterDiscovery(v) ==
    /\ DiscoveryArrives(v)
    /\ SendUpstream(visits[v].browser)
    /\ End(v)
    /\ UNCHANGED <<now, boots, upstreamVars, rejected>>

\* Without the document, or with one whose authorization endpoint is no URL, the answer is
\* an error page.
NoLoginAfterDiscovery(v) ==
    /\ DiscoveryFails(v) \/ (DiscoveryArrives(v) /\ End(v))
    /\ UNCHANGED <<now, boots, upstreamVars, rejected, cookieVars, started>>

----------------------------------------------------------------------------
(* GET /upstream/callback *)

\* Every answer to a callback that came with the login's cookie clears it.
AnswerLogin(b, login) ==
    /\ loginCookies' = [loginCookies EXCEPT ![b] = Without(@, CookieName(login))]
    /\ started' = [started EXCEPT ![login].answered = TRUE]

\* Mutant of Refuse: whoever is in is put out.
Refuse_PutsOut(b, login) == AnswerLogin(b, login) /\ gateCookie' = [gateCookie EXCEPT ![b] = None]
Refuse(b, login) == AnswerLogin(b, login) /\ UNCHANGED gateCookie

\* The callback of a login comes with the upstream's code.  Codes can be swapped
\* or used again: any that was issued may come.  Metadata must be cached.
Callback(v, b, login, code) ==
    /\ visits[v] = Idle
    /\ \E cookie \in Named(b, login) : Opens(cookie) /\ cookie.login = login
    /\ meta
    /\ visits' = [visits EXCEPT ![v] =
                    [step |-> "exchange", browser |-> b, login |-> login, code |-> code,
                     token |-> None, doc |-> None]]
    /\ UNCHANGED <<now, boots, clientVars, upstreamVars, rejected, cookieVars, started>>

\* The callback comes with an error, without a code, or with a cookie that does
\* not open.
CallbackRefused(b, login) ==
    /\ Named(b, login) # {}
    /\ Refuse(b, login)
    /\ UNCHANGED <<now, boots, clientVars, visits, upstreamVars, rejected>>

\* Does the ID token let the browser in?  Mutant: UPSTREAM_REQUIRE_CLAIM is not asked.
LetsIn_AnyTester(token, login, key) == Verified(token, login, key)
LetsIn(token, login, key) == Verified(token, login, key) /\ token.sub \in Admitted

\* The end of a callback whose ID token is checked with `key`.
Conclude(v, token, key) ==
    LET b == visits[v].browser
        login == visits[v].login
    IN /\ IF LetsIn(token, login, key)
          THEN /\ AnswerLogin(b, login)
               /\ gateCookie' = [gateCookie EXCEPT ![b] =
                    [sub |-> token.sub, boot |-> boots, exp |-> now + SessionTtl]]
          ELSE Refuse(b, login)
       /\ rejected' = IF key = token.key THEN rejected ELSE rejected \cup {token}
       /\ End(v)

\* The answer of the token endpoint: the token is checked at once if its key is cached.
ExchangeAnswered(v) ==
    LET token == visits[v].token IN
    /\ Waiting(v, "exchange") /\ token # None
    /\ IF HasKey(token)
       THEN Conclude(v, token, CachedKey(keys, KidOf(token.key)))
       ELSE /\ visits' = [visits EXCEPT ![v].step = "jwks"]
            /\ UNCHANGED <<rejected, cookieVars, started>>
    /\ UNCHANGED <<now, boots, clientVars, upstreamVars>>

\* The upstream refuses the code, which may use it up, or its answer is lost.
ExchangeFailed(v) ==
    /\ Waiting(v, "exchange")
    /\ codes' \in {codes, codes \ {visits[v].code}}
    /\ Refuse(visits[v].browser, visits[v].login)
    /\ End(v)
    /\ UNCHANGED <<now, boots, clientVars, published, newest, asserted, rejected>>

\* An answer replaces the cache, whatever came in the meantime.  Mutant: without
\* the key in it, the JWKS is fetched again.
JwksArrives_Insists(v) ==
    LET token == visits[v].token IN
    /\ Waiting(v, "jwks") /\ visits[v].doc # None
    /\ \E cache \in ParseJwks(visits[v].doc) :
         /\ keys' = cache
         /\ IF CachedKey(cache, KidOf(token.key)) # None
            THEN Conclude(v, token, CachedKey(cache, KidOf(token.key)))
            ELSE /\ visits' = [visits EXCEPT ![v].doc = None]
                 /\ UNCHANGED <<rejected, cookieVars, started>>
    /\ UNCHANGED <<now, boots, meta, metaErr, upstreamVars>>
JwksArrives(v) ==
    LET token == visits[v].token IN
    /\ Waiting(v, "jwks") /\ visits[v].doc # None
    /\ \E cache \in ParseJwks(visits[v].doc) :
         /\ keys' = cache
         /\ Conclude(v, token, CachedKey(cache, KidOf(token.key)))
    /\ UNCHANGED <<now, boots, meta, metaErr, upstreamVars>>

JwksFails(v) ==
    /\ Waiting(v, "jwks")
    /\ Refuse(visits[v].browser, visits[v].login)
    /\ End(v)
    /\ UNCHANGED <<now, boots, clientVars, upstreamVars, rejected>>

\* The browser closes the connection and the request is dropped where it waits.
Abandon(v) ==
    /\ visits[v] # Idle
    /\ End(v)
    /\ UNCHANGED <<now, boots, clientVars, upstreamVars, rejected, cookieVars, started>>

----------------------------------------------------------------------------
(* The world *)

AtUpstream ==
    /\ \/ \E login \in 1 .. Len(started), sub \in Testers : LogInUpstream(login, sub)
       \/ Rotate
       \/ Retire
    /\ UNCHANGED <<now, boots, clientVars, visits, rejected, cookieVars, started>>

ExchangeServed(v) ==
    /\ ServeExchange(v)
    /\ UNCHANGED <<now, boots, clientVars, rejected, cookieVars, started>>

JwksServed(v) ==
    /\ ServeJwks(v)
    /\ UNCHANGED <<now, boots, clientVars, upstreamVars, rejected, cookieVars, started>>

Tick ==
    /\ now < MaxNow
    /\ now' = now + 1
    /\ UNCHANGED <<boots, clientVars, visits, upstreamVars, rejected, cookieVars, started>>

\* The failure of discovery gets older, as far as that makes a difference.
\* Instants and unix time are two clocks.
Elapse ==
    /\ metaErr # None /\ metaErr < DiscoveryRetry
    /\ metaErr' = metaErr + 1
    /\ UNCHANGED <<now, boots, meta, keys, visits, upstreamVars, rejected, cookieVars, started>>

Restart ==
    /\ ClientRestart
    /\ UNCHANGED <<now, upstreamVars, rejected, cookieVars, started>>

Init ==
    /\ ClientInit
    /\ loginCookies = [b \in Browsers |-> {}]
    /\ gateCookie = [b \in Browsers |-> None]
    /\ started = <<>>

\* A wait ends: the answer comes, or the HTTP client gives up.
Settles(v) ==
    \/ LoginAfterDiscovery(v) \/ NoLoginAfterDiscovery(v)
    \/ ExchangeServed(v) \/ ExchangeAnswered(v) \/ ExchangeFailed(v)
    \/ JwksServed(v) \/ JwksArrives(v) \/ JwksFails(v)

SomeoneVisits == \E v \in Visits, b \in Browsers : BeginDiscovery(v, b)

\* What browsers, the upstream and the HTTP client do.
Move ==
    \/ \E b \in Browsers : StartLogin(b)
    \/ SomeoneVisits
    \/ \E v \in Visits, b \in Browsers, login \in 1 .. Len(started), code \in asserted :
         Callback(v, b, login, code)
    \/ \E b \in Browsers, login \in 1 .. Len(started) : CallbackRefused(b, login)
    \/ \E v \in Visits : Settles(v) \/ Abandon(v)
    \/ AtUpstream
    \/ Elapse

Next == Move \/ Tick \/ Restart

Spec == Init /\ [][Next]_vars

\* The HTTP client gives up on its own after ten seconds, and time passes.
WaitEnds(v) == WF_vars(Settles(v))
WaitsEnd == \A v \in Visits : WaitEnds(v)
FairSpec == Spec /\ WaitsEnd /\ WF_vars(Elapse)

=============================================================================
