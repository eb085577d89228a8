----------------------------- MODULE GatedProofs -----------------------------
(***************************************************************************)
(* Proofs about the provider behind its gate: the composition implements   *)
(* both halves, so what was proved of each holds of it, and what needs     *)
(* both: every token of a browser login names a tester who did log in.     *)
(***************************************************************************)
EXTENDS GatedProvider, LifecycleProofs

\* The gate with what GateProofs and GateRefinement say of it.
P == INSTANCE GateRefinement WITH codes <- upstreamCodes

----------------------------------------------------------------------------
(* G and P are one gate *)

\* They make the same assumptions on their constants.
LEMMA SameAssumptions == P!UpstreamAssumption /\ P!GateAssumption
BY GatedAssumption DEF P!UpstreamAssumption, P!GateAssumption, G!UpstreamAssumption,
   G!GateAssumption, P!GateCookie, G!GateCookie, P!Key, G!Key, P!Visit, G!Visit, P!Code, G!Code,
   P!IdToken, G!IdToken

\* What browsers, the upstream and the HTTP client do.
LEMMA SameMove == G!Move => P!Move
BY Zenon DEF G!Move, G!StartLogin, G!clientVars, G!upstreamVars, G!Session, G!Opens,
   G!CanStart, G!Waiting, G!Idle, G!SendUpstream, G!CookieName, G!Without, G!Callback,
   G!cookieVars, G!Named, G!CallbackRefused, G!Refuse, G!AnswerLogin, G!Abandon, G!End,
   G!AtUpstream, G!LogInUpstream, G!Rotate, G!Retire, G!Elapse, G!Settles,
   G!LoginAfterDiscovery, G!DiscoveryArrives, G!NoLoginAfterDiscovery, G!DiscoveryFails,
   G!MetaAfterFailure, G!ExchangeServed, G!ServeExchange, G!ExchangeAnswered, G!KidOf,
   G!CachedKey, G!HasKey, G!Redeemable, G!TokenFor, G!Conclude, G!LetsIn, G!Verified,
   G!ExchangeFailed, G!JwksArrives, G!ParseJwks, G!JwksFails, G!JwksServed, G!ServeJwks,
   G!SomeoneVisits, G!BeginDiscovery, G!FetchDiscovery, G!Paused, G!Cardinality, P!Move,
   P!StartLogin, P!clientVars, P!upstreamVars, P!Session, P!Opens, P!CanStart, P!Waiting,
   P!Idle, P!SendUpstream, P!CookieName, P!Without, P!Callback, P!cookieVars, P!Named,
   P!CallbackRefused, P!Refuse, P!AnswerLogin, P!Abandon, P!End, P!AtUpstream,
   P!LogInUpstream, P!Rotate, P!Retire, P!Elapse, P!Settles, P!LoginAfterDiscovery,
   P!DiscoveryArrives, P!NoLoginAfterDiscovery, P!DiscoveryFails, P!MetaAfterFailure,
   P!ExchangeServed, P!ServeExchange, P!ExchangeAnswered, P!KidOf, P!CachedKey, P!HasKey,
   P!Redeemable, P!TokenFor, P!Conclude, P!LetsIn, P!Verified, P!ExchangeFailed,
   P!JwksArrives, P!ParseJwks, P!JwksFails, P!JwksServed, P!ServeJwks, P!SomeoneVisits,
   P!BeginDiscovery, P!FetchDiscovery, P!Paused, P!Cardinality

\* Both gates start alike.
LEMMA SameStart == GatedInit => P!Init
BY DEF GatedInit, G!Init, P!Init, G!ClientInit, P!ClientInit, G!Idle, P!Idle

\* The clock ticks for both alike.
LEMMA SameTick == G!Tick => P!Tick
BY DEF G!Tick, P!Tick, G!clientVars, P!clientVars, G!upstreamVars, P!upstreamVars,
   G!cookieVars, P!cookieVars

\* A restart is the same for both.
LEMMA SameRestart == G!Restart => P!Restart
BY DEF G!Restart, P!Restart, G!ClientRestart, P!ClientRestart, G!Idle, P!Idle,
   G!upstreamVars, P!upstreamVars, G!cookieVars, P!cookieVars

----------------------------------------------------------------------------
(* Each half steps or stands still *)

\* No request moves the clock or ends the process.
LEMMA LogInInTime == ASSUME NEW upstream, LogIn(upstream) PROVE UNCHANGED <<now, boots>>
BY DEF LogIn, GetAuthorize, PostAuthorize, PostAsUpstream, IssueCode, worldVars

\* No request served leaves the tick or the process it came in.
LEMMA ServeInTime == ASSUME Serve PROVE UNCHANGED <<now, boots>>
<1>1. CASE Grant
  <2>1. ASSUME NEW e, NEW client, NEW secret, NEW uri, NEW verifier,
               \/ RedeemCode(e, client, secret, uri, verifier)
               \/ WasteCode(e, client, secret, uri, verifier)
               \/ Rotate(e, client, secret) \/ WasteRefresh(e, client, secret)
               \/ ClientCredentials(client, secret)
        PROVE  UNCHANGED <<now, boots>>
    BY <2>1 DEF RedeemCode, WasteCode, Rotate, WasteRefresh, ClientCredentials, worldVars
  <2>2. ASSUME NEW client, NEW secret, NEW username, NEW offline, NEW openid,
               Password(client, secret, username, offline, openid)
        PROVE  UNCHANGED <<now, boots>>
    BY <2>2 DEF Password, worldVars
  <2> QED
    BY <1>1, <2>1, <2>2 DEF Grant
<1>2. CASE End \/ Admin
  BY <1>2 DEF End, Admin, RevokeRefresh, RevokeJwt, EndSession, PutSubject, DeleteSubject,
     EndAdminSession, worldVars
<1>3. CASE (\E uris \in SUBSET Uris, public \in BOOLEAN : Register(uris, public)) \/ Sweep
  BY <1>3 DEF Register, Sweep, worldVars
<1> QED
  BY <1>1, <1>2, <1>3 DEF Serve

\* No step at the gate moves the clock or ends the process, and vouchers stay.
LEMMA MoveInTime == ASSUME P!Move PROVE UNCHANGED <<now, boots>> /\ asserted \subseteq asserted'
<1>1. CASE \/ \E b \in Browsers : P!StartLogin(b)
           \/ P!SomeoneVisits
           \/ \E v \in Visits, b \in Browsers, n \in 1 .. Len(started), code \in asserted :
                P!Callback(v, b, n, code)
           \/ \E b \in Browsers, n \in 1 .. Len(started) : P!CallbackRefused(b, n)
  BY <1>1 DEF P!StartLogin, P!SomeoneVisits, P!BeginDiscovery, P!Callback, P!CallbackRefused,
     P!upstreamVars
<1>2. CASE \E v \in Visits : P!Settles(v) \/ P!Abandon(v)
  BY <1>2 DEF P!Settles, P!Abandon, P!LoginAfterDiscovery, P!NoLoginAfterDiscovery,
     P!ExchangeServed, P!ServeExchange, P!ExchangeAnswered, P!ExchangeFailed, P!JwksServed,
     P!JwksArrives, P!JwksFails, P!upstreamVars
<1>3. CASE P!AtUpstream \/ P!Elapse
  BY <1>3 DEF P!AtUpstream, P!Elapse, P!LogInUpstream, P!Rotate, P!Retire, P!upstreamVars
<1> QED
  BY <1>1, <1>2, <1>3 DEF P!Move

\* The gate in a step of the whole.
LEMMA GateStep ==
  ASSUME [GatedNext]_gatedVars
  PROVE  [G!Next]_(G!vars) /\ [P!Next]_(P!vars) /\ asserted \subseteq asserted'
<1>1. CASE UNCHANGED gateVars /\ UNCHANGED <<now, boots>>
  BY <1>1 DEF gateVars, G!vars, P!vars
<1>2. CASE \E b \in Browsers : GatedLogIn(b)
  BY <1>1, <1>2, LogInInTime DEF GatedLogIn
<1>3. CASE Serve /\ UNCHANGED gateVars
  BY <1>1, <1>3, ServeInTime
<1>4. CASE G!Move
  BY <1>4, SameMove, MoveInTime DEF G!Next, P!Next
<1>5. CASE GatedTick \/ GatedRestart
  <2>1. G!Tick \/ G!Restart
    BY <1>5 DEF GatedTick, GatedRestart
  <2>2. P!Tick \/ P!Restart
    BY <2>1, SameTick, SameRestart
  <2> QED
    BY <2>1, <2>2 DEF G!Next, P!Next, P!Tick, P!Restart, P!upstreamVars
<1>6. CASE UNCHANGED gatedVars
  BY <1>1, <1>6 DEF gatedVars
<1> QED
  BY <1>2, <1>3, <1>4, <1>5, <1>6 DEF GatedNext

\* Who passed the gate with a browser is admitted and was vouched for.
LEMMA SessionVouched ==
  ASSUME P!GInv, NEW b \in Browsers, G!Session(b) # None
  PROVE  /\ G!Session(b) \in Admitted /\ G!Session(b) \in Testers
         /\ Vouched(b, G!Session(b))
         /\ \E code \in asserted : code.sub = G!Session(b)
<1>1. /\ gateCookie[b] # None /\ gateCookie[b].boot = boots
      /\ G!Session(b) = gateCookie[b].sub
  BY DEF G!Session, G!Opens
<1>2. PICK n \in P!Begun : /\ started[n].browser = b
                           /\ started[n].boot = gateCookie[b].boot
                           /\ [login |-> n, sub |-> gateCookie[b].sub] \in asserted
  BY <1>1 DEF P!GInv, P!SessionsTraced
<1>3. gateCookie[b].sub \in Admitted /\ Admitted \subseteq Testers
  BY <1>1, GatedAssumption DEF P!GInv, P!SessionsTraced
<1> QED
  BY <1>1, <1>2, <1>3 DEF Vouched, P!Begun

\* The provider in a step of the whole.
LEMMA ProviderStep == ASSUME P!GInv, [GatedNext]_gatedVars PROVE [Next]_vars
<1>1. CASE \E b \in Browsers : GatedLogIn(b)
  BY <1>1, SessionVouched, GatedAssumption DEF GatedLogIn, Next, GateSessions
<1>2. CASE Serve /\ UNCHANGED gateVars
  BY <1>2 DEF Next
<1>3. CASE G!Move /\ UNCHANGED providerVars
  BY <1>3, SameMove, MoveInTime DEF providerVars, storeVars, vars
<1>4. CASE GatedTick \/ GatedRestart
  BY <1>4 DEF GatedTick, GatedRestart, Next
<1>5. CASE UNCHANGED gatedVars
  BY <1>5 DEF gatedVars, providerVars, storeVars, vars
<1> QED
  BY <1>1, <1>2, <1>3, <1>4, <1>5 DEF GatedNext

\* The invariant of the gate holds behind which the provider serves.
LEMMA GateInvariance == GatedSpec => []P!GInv
<1>1. GatedInit => P!GInv
  BY SameStart, P!GInvInit, SameAssumptions
<1>2. P!GInv /\ [GatedNext]_gatedVars => P!GInv'
  BY GateStep, P!GInvNext, SameAssumptions
<1> QED
  BY <1>1, <1>2, PTL DEF GatedSpec

\* The provider behind its gate is a provider, and its gate is a gate: whatever else goes
\* on, each half does what it does by itself.
THEOREM Composition == GatedSpec => HalvesKept
<1>1. GatedInit => Init /\ G!Init
  BY DEF GatedInit
<1>2. P!GInv /\ [GatedNext]_gatedVars => [Next]_vars /\ [G!Next]_(G!vars)
  BY ProviderStep, GateStep
<1> QED
  BY <1>1, <1>2, GateInvariance, PTL DEF GatedSpec, HalvesKept, Spec, G!Spec

\* Every variable keeps its type, on both sides of the gate.
THEOREM GatedTyped == GatedSpec => []GatedTypeOK
<1>1. P!GInv => G!TypeOK
  BY DEF P!GInv, P!TypeOK, G!TypeOK, P!ClientTypeOK, G!ClientTypeOK, P!Visit, G!Visit, P!Idle,
     G!Idle, P!Code, G!Code, P!IdToken, G!IdToken, P!Key, G!Key, P!LoginCookie, G!LoginCookie,
     P!GateCookie, G!GateCookie, P!Started, G!Started
<1>2. GatedTypeOK <=> TypeOK /\ G!TypeOK
  BY DEF GatedTypeOK
<1> QED
  BY <1>1, <1>2, Composition, TypeCorrect, GateInvariance, PTL DEF HalvesKept

\* In front of the provider too, the gate implements GateLifecycle.
THEOREM GateKeepsItsPromise == GatedSpec => P!SessionsFollowLifecycle
<1>1. GatedInit => P!Init
  BY SameStart
<1>2. [GatedNext]_gatedVars => [P!Next]_(P!vars)
  BY GateStep
<1>3. GatedSpec => P!Spec
  BY <1>1, <1>2, PTL DEF GatedSpec, P!Spec
<1> QED
  BY <1>3, SameAssumptions, P!GateImplementsLifecycle, PTL

\* Behind its gate too, the provider implements LoginLifecycle, a logout ends its login and
\* no other, a token lives as long as its login asked, and the sweeper goes unnoticed.
THEOREM ProviderKeepsItsPromise ==
  GatedSpec => /\ LoginsFollowLifecycle /\ LoginsEndApart /\ SweeperIsInvisible
               /\ []LogoutEndsLogin /\ []TokensLiveAsAgreed
<1> QED
  BY Composition, ProviderImplementsLifecycle, LoginsAreApart, SweeperUnseen, LogoutIsFinal,
     LifetimeHolds, PTL
  DEF HalvesKept

----------------------------------------------------------------------------
(* Who logs in *)

\* The login form makes a login of the tester behind the browser.
LEMMA FormMakes ==
  ASSUME NEW upstream, LogIn(upstream), NEW l \in logins' \ logins
  PROVE  l.upstream = upstream
<1>1. ASSUME NEW req, GetAuthorize(req, upstream) PROVE FALSE
  BY <1>1 DEF GetAuthorize
<1>2. ASSUME NEW req, NEW claims, NEW expiresIn, IssueCode(req, claims, expiresIn, upstream)
      PROVE  l.upstream = upstream
  BY <1>2 DEF IssueCode, LoginOf
<1> QED
  BY <1>1, <1>2 DEF LogIn, PostAuthorize, PostAsUpstream

\* A login made at /token has no tester; its client is one the operator gave a secret.
LEMMA GrantMakes ==
  ASSUME Serve, NEW l \in logins' \ logins
  PROVE  /\ l.upstream = None
         /\ \E c \in ConfiguredClients : c.id = l.client /\ c.secret # None
<1>1. ASSUME NEW e, NEW client, NEW secret, NEW uri, NEW verifier,
             \/ RedeemCode(e, client, secret, uri, verifier)
             \/ WasteCode(e, client, secret, uri, verifier)
             \/ Rotate(e, client, secret) \/ WasteRefresh(e, client, secret)
             \/ ClientCredentials(client, secret)
      PROVE  FALSE
  BY <1>1 DEF RedeemCode, WasteCode, Rotate, WasteRefresh, ClientCredentials
<1>2. ASSUME NEW client, NEW secret, NEW username, NEW offline, NEW openid,
             Password(client, secret, username, offline, openid)
      PROVE  /\ l.upstream = None
             /\ \E c \in ConfiguredClients : c.id = l.client /\ c.secret # None
  <2>1. l.upstream = None /\ l.client = client
    BY <1>2 DEF Password
  <2>2. \E c \in ConfiguredClients : c.id = client /\ c.secret # None
    BY <1>2, GatedAssumption DEF Password, Trusted
  <2> QED
    BY <2>1, <2>2
<1>3. CASE Grant
  BY <1>1, <1>2, <1>3 DEF Grant
<1>4. CASE End \/ Admin
  BY <1>4 DEF End, Admin, RevokeRefresh, RevokeJwt, EndSession, PutSubject, DeleteSubject,
     EndAdminSession
<1>5. CASE (\E uris \in SUBSET Uris, public \in BOOLEAN : Register(uris, public)) \/ Sweep
  BY <1>5 DEF Register, Sweep
<1> QED
  BY <1>3, <1>4, <1>5 DEF Serve

\* No step but a login form makes a login, or else a grant of a trusted client does.
LEMMA NewLogins ==
  ASSUME [GatedNext]_gatedVars, NEW l \in logins' \ logins
  PROVE  \/ \E b \in Browsers : GatedLogIn(b)
         \/ /\ l.upstream = None
            /\ \E c \in ConfiguredClients : c.id = l.client /\ c.secret # None
<1>1. CASE Serve
  BY <1>1, GrantMakes
<1>2. CASE (G!Move /\ UNCHANGED providerVars) \/ UNCHANGED gatedVars
  BY <1>2 DEF providerVars, gatedVars
<1>3. CASE GatedTick \/ GatedRestart
  BY <1>3 DEF GatedTick, GatedRestart, Tick, Restart
<1> QED
  BY <1>1, <1>2, <1>3 DEF GatedNext

\* A browser whose form makes a login was let in for the tester of that login: an admitted
\* one, for whom the upstream vouched in this very browser.
LEMMA FormIsVouched ==
  ASSUME P!GInv, NEW b \in Browsers, GatedLogIn(b), NEW l \in logins' \ logins
  PROVE  /\ l.upstream # None /\ l.upstream \in Admitted
         /\ Vouched(b, l.upstream)
         /\ \E code \in asserted : code.sub = l.upstream
<1>1. l.upstream = G!Session(b) /\ G!Session(b) # None
  BY FormMakes DEF GatedLogIn
<1> QED
  BY <1>1, SessionVouched

\* Whoever logs in behind the gate with a browser is an admitted tester whom the upstream
\* vouched for in that very browser since the process started.
THEOREM GateIsPassed == GatedSpec => LoginsPassTheGate
<1> DEFINE Passed(l) ==
             IF l.upstream = None
             THEN \E c \in ConfiguredClients : c.id = l.client /\ c.secret # None
             ELSE /\ l.upstream \in Admitted
                  /\ \E b \in Browsers : GatedLogIn(b)
                  /\ \A b \in Browsers : GatedLogIn(b) => Vouched(b, l.upstream)
<1>1. P!GInv /\ [GatedNext]_gatedVars => [\A l \in logins' \ logins : Passed(l)]_gatedVars
  <2> SUFFICES ASSUME P!GInv, [GatedNext]_gatedVars, NEW l \in logins' \ logins
               PROVE  Passed(l)
    OBVIOUS
  <2>1. CASE \E b \in Browsers : GatedLogIn(b)
    <3>1. l.upstream # None /\ l.upstream \in Admitted
      BY <2>1, FormIsVouched
    <3>2. \A b \in Browsers : GatedLogIn(b) => Vouched(b, l.upstream)
      BY FormIsVouched
    <3> QED
      BY <2>1, <3>1, <3>2
  <2>2. CASE ~ \E b \in Browsers : GatedLogIn(b)
    BY <2>2, NewLogins
  <2> QED
    BY <2>1, <2>2
<1> QED
  BY <1>1, GateInvariance, PTL DEF GatedSpec, LoginsPassTheGate

\* Every login with a tester is of an admitted one who logged in upstream.
LoginsVouched ==
    \A l \in logins : l.upstream # None =>
        l.upstream \in Admitted /\ \E code \in asserted : code.sub = l.upstream

\* Every token of a browser login that names a tester names an admitted one who did log in
\* upstream, where the operator asked for the tester in a claim of their own (not `sid`).
THEOREM TestersAreNamed == GatedSpec => []TokensNameTheirTester
<1>1. GatedInit => LoginsVouched
  BY DEF GatedInit, Init, StoreInit, LoginsVouched
<1>2. P!GInv /\ LoginsVouched /\ [GatedNext]_gatedVars => LoginsVouched'
  <2> SUFFICES ASSUME P!GInv, LoginsVouched, [GatedNext]_gatedVars, NEW l \in logins',
                      l.upstream # None
               PROVE  l.upstream \in Admitted /\ \E code \in asserted' : code.sub = l.upstream
    BY DEF LoginsVouched
  <2>1. asserted \subseteq asserted'
    BY GateStep
  <2>2. CASE l \in logins
    BY <2>1, <2>2 DEF LoginsVouched
  <2>3. CASE l \notin logins
    BY <2>1, <2>3, NewLogins, FormIsVouched
  <2> QED
    BY <2>2, <2>3
<1>3. LInv /\ LoginsVouched => TokensNameTheirTester
  <2> SUFFICES ASSUME LInv, LoginsVouched, UpstreamClaim \notin {None, "sid"}, NEW t \in jwts,
                      NEW l \in logins, l.sid = t.claims["sid"], l.upstream # None
               PROVE  /\ t.claims[UpstreamClaim] \in Admitted
                      /\ \E code \in asserted : code.sub = t.claims[UpstreamClaim]
    BY DEF TokensNameTheirTester
  <2>1. l.sid # DefaultClaims["sid"]
    BY IssuerAssumption DEF LInv, IInv, TypeOK, Login
  <2>2. PICK m \in logins : /\ m.sid = t.claims["sid"]
                            /\ m.upstream # None => t.claims[UpstreamClaim] = m.upstream
    BY <2>1 DEF LInv, TokenMatchesLogin
  <2>3. m = l
    BY <2>2 DEF LInv, SidsOfLogins
  <2> QED
    BY <2>2, <2>3 DEF LoginsVouched
<1>4. Spec => []LInv
  BY LoginInvariance
<1> QED
  BY <1>1, <1>2, <1>3, <1>4, Composition, GateInvariance, PTL DEF GatedSpec, HalvesKept
=============================================================================
