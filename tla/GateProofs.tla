----------------------------- MODULE GateProofs -----------------------------
(***************************************************************************)
(* Proofs about the upstream gate, for every value of the constants.       *)
(***************************************************************************)
EXTENDS UpstreamProperties, TLAPS

----------------------------------------------------------------------------
(* What the parts of a step do to the history and the cookies *)

\* The history only grows: what was begun keeps its browser and its process.
Grows ==
    /\ Begun \subseteq 1 .. Len(started')
    /\ \A n \in Begun : /\ started'[n].browser = started[n].browser
                        /\ started'[n].boot = started[n].boot

\* An entry of the history is well formed.
LEMMA EntryType ==
  ASSUME started \in Seq(Started), NEW n \in Begun
  PROVE  /\ started[n] \in Started
         /\ started[n].browser \in Browsers /\ started[n].boot \in Nat
         /\ started[n].answered \in BOOLEAN
<1>1. started[n] \in Started
  BY DEF Begun
<1> QED
  BY <1>1 DEF Started

\* The redirect upstream begins a login, with a cookie of its own.
LEMMA SendKeeps ==
  ASSUME GInv, NEW b \in Browsers, SendUpstream(b), boots' = boots, asserted' = asserted, meta'
  PROVE  /\ loginCookies' \in [Browsers -> SUBSET LoginCookie]
         /\ started' \in Seq(Started)
         /\ Grows
         /\ HistoryTraced' /\ CookiesTraced' /\ SessionsTraced' /\ TabsKeepTheirLogin'
<1> DEFINE login == Len(started) + 1
           cookie == [name |-> login, login |-> login, boot |-> boots, exp |-> now + LoginTtl]
           entry == [browser |-> b, boot |-> boots, answered |-> FALSE]
<1>1. /\ started \in Seq(Started) /\ boots \in Nat /\ now \in Nat /\ Len(started) \in Nat
      /\ loginCookies \in [Browsers -> SUBSET LoginCookie]
      /\ asserted \subseteq Code
  BY DEF GInv, TypeOK, ClientTypeOK
<1>2. /\ started' = Append(started, entry)
      /\ loginCookies' = [loginCookies EXCEPT ![b] = Without(@, login) \cup {cookie}]
      /\ gateCookie' = gateCookie
  BY DEF SendUpstream, CookieName
<1>3. entry \in Started /\ cookie \in LoginCookie
  BY <1>1, GateAssumption DEF Started, LoginCookie
<1>4. /\ started' \in Seq(Started) /\ Len(started') = login
      /\ started'[login] = entry
      /\ \A n \in Begun : started'[n] = started[n]
  BY <1>1, <1>2, <1>3 DEF Begun
<1>5. loginCookies' \in [Browsers -> SUBSET LoginCookie]
  BY <1>1, <1>2, <1>3 DEF Without
<1>6. Begun' = Begun \cup {login} /\ login \notin Begun
  BY <1>1, <1>4 DEF Begun
<1>7. Grows
  BY <1>4, <1>6 DEF Grows, Begun
<1>8. HistoryTraced'
  BY <1>1, <1>4, <1>6 DEF GInv, HistoryTraced
<1>9. CookiesTraced'
  <2> SUFFICES ASSUME NEW x \in Browsers, NEW c \in loginCookies'[x]
               PROVE  /\ c.login \in Begun' /\ c.name = CookieName(c.login)
                      /\ started'[c.login].browser = x /\ started'[c.login].boot = c.boot
                      /\ c.boot = boots' => meta'
    BY DEF CookiesTraced, CookieName
  <2>1. CASE c \in loginCookies[x]
    BY <2>1, <1>4, <1>6 DEF GInv, CookiesTraced, CookieName
  <2>2. CASE c \notin loginCookies[x]
    <3>1. x = b /\ c = cookie
      BY <2>2, <1>1, <1>2 DEF Without
    <3> QED
      BY <3>1, <1>4, <1>6 DEF CookieName
  <2> QED
    BY <2>1, <2>2
<1>10. SessionsTraced'
  <2> SUFFICES ASSUME NEW x \in Browsers, gateCookie[x] # None
               PROVE  /\ gateCookie[x].sub \in Admitted
                      /\ \E n \in Begun' :
                           /\ started'[n].browser = x
                           /\ started'[n].boot = gateCookie[x].boot
                           /\ [login |-> n, sub |-> gateCookie[x].sub] \in asserted'
    BY <1>2 DEF SessionsTraced
  <2>1. PICK n \in Begun : /\ started[n].browser = x
                           /\ started[n].boot = gateCookie[x].boot
                           /\ [login |-> n, sub |-> gateCookie[x].sub] \in asserted
    BY DEF GInv, SessionsTraced
  <2>2. gateCookie[x].sub \in Admitted
    BY DEF GInv, SessionsTraced
  <2> QED
    BY <2>1, <2>2, <1>4, <1>6
<1>11. TabsKeepTheirLogin'
  <2> SUFFICES ASSUME NEW n \in Begun', ~started'[n].answered
               PROVE  \E c \in loginCookies'[started'[n].browser] : c.login = n
    BY DEF TabsKeepTheirLogin, Begun
  <2>1. CASE n = login
    <3>1. started'[n].browser = b
      BY <2>1, <1>4
    <3>2. cookie \in loginCookies'[b] /\ cookie.login = n
      BY <2>1, <1>1, <1>2
    <3> QED
      BY <3>1, <3>2
  <2>2. CASE n \in Begun
    <3>1. /\ started'[n] = started[n] /\ started[n].browser \in Browsers
          /\ ~started[n].answered
      BY <2>2, <1>1, <1>4, EntryType
    <3>2. PICK c \in loginCookies[started[n].browser] : c.login = n
      BY <2>2, <3>1 DEF GInv, TabsKeepTheirLogin, Begun
    <3>3. c.name = n
      BY <3>1, <3>2 DEF GInv, CookiesTraced, CookieName
    <3>4. c \in loginCookies'[started[n].browser]
      BY <2>2, <3>1, <3>2, <3>3, <1>1, <1>2, <1>6 DEF Without
    <3> QED
      BY <3>1, <3>2, <3>4
  <2> QED
    BY <2>1, <2>2, <1>6
<1> QED
  BY <1>4, <1>5, <1>7, <1>8, <1>9, <1>10, <1>11

\* An answer clears the cookie of its login and no other.
LEMMA AnswerKeeps ==
  ASSUME GInv, NEW b \in Browsers, NEW login \in Begun, started[login].browser = b,
         AnswerLogin(b, login), boots' = boots, asserted' = asserted, meta' = meta
  PROVE  /\ loginCookies' \in [Browsers -> SUBSET LoginCookie]
         /\ started' \in Seq(Started) /\ Begun' = Begun
         /\ Grows
         /\ HistoryTraced' /\ CookiesTraced' /\ TabsKeepTheirLogin'
<1>1. /\ started \in Seq(Started) /\ boots \in Nat /\ Len(started) \in Nat
      /\ loginCookies \in [Browsers -> SUBSET LoginCookie]
      /\ asserted \subseteq Code
  BY DEF GInv, TypeOK, ClientTypeOK
<1>2. /\ loginCookies' = [loginCookies EXCEPT ![b] = Without(@, login)]
      /\ started' = [started EXCEPT ![login].answered = TRUE]
  BY DEF AnswerLogin, CookieName
<1>3. /\ started' \in Seq(Started) /\ Len(started') = Len(started)
      /\ \A n \in Begun : /\ started'[n].browser = started[n].browser
                          /\ started'[n].boot = started[n].boot
                          /\ ~started'[n].answered => n # login /\ ~started[n].answered
  <2> DEFINE answered == [started[login] EXCEPT !.answered = TRUE]
  <2>1. started[login] \in Started
    BY <1>1, EntryType
  <2>2. /\ answered \in Started /\ answered.answered
        /\ answered.browser = started[login].browser
        /\ answered.boot = started[login].boot
    BY <2>1 DEF Started
  <2>3. started' = [started EXCEPT ![login] = answered]
    BY <1>2
  <2> HIDE DEF answered
  <2> QED
    BY <1>1, <2>2, <2>3 DEF Begun
<1>4. loginCookies' \in [Browsers -> SUBSET LoginCookie]
  BY <1>1, <1>2 DEF Without
<1>5. Begun' = Begun
  BY <1>3 DEF Begun
<1>6. Grows
  BY <1>3, <1>5 DEF Grows, Begun
<1>7. HistoryTraced'
  BY <1>3, <1>5 DEF GInv, HistoryTraced
<1>8. CookiesTraced'
  <2> SUFFICES ASSUME NEW x \in Browsers, NEW c \in loginCookies'[x]
               PROVE  /\ c.login \in Begun' /\ c.name = CookieName(c.login)
                      /\ started'[c.login].browser = x /\ started'[c.login].boot = c.boot
                      /\ c.boot = boots' => meta'
    BY DEF CookiesTraced, CookieName
  <2>1. c \in loginCookies[x]
    BY <1>1, <1>2 DEF Without
  <2> QED
    BY <2>1, <1>3, <1>5 DEF GInv, CookiesTraced, CookieName
<1>9. TabsKeepTheirLogin'
  <2> SUFFICES ASSUME NEW n \in Begun', ~started'[n].answered
               PROVE  \E c \in loginCookies'[started'[n].browser] : c.login = n
    BY DEF TabsKeepTheirLogin, Begun
  <2>1. /\ n \in Begun /\ n # login /\ ~started[n].answered
        /\ started'[n].browser = started[n].browser /\ started[n].browser \in Browsers
    BY <1>1, <1>3, <1>5, EntryType
  <2>2. PICK c \in loginCookies[started[n].browser] : c.login = n
    BY <2>1 DEF GInv, TabsKeepTheirLogin, Begun
  <2>3. c.name = n
    BY <2>1, <2>2 DEF GInv, CookiesTraced, CookieName
  <2>4. c \in loginCookies'[started[n].browser]
    BY <2>1, <2>2, <2>3, <1>1, <1>2 DEF Without
  <2> QED
    BY <2>1, <2>2, <2>4
<1> QED
  BY <1>3, <1>4, <1>5, <1>6, <1>7, <1>8, <1>9

\* A step that leaves the cookies and the history alone, in the same process.
LEMMA HistoryKept ==
  ASSUME GInv, UNCHANGED <<boots, loginCookies, gateCookie, started>>,
         asserted \subseteq asserted', \A code \in asserted' : code.login \in Begun,
         meta => meta'
  PROVE  /\ Grows /\ HistoryTraced' /\ CookiesTraced' /\ SessionsTraced'
         /\ TabsKeepTheirLogin'
<1>1. Grows /\ Begun' = Begun
  BY DEF Grows, Begun
<1>2. HistoryTraced'
  BY <1>1 DEF GInv, HistoryTraced
<1>3. CookiesTraced'
  BY <1>1 DEF GInv, CookiesTraced, CookieName
<1>4. SessionsTraced'
  BY <1>1 DEF GInv, SessionsTraced
<1>5. TabsKeepTheirLogin'
  BY DEF GInv, TabsKeepTheirLogin
<1> QED
  BY <1>1, <1>2, <1>3, <1>4, <1>5

\* Is a request that waits at the callback traced, in the next state?
TracedNext(visit) ==
    /\ visit.login \in Begun
    /\ started[visit.login].browser = visit.browser
    /\ started[visit.login].boot = boots
    /\ visit.code \in asserted
    /\ visit.step = "jwks" => visit.token # None
    /\ visit.token # None => /\ visit.token \in IdToken
                             /\ visit.token.sub = visit.code.sub
                             /\ visit.token.nonce = visit.code.login

\* A step in which only request v may change keeps the others traced.
LEMMA VisitsKept ==
  ASSUME GInv, Grows, boots' = boots, asserted \subseteq asserted',
         NEW v \in Visits, NEW new, visits' = [visits EXCEPT ![v] = new],
         new # Idle => new \in Visit,
         new # Idle /\ new.step # "discover" => TracedNext(new)
  PROVE  visits' \in [Visits -> Visit \cup {Idle}] /\ VisitsTraced'
<1>1. visits \in [Visits -> Visit \cup {Idle}]
  BY DEF GInv, TypeOK, ClientTypeOK
<1>2. visits' \in [Visits -> Visit \cup {Idle}]
  BY <1>1
<1>3. ASSUME NEW w \in Visits, visits'[w] # Idle, visits'[w].step # "discover"
      PROVE  TracedNext(visits'[w])
  BY <1>1, <1>3 DEF GInv, VisitsTraced, TracedNext
<1>4. \A n \in Begun : /\ n \in Begun'
                       /\ started'[n].browser = started[n].browser
                       /\ started'[n].boot = started[n].boot
  BY DEF Grows, Begun
<1>5. ASSUME NEW w \in Visits, visits'[w] # Idle, visits'[w].step # "discover"
      PROVE  /\ visits'[w].login \in Begun'
             /\ started'[visits'[w].login].browser = visits'[w].browser
             /\ started'[visits'[w].login].boot = boots'
             /\ visits'[w].code \in asserted'
             /\ visits'[w].step = "jwks" => visits'[w].token # None
             /\ visits'[w].token # None => /\ visits'[w].token \in IdToken
                                           /\ visits'[w].token.sub = visits'[w].code.sub
                                           /\ visits'[w].token.nonce = visits'[w].code.login
  BY <1>3, <1>4, <1>5 DEF TracedNext
<1> QED
  BY <1>2, <1>5 DEF VisitsTraced

\* A step that leaves the requests alone.
LEMMA VisitsStay ==
  ASSUME GInv, Grows, boots' = boots, asserted \subseteq asserted', visits' = visits
  PROVE  VisitsTraced'
<1>1. Begun \subseteq Begun'
  BY DEF Grows, Begun
<1>2. VisitsTraced
  BY DEF GInv
<1> QED
  BY <1>1, <1>2 DEF VisitsTraced, Grows

\* A step that leaves the gate cookies alone, in the same process.
LEMMA SessionsKept ==
  ASSUME GInv, Grows, gateCookie' = gateCookie, asserted \subseteq asserted'
  PROVE  SessionsTraced'
<1> SUFFICES ASSUME NEW x \in Browsers, gateCookie[x] # None
             PROVE  /\ gateCookie[x].sub \in Admitted
                    /\ \E n \in Begun' :
                         /\ started'[n].browser = x
                         /\ started'[n].boot = gateCookie[x].boot
                         /\ [login |-> n, sub |-> gateCookie[x].sub] \in asserted'
  BY DEF SessionsTraced
<1>1. PICK n \in Begun : /\ started[n].browser = x
                         /\ started[n].boot = gateCookie[x].boot
                         /\ [login |-> n, sub |-> gateCookie[x].sub] \in asserted
  BY DEF GInv, SessionsTraced
<1>2. gateCookie[x].sub \in Admitted
  BY DEF GInv, SessionsTraced
<1>3. n \in Begun'
  BY DEF Grows, Begun
<1> QED
  BY <1>1, <1>2, <1>3 DEF Grows

\* What the cookies, the gate cookies and the history must be after a step.
CookiesGood ==
    /\ loginCookies \in [Browsers -> SUBSET LoginCookie]
    /\ gateCookie \in [Browsers -> GateCookie \cup {None}]
    /\ started \in Seq(Started)
    /\ HistoryTraced /\ CookiesTraced /\ SessionsTraced /\ TabsKeepTheirLogin

\* A step that touches none of them.
LEMMA CookiesKept ==
  ASSUME GInv, UNCHANGED <<boots, loginCookies, gateCookie, started>>,
         asserted \subseteq asserted', \A code \in asserted' : code.login \in Begun,
         meta => meta'
  PROVE  CookiesGood' /\ Grows
<1>1. Grows /\ HistoryTraced' /\ CookiesTraced' /\ SessionsTraced' /\ TabsKeepTheirLogin'
  BY HistoryKept
<1>2. /\ loginCookies \in [Browsers -> SUBSET LoginCookie]
      /\ gateCookie \in [Browsers -> GateCookie \cup {None}]
      /\ started \in Seq(Started)
  BY DEF GInv, TypeOK
<1> QED
  BY <1>1, <1>2 DEF CookiesGood

\* A refused callback.
LEMMA RefuseKeeps ==
  ASSUME GInv, NEW b \in Browsers, NEW login \in Begun, started[login].browser = b,
         Refuse(b, login), boots' = boots, asserted' = asserted, meta' = meta
  PROVE  CookiesGood' /\ Grows
<1>1. AnswerLogin(b, login) /\ gateCookie' = gateCookie
  BY DEF Refuse
<1>2. gateCookie' \in [Browsers -> GateCookie \cup {None}]
  BY <1>1 DEF GInv, TypeOK
<1>3. /\ loginCookies' \in [Browsers -> SUBSET LoginCookie]
      /\ started' \in Seq(Started)
      /\ Grows /\ HistoryTraced' /\ CookiesTraced' /\ TabsKeepTheirLogin'
  BY <1>1, AnswerKeeps
<1>4. SessionsTraced'
  BY <1>1, <1>3, SessionsKept
<1> QED
  BY <1>2, <1>3, <1>4 DEF CookiesGood

\* A callback whose ID token is checked: the browser comes in only for the tester for whom
\* the upstream issued the code of this very login.
LEMMA ConcludeKeeps ==
  ASSUME GInv, NEW v \in Visits, NEW token \in IdToken, NEW key,
         visits[v] # Idle, visits[v].step # "discover",
         token.sub = visits[v].code.sub, token.nonce = visits[v].code.login,
         Conclude(v, token, key), boots' = boots, asserted' = asserted, meta' = meta
  PROVE  CookiesGood' /\ Grows /\ rejected' \subseteq IdToken
<1> DEFINE b == visits[v].browser
           login == visits[v].login
<1>1. visits[v] \in Visit /\ b \in Browsers
  BY DEF GInv, TypeOK, ClientTypeOK, Visit
<1>2. /\ login \in Begun /\ started[login].browser = b /\ started[login].boot = boots
      /\ visits[v].code \in asserted
  BY DEF GInv, VisitsTraced
<1>3. rejected' \subseteq IdToken
  BY DEF Conclude, GInv, TypeOK, ClientTypeOK
<1>4. CASE LetsIn(token, login, key)
  <2>1. /\ AnswerLogin(b, login)
        /\ gateCookie' = [gateCookie EXCEPT ![b] =
                            [sub |-> token.sub, boot |-> boots, exp |-> now + SessionTtl]]
    BY <1>4 DEF Conclude
  <2>2. /\ token.sub \in Admitted /\ token.sub \in Testers
        /\ token.nonce = login
    BY <1>4, GateAssumption DEF LetsIn, Verified
  <2>3. /\ loginCookies' \in [Browsers -> SUBSET LoginCookie]
        /\ started' \in Seq(Started) /\ Begun' = Begun
        /\ Grows /\ HistoryTraced' /\ CookiesTraced' /\ TabsKeepTheirLogin'
    BY <1>1, <1>2, <2>1, AnswerKeeps
  <2>4. /\ gateCookie \in [Browsers -> GateCookie \cup {None}]
        /\ now \in Nat /\ boots \in Nat /\ asserted \subseteq Code
    BY DEF GInv, TypeOK, ClientTypeOK
  <2>5. gateCookie' \in [Browsers -> GateCookie \cup {None}]
    <3> DEFINE cookie == [sub |-> token.sub, boot |-> boots, exp |-> now + SessionTtl]
    <3>1. cookie \in GateCookie
      BY <2>2, <2>4, GateAssumption DEF GateCookie
    <3> HIDE DEF cookie
    <3>2. gateCookie' = [gateCookie EXCEPT ![b] = cookie]
      BY <2>1 DEF cookie
    <3> QED
      BY <2>4, <3>1, <3>2
  <2>6. visits[v].code = [login |-> login, sub |-> token.sub]
    BY <1>2, <2>2, <2>4 DEF Code
  <2>7. SessionsTraced'
    <3> SUFFICES ASSUME NEW x \in Browsers, gateCookie'[x] # None
                 PROVE  /\ gateCookie'[x].sub \in Admitted
                        /\ \E n \in Begun' :
                             /\ started'[n].browser = x
                             /\ started'[n].boot = gateCookie'[x].boot
                             /\ [login |-> n, sub |-> gateCookie'[x].sub] \in asserted'
      BY DEF SessionsTraced
    <3>1. CASE x = b
      <4>1. gateCookie'[x].sub = token.sub /\ gateCookie'[x].boot = boots
        BY <3>1, <1>1, <2>1, <2>4
      <4> QED
        BY <3>1, <4>1, <1>2, <2>2, <2>3, <2>6 DEF Grows
    <3>2. CASE x # b
      <4>1. gateCookie'[x] = gateCookie[x]
        BY <3>2, <2>1, <2>4
      <4>2. gateCookie[x].sub \in Admitted
        BY <4>1 DEF GInv, SessionsTraced
      <4>3. PICK n \in Begun : /\ started[n].browser = x
                               /\ started[n].boot = gateCookie[x].boot
                               /\ [login |-> n, sub |-> gateCookie[x].sub] \in asserted
        BY <4>1 DEF GInv, SessionsTraced
      <4> QED
        BY <4>1, <4>2, <4>3, <2>3 DEF Grows
    <3> QED
      BY <3>1, <3>2
  <2> QED
    BY <1>3, <2>3, <2>5, <2>7 DEF CookiesGood
<1>5. CASE ~LetsIn(token, login, key)
  <2>1. Refuse(b, login)
    BY <1>5 DEF Conclude
  <2> QED
    BY <1>1, <1>2, <1>3, <2>1, RefuseKeeps
<1> QED
  BY <1>4, <1>5

----------------------------------------------------------------------------
(* One lemma for each kind of step *)

\* The types of what is neither a cookie nor a request.
WorldType ==
    /\ now \in Nat /\ boots \in Nat /\ meta \in BOOLEAN
    /\ metaErr \in 0 .. DiscoveryRetry \cup {None}
    /\ DOMAIN keys \subseteq Key \cup {NoKid} /\ \A kid \in DOMAIN keys : keys[kid] \in Key
    /\ published \subseteq Key /\ newest \in published
    /\ asserted \subseteq Code /\ codes \subseteq asserted
    /\ rejected \subseteq IdToken

\* The invariant by what a step can disturb: the world, the cookies, the visits.
LEMMA Parts ==
  GInv => /\ WorldType /\ CookiesGood /\ VisitsTraced
          /\ visits \in [Visits -> Visit \cup {Idle}]
BY DEF GInv, TypeOK, ClientTypeOK, WorldType, CookiesGood

\* The parts make the invariant again.
LEMMA Whole ==
  ASSUME WorldType', CookiesGood', VisitsTraced', visits' \in [Visits -> Visit \cup {Idle}]
  PROVE  GInv'
BY DEF GInv, TypeOK, ClientTypeOK, WorldType, CookiesGood

\* A parsed JWKS caches keys of the upstream.
LEMMA ParsedCache ==
  ASSUME NEW doc \in SUBSET Key, NEW cache \in ParseJwks(doc)
  PROVE  /\ DOMAIN cache \subseteq Key \cup {NoKid}
         /\ \A kid \in DOMAIN cache : cache[kid] \in Key
<1>1. cache \in [{KidOf(k) : k \in doc} -> doc]
  BY DEF ParseJwks
<1>2. \A k \in doc : KidOf(k) \in Key \cup {NoKid}
  BY DEF KidOf
<1> QED
  BY <1>1, <1>2

\* GET /authorize, and what discovery answers to it.
LEMMA StartKeeps == ASSUME GInv, NEW b \in Browsers, StartLogin(b) PROVE GInv'
<1>1. WorldType /\ CookiesGood /\ VisitsTraced /\ visits \in [Visits -> Visit \cup {Idle}]
  BY Parts
<1>2. /\ SendUpstream(b) /\ boots' = boots /\ asserted' = asserted /\ meta'
      /\ visits' = visits /\ gateCookie' = gateCookie
  BY DEF StartLogin, SendUpstream, clientVars, upstreamVars
<1>3. /\ loginCookies' \in [Browsers -> SUBSET LoginCookie] /\ started' \in Seq(Started)
      /\ Grows /\ HistoryTraced' /\ CookiesTraced' /\ SessionsTraced' /\ TabsKeepTheirLogin'
  BY <1>2, SendKeeps
<1>4. CookiesGood'
  BY <1>1, <1>2, <1>3 DEF CookiesGood
<1>5. WorldType'
  BY <1>1 DEF WorldType, StartLogin, clientVars, upstreamVars
<1>6. VisitsTraced'
  BY <1>1, <1>2, <1>3, VisitsStay
<1> QED
  BY <1>1, <1>2, <1>4, <1>5, <1>6, Whole

\* GET /authorize waits for discovery: no cookie changes.
LEMMA BeginKeeps ==
  ASSUME GInv, NEW v \in Visits, NEW b \in Browsers, BeginDiscovery(v, b) PROVE GInv'
<1> DEFINE visit == [step |-> "discover", browser |-> b, login |-> None, code |-> None,
                     token |-> None, doc |-> None]
<1>1. WorldType /\ HistoryTraced
  BY Parts DEF GInv
<1>2. /\ visits' = [visits EXCEPT ![v] = visit]
      /\ UNCHANGED <<now, boots, clientVars, upstreamVars, rejected, cookieVars, started>>
  BY DEF BeginDiscovery, FetchDiscovery
<1>3. visit \in Visit /\ visit.step = "discover"
  BY DEF Visit
<1>4. CookiesGood' /\ Grows
  BY <1>1, <1>2, CookiesKept DEF clientVars, upstreamVars, cookieVars, HistoryTraced
<1>5. WorldType'
  BY <1>1, <1>2 DEF WorldType, clientVars, upstreamVars
<1> HIDE DEF visit
<1>6. visits' \in [Visits -> Visit \cup {Idle}] /\ VisitsTraced'
  BY <1>2, <1>3, <1>4, VisitsKept DEF upstreamVars
<1> QED
  BY <1>4, <1>5, <1>6, Whole

\* Discovery answers: the browser is sent upstream with a login of its own.
LEMMA ArriveKeeps == ASSUME GInv, NEW v \in Visits, LoginAfterDiscovery(v) PROVE GInv'
<1> DEFINE b == visits[v].browser
<1>1. WorldType /\ CookiesGood /\ visits \in [Visits -> Visit \cup {Idle}]
  BY Parts
<1>2. /\ SendUpstream(b) /\ boots' = boots /\ asserted' = asserted /\ meta' = TRUE
      /\ visits' = [visits EXCEPT ![v] = Idle] /\ gateCookie' = gateCookie
      /\ visits[v] # Idle
      /\ UNCHANGED <<now, metaErr, keys, published, newest, codes, rejected>>
  BY DEF LoginAfterDiscovery, DiscoveryArrives, SendUpstream, Waiting, End, upstreamVars
<1>3. b \in Browsers
  BY <1>1, <1>2 DEF Visit
<1>4. /\ loginCookies' \in [Browsers -> SUBSET LoginCookie] /\ started' \in Seq(Started)
      /\ Grows /\ HistoryTraced' /\ CookiesTraced' /\ SessionsTraced' /\ TabsKeepTheirLogin'
  BY <1>2, <1>3, SendKeeps
<1>5. CookiesGood'
  BY <1>1, <1>2, <1>4 DEF CookiesGood
<1>6. WorldType'
  BY <1>1, <1>2 DEF WorldType
<1>7. visits' \in [Visits -> Visit \cup {Idle}] /\ VisitsTraced'
  BY <1>2, <1>4, VisitsKept
<1> QED
  BY <1>5, <1>6, <1>7, Whole

\* A request ends, and nothing it leaves behind is a cookie or a code.
LEMMA EndKeeps ==
  ASSUME GInv, NEW v \in Visits, End(v), WorldType',
         UNCHANGED <<boots, asserted, loginCookies, gateCookie, started>>, meta => meta'
  PROVE  GInv'
<1>1. HistoryTraced
  BY DEF GInv
<1>2. CookiesGood' /\ Grows
  BY <1>1, CookiesKept DEF HistoryTraced
<1>3. visits' \in [Visits -> Visit \cup {Idle}] /\ VisitsTraced'
  BY <1>2, VisitsKept DEF End
<1> QED
  BY <1>2, <1>3, Whole

\* The visit ends without a login: discovery failed, or the document was of no use.
LEMMA FailKeeps == ASSUME GInv, NEW v \in Visits, NoLoginAfterDiscovery(v) PROVE GInv'
<1>1. WorldType
  BY Parts
<1>2. /\ End(v) /\ keys' = keys /\ meta \in BOOLEAN
      /\ \/ meta' = meta /\ metaErr' = 0
         \/ meta' = TRUE /\ metaErr' = metaErr
      /\ UNCHANGED <<now, boots, upstreamVars, rejected, cookieVars, started>>
  BY <1>1 DEF NoLoginAfterDiscovery, DiscoveryFails, DiscoveryArrives, MetaAfterFailure, WorldType
<1>3. meta' \in BOOLEAN /\ (meta => meta')
  BY <1>2, Zenon
<1>4. metaErr' \in 0 .. DiscoveryRetry \cup {None}
  BY <1>1, <1>2, UpstreamAssumption DEF WorldType
<1>5. WorldType'
  BY <1>1, <1>2, <1>3, <1>4 DEF WorldType, upstreamVars
<1> QED
  BY <1>2, <1>3, <1>5, EndKeeps DEF upstreamVars, cookieVars

\* The browser goes away while the upstream is asked.
LEMMA AbandonKeeps == ASSUME GInv, NEW v \in Visits, Abandon(v) PROVE GInv'
<1>1. WorldType'
  BY Parts DEF WorldType, Abandon, clientVars, upstreamVars
<1> QED
  BY <1>1, EndKeeps DEF Abandon, clientVars, upstreamVars, cookieVars

\* A callback begins to wait, or waits on: no cookie changes.
LEMMA GoesOnKeeps ==
  ASSUME GInv, NEW v \in Visits, NEW visit \in Visit, TracedNext(visit),
         visits' = [visits EXCEPT ![v] = visit], codes' \subseteq codes,
         UNCHANGED <<now, boots, clientVars, published, newest, asserted, rejected,
                     cookieVars, started>>
  PROVE  GInv'
<1>1. WorldType /\ CookiesGood
  BY Parts
<1>2. CookiesGood' /\ Grows
  BY <1>1, CookiesKept DEF CookiesGood, clientVars, cookieVars, HistoryTraced
<1>3. visits' \in [Visits -> Visit \cup {Idle}] /\ VisitsTraced'
  BY <1>2, VisitsKept
<1>4. WorldType'
  BY <1>1 DEF WorldType, clientVars
<1> QED
  BY <1>2, <1>3, <1>4, Whole

\* GET /upstream/callback, and the answers of the upstream to it.
LEMMA CallbackKeeps ==
  ASSUME GInv, NEW v \in Visits, NEW b \in Browsers, NEW login \in Begun, NEW code \in asserted,
         Callback(v, b, login, code)
  PROVE  GInv'
<1> DEFINE visit == [step |-> "exchange", browser |-> b, login |-> login, code |-> code,
                     token |-> None, doc |-> None]
<1>1. WorldType /\ CookiesGood
  BY Parts
<1>2. /\ visits' = [visits EXCEPT ![v] = visit]
      /\ UNCHANGED <<now, boots, clientVars, upstreamVars, rejected, cookieVars, started>>
  BY DEF Callback
<1>3. PICK cookie \in Named(b, login) : Opens(cookie) /\ cookie.login = login
  BY DEF Callback
<1>4. started[login].browser = b /\ started[login].boot = boots
  BY <1>1, <1>3 DEF CookiesGood, CookiesTraced, Named, Opens
<1>5. visit \in Visit
  BY <1>1 DEF Visit, WorldType, Begun
<1>6. TracedNext(visit)
  BY <1>4 DEF TracedNext
<1> HIDE DEF visit
<1> QED
  BY <1>2, <1>5, <1>6, GoesOnKeeps DEF upstreamVars

\* A callback refused before anything is asked takes its login cookie, no other.
LEMMA RefusedKeeps ==
  ASSUME GInv, NEW b \in Browsers, NEW login \in Begun, CallbackRefused(b, login)
  PROVE  GInv'
<1>1. WorldType /\ CookiesGood /\ VisitsTraced /\ visits \in [Visits -> Visit \cup {Idle}]
  BY Parts
<1>2. /\ Named(b, login) # {} /\ Refuse(b, login)
      /\ UNCHANGED <<now, boots, clientVars, visits, upstreamVars, rejected>>
  BY DEF CallbackRefused
<1>3. PICK c \in loginCookies[b] : c.name = CookieName(login)
  BY <1>2 DEF Named
<1>4. started[login].browser = b
  BY <1>1, <1>3 DEF CookiesGood, CookiesTraced, CookieName
<1>5. CookiesGood' /\ Grows
  BY <1>2, <1>4, RefuseKeeps DEF clientVars, upstreamVars
<1>6. WorldType'
  BY <1>1, <1>2 DEF WorldType, clientVars, upstreamVars
<1>7. VisitsTraced'
  BY <1>2, <1>5, VisitsStay DEF upstreamVars
<1> QED
  BY <1>1, <1>2, <1>5, <1>6, <1>7, Whole

\* A request that waits at the callback knows its browser and a login of it.
LEMMA Waits ==
  ASSUME GInv, NEW v \in Visits, visits[v] # Idle, visits[v].step # "discover"
  PROVE  /\ visits[v] \in Visit /\ visits[v].browser \in Browsers
         /\ visits[v].login \in Begun /\ started[visits[v].login].browser = visits[v].browser
         /\ started[visits[v].login].boot = boots
         /\ visits[v].code \in asserted
<1>1. visits[v] \in Visit
  BY DEF GInv, TypeOK, ClientTypeOK
<1> QED
  BY <1>1 DEF GInv, VisitsTraced, Visit

\* The end of a callback, refused or not.
LEMMA GiveUpKeeps ==
  ASSUME GInv, NEW v \in Visits, visits[v] # Idle, visits[v].step # "discover",
         Refuse(visits[v].browser, visits[v].login), End(v),
         UNCHANGED <<boots, meta, asserted>>, WorldType'
  PROVE  GInv'
<1>1. CookiesGood' /\ Grows
  BY Waits, RefuseKeeps
<1>2. visits' \in [Visits -> Visit \cup {Idle}] /\ VisitsTraced'
  BY <1>1, VisitsKept DEF End
<1> QED
  BY <1>1, <1>2, Whole

\* The end of a callback whose ID token was checked.
LEMMA EndsKeeps ==
  ASSUME GInv, NEW v \in Visits, NEW token \in IdToken, NEW key,
         visits[v] # Idle, visits[v].step # "discover",
         token.sub = visits[v].code.sub, token.nonce = visits[v].code.login,
         Conclude(v, token, key), UNCHANGED <<boots, meta, asserted>>,
         rejected' \subseteq IdToken => WorldType'
  PROVE  GInv'
<1>1. CookiesGood' /\ Grows /\ rejected' \subseteq IdToken
  BY ConcludeKeeps
<1>2. visits' \in [Visits -> Visit \cup {Idle}] /\ VisitsTraced'
  BY <1>1, VisitsKept DEF Conclude, End
<1> QED
  BY <1>1, <1>2, Whole

\* The code exchange fails.
LEMMA ExchangeFailKeeps == ASSUME GInv, NEW v \in Visits, ExchangeFailed(v) PROVE GInv'
<1>1. WorldType'
  BY Parts DEF WorldType, ExchangeFailed, clientVars
<1> QED
  BY <1>1, GiveUpKeeps DEF ExchangeFailed, Waiting, clientVars

\* The JWKS fetch fails.
LEMMA JwksFailKeeps == ASSUME GInv, NEW v \in Visits, JwksFails(v) PROVE GInv'
<1>1. WorldType'
  BY Parts DEF WorldType, JwksFails, clientVars, upstreamVars
<1> QED
  BY <1>1, GiveUpKeeps DEF JwksFails, Waiting, clientVars, upstreamVars

\* The ID token the upstream signs for a code is about who logged in, for that login.
LEMMA TokenType ==
  ASSUME GInv, NEW code \in asserted
  PROVE  /\ TokenFor(code) \in IdToken /\ TokenFor(code) # None
         /\ TokenFor(code).sub = code.sub /\ TokenFor(code).nonce = code.login
         /\ TokenFor(code).key = newest
<1>1. code \in Code /\ now \in Nat /\ newest \in Key
  BY Parts DEF WorldType
<1>2. TokenFor(code) \in IdToken
  BY <1>1, UpstreamAssumption DEF TokenFor, IdToken, Code
<1> QED
  BY <1>2, UpstreamAssumption DEF TokenFor

\* The upstream redeems the code: its ID token is on its way.
LEMMA RedeemedKeeps == ASSUME GInv, NEW v \in Visits, ExchangeServed(v) PROVE GInv'
<1> DEFINE code == visits[v].code
           visit == [visits[v] EXCEPT !.token = TokenFor(code)]
<1>1. /\ visits[v] # Idle /\ visits[v].step = "exchange" /\ codes' = codes \ {code}
      /\ visits' = [visits EXCEPT ![v].token = TokenFor(code)]
      /\ UNCHANGED <<now, boots, clientVars, published, newest, asserted, rejected,
                     cookieVars, started>>
  BY DEF ExchangeServed, ServeExchange, Waiting
<1>2. visits[v] \in Visit /\ code \in asserted
  BY <1>1, Waits
<1>3. /\ visit \in Visit /\ visit.step = "exchange" /\ visit.token = TokenFor(code)
      /\ visit.code = code /\ visit.login = visits[v].login /\ visit.browser = visits[v].browser
  BY <1>1, <1>2, TokenType DEF Visit
<1>4. visits' = [visits EXCEPT ![v] = visit]
  BY <1>1, Parts
<1> HIDE DEF visit
<1>5. TracedNext(visit)
  BY <1>1, <1>2, <1>3, Waits, TokenType DEF TracedNext
<1> QED
  BY <1>1, <1>3, <1>4, <1>5, GoesOnKeeps

\* What a request knows of the ID token it holds.
LEMMA Holds ==
  ASSUME GInv, NEW v \in Visits, visits[v] # Idle, visits[v].step # "discover",
         visits[v].step = "jwks" \/ visits[v].token # None
  PROVE  /\ visits[v].token # None /\ visits[v].token \in IdToken
         /\ visits[v].token.sub = visits[v].code.sub
         /\ visits[v].token.nonce = visits[v].code.login
BY DEF GInv, VisitsTraced

\* The answer to the code exchange arrives: the key is cached or asked for.
LEMMA ExchangeKeeps == ASSUME GInv, NEW v \in Visits, ExchangeAnswered(v) PROVE GInv'
<1> DEFINE token == visits[v].token
<1>1. WorldType
  BY Parts
<1>2. /\ visits[v] # Idle /\ visits[v].step = "exchange" /\ token # None
      /\ UNCHANGED <<now, boots, clientVars, upstreamVars>>
  BY DEF ExchangeAnswered, Waiting
<1>3. token \in IdToken /\ token.sub = visits[v].code.sub /\ token.nonce = visits[v].code.login
  BY <1>2, Holds
<1>4. rejected' \subseteq IdToken => WorldType'
  BY <1>1, <1>2 DEF WorldType, clientVars, upstreamVars
<1>5. CASE HasKey(token)
  <2>1. Conclude(v, token, CachedKey(keys, KidOf(token.key)))
    BY <1>5 DEF ExchangeAnswered
  <2> HIDE DEF token
  <2> QED
    BY <1>2, <1>3, <1>4, <2>1, EndsKeeps DEF clientVars, upstreamVars, token
<1>6. CASE ~HasKey(token)
  <2> DEFINE visit == [visits[v] EXCEPT !.step = "jwks"]
  <2>1. /\ visits' = [visits EXCEPT ![v].step = "jwks"]
        /\ UNCHANGED <<rejected, cookieVars, started>>
    BY <1>6 DEF ExchangeAnswered
  <2>2. visits[v] \in Visit
    BY <1>2, Waits
  <2>3. /\ visit \in Visit /\ visit.step = "jwks" /\ visit.token = token
        /\ visit.code = visits[v].code /\ visit.login = visits[v].login
        /\ visit.browser = visits[v].browser
    BY <2>2 DEF Visit
  <2>4. visits' = [visits EXCEPT ![v] = visit]
    BY <2>1, Parts
  <2> HIDE DEF visit
  <2>5. TracedNext(visit)
    BY <1>2, <1>3, <2>3, Waits DEF TracedNext
  <2> QED
    BY <1>2, <2>1, <2>3, <2>4, <2>5, GoesOnKeeps DEF upstreamVars
<1> QED
  BY <1>5, <1>6

\* The JWKS arrives: the cache is replaced and the callback concludes.
LEMMA ArrivedKeeps == ASSUME GInv, NEW v \in Visits, JwksArrives(v) PROVE GInv'
<1> DEFINE token == visits[v].token
<1>1. WorldType
  BY Parts
<1>2. /\ visits[v] # Idle /\ visits[v].step = "jwks" /\ visits[v].doc # None
      /\ UNCHANGED <<now, boots, meta, metaErr, upstreamVars>>
  BY DEF JwksArrives, Waiting
<1>3. PICK cache \in ParseJwks(visits[v].doc) :
        keys' = cache /\ Conclude(v, token, CachedKey(cache, KidOf(token.key)))
  BY DEF JwksArrives
<1>4. token \in IdToken /\ token.sub = visits[v].code.sub /\ token.nonce = visits[v].code.login
  BY <1>2, Holds
<1>5. visits[v].doc \in SUBSET Key
  BY <1>2, Waits DEF Visit
<1>6. /\ DOMAIN keys' \subseteq Key \cup {NoKid}
      /\ \A kid \in DOMAIN keys' : keys'[kid] \in Key
  BY <1>3, <1>5, ParsedCache
<1>7. rejected' \subseteq IdToken => WorldType'
  BY <1>1, <1>2, <1>6 DEF WorldType, upstreamVars
<1> HIDE DEF token
<1> QED
  BY <1>2, <1>3, <1>4, <1>7, EndsKeeps DEF upstreamVars

\* The upstream reads its keys into the answer on its way.
LEMMA ServedKeeps == ASSUME GInv, NEW v \in Visits, JwksServed(v) PROVE GInv'
<1> DEFINE visit == [visits[v] EXCEPT !.doc = published]
<1>1. /\ visits[v] # Idle /\ visits[v].step = "jwks"
      /\ visits' = [visits EXCEPT ![v].doc = published]
      /\ UNCHANGED <<now, boots, clientVars, upstreamVars, rejected, cookieVars, started>>
  BY DEF JwksServed, ServeJwks, Waiting
<1>2. visits[v] \in Visit /\ WorldType
  BY <1>1, Waits, Parts
<1>3. /\ visit \in Visit /\ visit.step = "jwks" /\ visit.token = visits[v].token
      /\ visit.code = visits[v].code /\ visit.login = visits[v].login
      /\ visit.browser = visits[v].browser
  BY <1>1, <1>2 DEF Visit, WorldType
<1>4. visits' = [visits EXCEPT ![v] = visit]
  BY <1>1, Parts
<1> HIDE DEF visit
<1>5. TracedNext(visit)
  BY <1>1, <1>3, Waits, Holds DEF TracedNext
<1> QED
  BY <1>1, <1>3, <1>4, <1>5, GoesOnKeeps DEF upstreamVars

\* A step that leaves the requests and the cookies alone.
LEMMA AloneKeeps ==
  ASSUME GInv, WorldType', UNCHANGED <<boots, visits, loginCookies, gateCookie, started>>,
         asserted \subseteq asserted', \A code \in asserted' : code.login \in Begun,
         meta => meta'
  PROVE  GInv'
<1>1. CookiesGood' /\ Grows
  BY CookiesKept
<1>2. VisitsTraced' /\ visits' \in [Visits -> Visit \cup {Idle}]
  BY <1>1, VisitsStay, Parts
<1> QED
  BY <1>1, <1>2, Whole

\* A login at the upstream, or a rotation of its keys.
LEMMA AtUpstreamKeeps == ASSUME GInv, AtUpstream PROVE GInv'
<1>1. WorldType /\ HistoryTraced
  BY Parts DEF GInv
<1>2. UNCHANGED <<now, boots, clientVars, visits, rejected, cookieVars, started>>
  BY DEF AtUpstream
<1>3. CASE \E login \in 1 .. Len(started), sub \in Testers : LogInUpstream(login, sub)
  <2>1. PICK login \in Begun, sub \in Testers : LogInUpstream(login, sub)
    BY <1>3 DEF Begun
  <2> DEFINE code == [login |-> login, sub |-> sub]
  <2>2. code \in Code /\ code.login \in Begun
    BY <2>1 DEF Code, Begun
  <2>3. /\ asserted' = asserted \cup {code} /\ codes' = codes \cup {code}
        /\ UNCHANGED <<published, newest>>
    BY <2>1 DEF LogInUpstream
  <2> HIDE DEF code
  <2>4. WorldType'
    BY <1>1, <1>2, <2>2, <2>3 DEF WorldType, clientVars
  <2> QED
    BY <1>1, <1>2, <2>2, <2>3, <2>4, AloneKeeps DEF HistoryTraced, clientVars, cookieVars
<1>4. CASE Rotate \/ Retire
  <2>1. published' \subseteq Key /\ newest' \in published'
    <3>1. CASE Rotate
      BY <3>1, <1>1, UpstreamAssumption DEF WorldType, Rotate, Key
    <3>2. CASE Retire
      BY <3>2, <1>1 DEF WorldType, Retire
    <3> QED
      BY <1>4, <3>1, <3>2
  <2>2. UNCHANGED <<asserted, codes>>
    BY <1>4 DEF Rotate, Retire
  <2>3. WorldType'
    BY <1>1, <1>2, <2>1, <2>2 DEF WorldType, clientVars
  <2> QED
    BY <1>1, <1>2, <2>2, <2>3, AloneKeeps DEF HistoryTraced, clientVars, cookieVars
<1> QED
  BY <1>3, <1>4 DEF AtUpstream

\* The clock, and the end of the pause after a failed discovery.
LEMMA TimeKeeps == ASSUME GInv, Tick \/ Elapse PROVE GInv'
<1>1. WorldType /\ HistoryTraced
  BY Parts DEF GInv
<1>2. /\ UNCHANGED <<boots, meta, keys, visits, upstreamVars, rejected, cookieVars, started>>
      /\ \/ now' = now + 1 /\ metaErr' = metaErr
         \/ now' = now /\ metaErr # None /\ metaErr < DiscoveryRetry /\ metaErr' = metaErr + 1
  BY DEF Tick, Elapse, clientVars
<1>3. WorldType'
  BY <1>1, <1>2, UpstreamAssumption DEF WorldType, upstreamVars
<1> QED
  BY <1>1, <1>2, <1>3, AloneKeeps DEF HistoryTraced, upstreamVars, cookieVars

\* A new process: the cookies of the old one stay with their browsers and open no more.
LEMMA RestartKeeps == ASSUME GInv, Restart PROVE GInv'
<1>1. WorldType /\ CookiesGood
  BY Parts
<1>2. /\ boots' = boots + 1 /\ meta' = FALSE /\ metaErr' = None
      /\ visits' = [v \in Visits |-> Idle]
      /\ UNCHANGED <<now, upstreamVars, rejected, loginCookies, gateCookie, started>>
  BY DEF Restart, ClientRestart, cookieVars
<1>3. WorldType'
  <2>1. DOMAIN keys' = {}
    <3>1. keys' = <<>>
      BY DEF Restart, ClientRestart
    <3> QED
      BY <3>1
  <2>2. /\ DOMAIN keys' \subseteq Key \cup {NoKid}
        /\ \A kid \in DOMAIN keys' : keys'[kid] \in Key
    BY <2>1
  <2>3. meta' \in BOOLEAN
    <3>1. meta' = FALSE
      BY <1>2
    <3> QED
      BY <3>1, Zenon
  <2>4. boots' \in Nat /\ metaErr' \in 0 .. DiscoveryRetry \cup {None}
    BY <1>1, <1>2 DEF WorldType
  <2> QED
    BY <1>1, <1>2, <2>2, <2>3, <2>4 DEF WorldType, upstreamVars
<1>4. VisitsTraced' /\ visits' \in [Visits -> Visit \cup {Idle}]
  BY <1>2 DEF VisitsTraced
<1>5. Begun' = Begun /\ \A n \in Begun : started[n].boot \in Nat
  BY <1>1, <1>2, EntryType DEF Begun, CookiesGood
<1>6. HistoryTraced'
  BY <1>1, <1>2, <1>5 DEF CookiesGood, HistoryTraced, WorldType, upstreamVars
<1>7. CookiesTraced'
  BY <1>1, <1>2, <1>5 DEF CookiesGood, HistoryTraced, CookiesTraced, CookieName, WorldType
<1>8. SessionsTraced' /\ TabsKeepTheirLogin'
  BY <1>1, <1>2, <1>5 DEF CookiesGood, SessionsTraced, TabsKeepTheirLogin, upstreamVars
<1>9. CookiesGood'
  BY <1>1, <1>2, <1>6, <1>7, <1>8 DEF CookiesGood
<1> QED
  BY <1>3, <1>4, <1>9, Whole

----------------------------------------------------------------------------
(* The theorems *)

\* The gate starts in the invariant: no cookie, no visit, nothing vouched for.
THEOREM GInvInit == Init => GInv
<1> SUFFICES ASSUME Init PROVE GInv
  OBVIOUS
<1>1. /\ started = <<>> /\ asserted = {} /\ visits = [v \in Visits |-> Idle]
      /\ loginCookies = [b \in Browsers |-> {}] /\ gateCookie = [b \in Browsers |-> None]
  BY DEF Init, ClientInit
<1>2. TypeOK
  <2>1. DOMAIN keys = {} /\ started \in Seq(Started)
    BY <1>1 DEF Init, ClientInit
  <2>2. published \subseteq Key /\ newest \in published
    BY UpstreamAssumption DEF Init, ClientInit, Key
  <2> QED
    BY <1>1, <2>1, <2>2 DEF Init, ClientInit, TypeOK, ClientTypeOK
<1>3. Begun = {}
  BY <1>1 DEF Begun
<1> QED
  BY <1>1, <1>2, <1>3 DEF GInv, HistoryTraced, CookiesTraced, VisitsTraced, SessionsTraced,
     TabsKeepTheirLogin, Begun

\* Every step of a browser, of the upstream or of the HTTP client.
LEMMA SettlesKeeps == ASSUME GInv, NEW v \in Visits, Settles(v) \/ Abandon(v) PROVE GInv'
BY ArriveKeeps, FailKeeps, RedeemedKeeps, ExchangeKeeps, ExchangeFailKeeps, ServedKeeps,
   ArrivedKeeps, JwksFailKeeps, AbandonKeeps DEF Settles

\* Whatever browsers, the upstream and the HTTP client do keeps the invariant.
LEMMA MoveKeeps == ASSUME GInv, Move PROVE GInv'
<1>1. CASE \E b \in Browsers : StartLogin(b)
  BY <1>1, StartKeeps
<1>2. CASE SomeoneVisits
  BY <1>2, BeginKeeps DEF SomeoneVisits
<1>3. CASE \E v \in Visits, b \in Browsers, login \in 1 .. Len(started), code \in asserted :
             Callback(v, b, login, code)
  BY <1>3, CallbackKeeps DEF Begun
<1>4. CASE \E b \in Browsers, login \in 1 .. Len(started) : CallbackRefused(b, login)
  BY <1>4, RefusedKeeps DEF Begun
<1>5. CASE \E v \in Visits : Settles(v) \/ Abandon(v)
  BY <1>5, SettlesKeeps
<1>6. CASE AtUpstream
  BY <1>6, AtUpstreamKeeps
<1>7. CASE Elapse
  BY <1>7, TimeKeeps
<1> QED
  BY <1>1, <1>2, <1>3, <1>4, <1>5, <1>6, <1>7 DEF Move

\* Every step of the gate keeps the invariant, a restart included.
LEMMA GInvNext == GInv /\ [Next]_vars => GInv'
<1> SUFFICES ASSUME GInv, [Next]_vars PROVE GInv'
  OBVIOUS
<1>1. CASE UNCHANGED vars
  <2>1. WorldType'
    BY <1>1, Parts DEF vars, WorldType
  <2> QED
    BY <1>1, <2>1, AloneKeeps DEF vars, GInv, HistoryTraced
<1> QED
  BY <1>1, MoveKeeps, TimeKeeps, RestartKeeps DEF Next

\* The invariant of the gate: every cookie, visit and session goes back to a login its
\* browser began with the process whose key sealed it.
THEOREM GInvAlways == Spec => []GInv
<1> QED
  BY GInvInit, GInvNext, PTL DEF Spec

\* Every variable of the gate keeps its type.
THEOREM GateTyped == Spec => []TypeOK
<1>1. GInv => TypeOK
  BY DEF GInv
<1> QED
  BY <1>1, GInvAlways, PTL

\* A browser is let through only for an admitted tester who logged in upstream for a login
\* that this browser began with this process.
THEOREM SessionsAreOwn == Spec => []SessionIsOwnLogin
<1>1. GInv => SessionIsOwnLogin
  <2> SUFFICES ASSUME GInv, NEW b \in Browsers, Session(b) # None
               PROVE  /\ Session(b) \in Admitted
                      /\ \E login \in 1 .. Len(started) :
                           /\ started[login].browser = b
                           /\ started[login].boot = boots
                           /\ [login |-> login, sub |-> Session(b)] \in asserted
    BY DEF SessionIsOwnLogin
  <2>1. gateCookie[b] # None /\ Opens(gateCookie[b]) /\ Session(b) = gateCookie[b].sub
    BY DEF Session
  <2> QED
    BY <2>1 DEF GInv, SessionsTraced, Opens, Begun
<1> QED
  BY <1>1, GInvAlways, PTL

\* The cookie of a login stays with its browser until that login's callback is answered.
THEOREM TabsKeep == Spec => []TabsKeepTheirLogin
<1>1. GInv => TabsKeepTheirLogin
  BY DEF GInv
<1> QED
  BY <1>1, GInvAlways, PTL

\* A callback whose cookie opens finds the discovery document cached.
THEOREM CallbacksFindDiscovery == Spec => []CallbackFindsDiscovery
<1>1. GInv => CallbackFindsDiscovery
  BY DEF GInv, CookiesTraced, CallbackFindsDiscovery, Opens
<1> QED
  BY <1>1, GInvAlways, PTL

----------------------------------------------------------------------------
(* Every wait ends *)

\* How far a request is: its code is being exchanged, the ID token is on its way, then the
\* JWKS is asked for, and then it waits for its last answer.
Redeeming(v) == Waiting(v, "exchange") /\ visits[v].token = None
Redeemed(v) == Waiting(v, "exchange") /\ visits[v].token # None
Asking(v) == Waiting(v, "jwks") /\ visits[v].doc = None
Finishing(v) == Waiting(v, "discover") \/ (Waiting(v, "jwks") /\ visits[v].doc # None)
Done(v) == visits[v] = Idle

\* An answer takes a request further.
LEMMA SettlesAdvances ==
  ASSUME GInv, NEW v \in Visits, Settles(v)
  PROVE  /\ Redeeming(v) => Redeemed(v)' \/ Done(v)'
         /\ Redeemed(v) => Asking(v)' \/ Finishing(v)' \/ Done(v)'
         /\ Asking(v) => Finishing(v)' \/ Done(v)'
         /\ Finishing(v) => Done(v)'
<1>1. visits \in [Visits -> Visit \cup {Idle}] /\ published \in SUBSET Key
  BY DEF GInv, TypeOK, ClientTypeOK
<1>2. End(v) => Done(v)'
  BY <1>1 DEF End, Done
<1>3. CASE \/ LoginAfterDiscovery(v) \/ NoLoginAfterDiscovery(v)
           \/ ExchangeFailed(v) \/ JwksFails(v) \/ JwksArrives(v)
  BY <1>2, <1>3 DEF LoginAfterDiscovery, NoLoginAfterDiscovery, DiscoveryFails, ExchangeFailed,
     JwksFails, JwksArrives, Conclude
<1>4. CASE ExchangeServed(v)
  <2>1. /\ visits[v] # Idle /\ visits[v].step = "exchange" /\ visits[v].token = None
        /\ visits' = [visits EXCEPT ![v].token = TokenFor(visits[v].code)]
    BY <1>4 DEF ExchangeServed, ServeExchange, Waiting
  <2>2. visits[v] \in Visit /\ visits[v].code \in asserted
    BY <2>1, Waits
  <2>3. /\ visits'[v].step = "exchange" /\ visits'[v].token # None
    BY <1>1, <2>1, <2>2, TokenType DEF Visit
  <2> QED
    BY <2>1, <2>3 DEF Redeeming, Redeemed, Asking, Finishing, Done, Waiting
<1>5. CASE ExchangeAnswered(v)
  <2> DEFINE token == visits[v].token
  <2>1. /\ visits[v] # Idle /\ visits[v].step = "exchange" /\ token # None
        /\ \/ Conclude(v, token, CachedKey(keys, KidOf(token.key)))
           \/ visits' = [visits EXCEPT ![v].step = "jwks"]
    BY <1>5 DEF ExchangeAnswered, Waiting
  <2>2. CASE Conclude(v, token, CachedKey(keys, KidOf(token.key)))
    BY <1>2, <2>1, <2>2 DEF Conclude, Redeeming, Asking, Finishing, Waiting
  <2>3. CASE visits' = [visits EXCEPT ![v].step = "jwks"]
    <3>1. visits'[v].step = "jwks"
      BY <1>1, <2>1, <2>3 DEF Visit
    <3> QED
      BY <2>1, <3>1 DEF Redeeming, Asking, Finishing, Done, Waiting
  <2> QED
    BY <2>1, <2>2, <2>3
<1>6. CASE JwksServed(v)
  <2>1. /\ visits[v] \in Visit /\ visits[v].step = "jwks" /\ visits[v].doc = None
        /\ visits' = [visits EXCEPT ![v].doc = published]
    BY <1>1, <1>6 DEF JwksServed, ServeJwks, Waiting
  <2>2. /\ visits'[v].step = "jwks" /\ visits'[v].doc = published /\ published # None
    BY <1>1, <2>1, UpstreamAssumption DEF Visit
  <2> QED
    BY <2>1, <2>2 DEF Redeeming, Redeemed, Asking, Finishing, Done, Waiting
<1> QED
  BY <1>3, <1>4, <1>5, <1>6 DEF Settles

\* Nothing but its own answer, its browser or a restart moves a request that waits.
LEMMA WaitsStay ==
  ASSUME GInv, [Next]_vars, NEW v \in Visits, ~Done(v), ~Settles(v)
  PROVE  visits'[v] = visits[v] \/ Done(v)'
<1>1. visits \in [Visits -> Visit \cup {Idle}]
  BY DEF GInv, TypeOK, ClientTypeOK
<1>2. ASSUME NEW w \in Visits, NEW new, visits' = [visits EXCEPT ![w] = new],
             w # v \/ new = Idle
      PROVE  visits'[v] = visits[v] \/ Done(v)'
  BY <1>1, <1>2 DEF Done
<1>3. CASE UNCHANGED visits
  BY <1>3
<1>4. CASE Restart
  BY <1>4 DEF Restart, ClientRestart, Done
<1>5. CASE \E w \in Visits, b \in Browsers : BeginDiscovery(w, b)
  BY <1>2, <1>5 DEF BeginDiscovery, FetchDiscovery, Done
<1>6. CASE \E w \in Visits, b \in Browsers, login \in 1 .. Len(started), code \in asserted :
             Callback(w, b, login, code)
  BY <1>2, <1>6 DEF Callback, Done
<1>7. CASE \E w \in Visits : Abandon(w)
  BY <1>2, <1>7 DEF Abandon, End
<1>8. ASSUME NEW w \in Visits, Settles(w) PROVE visits'[v] = visits[v] \/ Done(v)'
  <2>1. PICK new : visits' = [visits EXCEPT ![w] = new]
    <3>1. CASE End(w)
      BY <3>1 DEF End
    <3>2. CASE JwksServed(w) \/ ExchangeServed(w)
      BY <3>2 DEF JwksServed, ServeJwks, ExchangeServed, ServeExchange
    <3>3. CASE ExchangeAnswered(w)
      BY <3>3 DEF ExchangeAnswered, Conclude, End
    <3> QED
      BY <1>8, <3>1, <3>2, <3>3 DEF Settles, LoginAfterDiscovery, NoLoginAfterDiscovery,
         DiscoveryFails, ExchangeFailed, JwksFails, JwksArrives, Conclude
  <2> QED
    BY <1>2, <1>8, <2>1
<1>9. CASE Move
  BY <1>3, <1>5, <1>6, <1>7, <1>8, <1>9
  DEF Move, StartLogin, SomeoneVisits, CallbackRefused, AtUpstream, Elapse
<1> QED
  BY <1>3, <1>4, <1>9 DEF Next, Tick, vars

\* If the HTTP client is fair and every wait can end, every request that waits for the
\* upstream is answered or given up, whatever else goes on meanwhile.  (That every wait can
\* end follows from the definition of Settles: a fetch may fail at any time.)
THEOREM VisitsEnd == FairSpec /\ []EveryWaitCanEnd => EveryVisitEnds
<1>1. ASSUME NEW v \in Visits PROVE FairSpec /\ []EveryWaitCanEnd => (~Done(v) ~> Done(v))
  <2>1. FairSpec => Spec /\ WaitEnds(v)
    <3>1. WaitsEnd => WaitEnds(v)
      BY DEF WaitsEnd
    <3> QED
      BY <3>1, PTL DEF FairSpec
  <2>2. EveryWaitCanEnd => Done(v) \/ ENABLED <<Settles(v)>>_vars
    BY DEF EveryWaitCanEnd, Done
  <2>3. GInv /\ ~Done(v) => Redeeming(v) \/ Redeemed(v) \/ Asking(v) \/ Finishing(v)
    BY DEF GInv, TypeOK, ClientTypeOK, Visit, Redeeming, Redeemed, Asking, Finishing, Done,
       Waiting
  <2>4. GInv /\ [Next]_vars /\ ~Settles(v) =>
          /\ Redeeming(v) => Redeeming(v)' \/ Done(v)'
          /\ Redeemed(v) => Redeemed(v)' \/ Done(v)'
          /\ Asking(v) => Asking(v)' \/ Done(v)'
          /\ Finishing(v) => Finishing(v)' \/ Done(v)'
    BY WaitsStay DEF Redeeming, Redeemed, Asking, Finishing, Done, Waiting
  <2>5. GInv /\ Settles(v) =>
          /\ Redeeming(v) => Redeemed(v)' \/ Done(v)'
          /\ Redeemed(v) => Asking(v)' \/ Finishing(v)' \/ Done(v)'
          /\ Asking(v) => Finishing(v)' \/ Done(v)'
          /\ Finishing(v) => Done(v)'
    BY SettlesAdvances
  <2> QED
    BY <2>1, <2>2, <2>3, <2>4, <2>5, GInvAlways, PTL DEF Spec, WaitEnds
<1>2. ASSUME NEW v \in Visits
      PROVE  FairSpec /\ []EveryWaitCanEnd => (visits[v] # Idle ~> visits[v] = Idle)
  <2>1. (visits[v] # Idle <=> ~Done(v)) /\ (visits[v] = Idle <=> Done(v))
    BY DEF Done
  <2> QED
    BY <1>1, <2>1, PTL
<1> QED
  BY <1>2 DEF EveryVisitEnds
=============================================================================
