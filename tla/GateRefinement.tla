--------------------------- MODULE GateRefinement ---------------------------
(***************************************************************************)
(* Proof that the upstream gate implements GateLifecycle.                  *)
(***************************************************************************)
EXTENDS GateProofs

----------------------------------------------------------------------------
(* Codes *)

\* Is a code still good for coming in?
Good(code) == code \in codes \/ Held(code)

\* A code is redeemed once, and one callback at most holds the ID token for it.
RedeemedOnce ==
    /\ \A v \in Visits : Holding(v) => /\ visits[v].step # "discover"
                                       /\ visits[v].code \notin codes
    /\ \A v, w \in Visits :
         Holding(v) /\ Holding(w) /\ visits[v].code = visits[w].code => v = w

\* A step spends no code, or one.
NoneSpent == \A c \in asserted : Good(c)' <=> Good(c)
OneSpent == \E code \in asserted : \A c \in asserted : Good(c)' <=> Good(c) /\ c # code
CodesMove == RedeemedOnce' /\ (NoneSpent \/ OneSpent)

\* Who waits does not idle.
LEMMA VisitNotIdle == \A visit \in Visit : visit # Idle
BY UpstreamAssumption DEF Idle

\* What a step of one request leaves to hold a code.
LEMMA HeldNext ==
  ASSUME GInv, NEW v \in Visits, NEW new, visits' = [visits EXCEPT ![v] = new], NEW c
  PROVE  /\ visits'[v] = new
         /\ \A w \in Visits \ {v} : visits'[w] = visits[w]
         /\ Held(c)' <=> \/ \E w \in Visits \ {v} : Holding(w) /\ visits[w].code = c
                         \/ new # Idle /\ new.token # None /\ new.code = c
<1>1. /\ visits'[v] = new
      /\ \A w \in Visits \ {v} : visits'[w] = visits[w]
  BY DEF GInv, TypeOK, ClientTypeOK
<1>2. Held(c)' <=> \E w \in Visits : /\ visits'[w] # Idle /\ visits'[w].token # None
                                     /\ visits'[w].code = c
  BY DEF Held, Holding
<1> QED
  BY <1>1, <1>2 DEF Holding

\* A request that ends holds no code any more, and the others hold theirs.
LEMMA HeldEnd ==
  ASSUME GInv, NEW v \in Visits, End(v), NEW c
  PROVE  Held(c)' <=> \E w \in Visits \ {v} : Holding(w) /\ visits[w].code = c
<1>1. visits'[v] = Idle /\ \A w \in Visits \ {v} : visits'[w] = visits[w]
  BY DEF End, GInv, TypeOK, ClientTypeOK
<1>2. Held(c)' <=> \E w \in Visits : /\ visits'[w] # Idle /\ visits'[w].token # None
                                     /\ visits'[w].code = c
  BY DEF Held, Holding
<1> QED
  BY <1>1, <1>2 DEF Holding

\* Neither codes nor requests change.
LEMMA CodesStay ==
  ASSUME RedeemedOnce, codes' = codes, visits' = visits
  PROVE  CodesMove
BY DEF CodesMove, NoneSpent, Good, Held, Holding, RedeemedOnce

\* A request begins or waits on, with the ID token it has, if it has one.
LEMMA CodesWait ==
  ASSUME GInv, RedeemedOnce, codes' = codes, NEW v \in Visits, NEW new, new # Idle,
         visits' = [visits EXCEPT ![v] = new],
         new.token # None <=> Holding(v),
         new.token # None => new.code = visits[v].code /\ new.step # "discover"
  PROVE  CodesMove
<1>1. ASSUME NEW c PROVE Held(c)' <=> Held(c)
  <2>1. Held(c)' <=> \/ \E w \in Visits \ {v} : Holding(w) /\ visits[w].code = c
                     \/ new.token # None /\ new.code = c
    BY HeldNext DEF Held, Holding
  <2>2. new.token # None /\ new.code = c <=> Holding(v) /\ visits[v].code = c
    OBVIOUS
  <2> QED
    BY <2>1, <2>2 DEF Held
<1>2. \A w \in Visits : /\ Holding(w)' <=> Holding(w)
                        /\ Holding(w) => /\ visits'[w].code = visits[w].code
                                         /\ visits[w].step # "discover" =>
                                              visits'[w].step # "discover"
  BY HeldNext DEF Holding
<1>3. RedeemedOnce'
  BY <1>2 DEF RedeemedOnce
<1> QED
  BY <1>1, <1>3 DEF CodesMove, NoneSpent, Good

\* A request ends; its code may be spent with it.
LEMMA CodesEnd ==
  ASSUME GInv, RedeemedOnce, NEW v \in Visits, visits[v] # Idle, End(v),
         \/ codes' = codes
         \/ visits[v].step # "discover" /\ codes' = codes \ {visits[v].code}
  PROVE  /\ CodesMove
         /\ Holding(v) \/ codes' # codes =>
              /\ Good(visits[v].code)
              /\ \A c \in asserted : Good(c)' <=> Good(c) /\ c # visits[v].code
<1> DEFINE code == visits[v].code
<1>1. \A c : Held(c)' <=> \E w \in Visits \ {v} : Holding(w) /\ visits[w].code = c
  BY HeldEnd
<1>2. \A w \in Visits : Holding(w)' => w # v /\ Holding(w) /\ visits'[w] = visits[w]
  BY HeldNext DEF End, Holding
<1>3. RedeemedOnce'
  BY <1>2 DEF RedeemedOnce
<1>4. CASE Holding(v)
  <2>1. code \notin codes /\ visits[v].step # "discover"
    BY <1>4 DEF RedeemedOnce
  <2>2. code \in asserted /\ codes' = codes
    BY <2>1, Waits
  <2>3. \A c : Held(c)' <=> Held(c) /\ c # code
    BY <1>1, <1>4 DEF Held, RedeemedOnce
  <2>4. Good(code) /\ \A c \in asserted : Good(c)' <=> Good(c) /\ c # code
    BY <1>4, <2>1, <2>2, <2>3 DEF Good, Held
  <2> QED
    BY <1>3, <2>2, <2>4 DEF CodesMove, OneSpent
<1>5. CASE ~Holding(v)
  <2>1. \A c : Held(c)' <=> Held(c)
    BY <1>1, <1>5 DEF Held
  <2>2. CASE codes' = codes
    BY <1>3, <1>5, <2>1, <2>2 DEF CodesMove, NoneSpent, Good
  <2>3. CASE codes' # codes
    <3>1. code \in asserted /\ code \in codes /\ codes' = codes \ {code}
      BY <2>3, Waits
    <3>2. ~Held(code)
      BY <3>1 DEF Held, RedeemedOnce
    <3>3. Good(code) /\ \A c \in asserted : Good(c)' <=> Good(c) /\ c # code
      BY <2>1, <3>1, <3>2 DEF Good
    <3> QED
      BY <1>3, <3>1, <3>3 DEF CodesMove, OneSpent
  <2> QED
    BY <2>2, <2>3
<1> QED
  BY <1>4, <1>5

\* A request that waits for the discovery document holds no code.
LEMMA DiscoverEnds ==
  ASSUME GInv, RedeemedOnce, NEW v \in Visits, visits[v] # Idle, visits[v].step = "discover",
         End(v), codes' = codes
  PROVE  RedeemedOnce' /\ \A c \in asserted : Good(c)' <=> Good(c)
<1>1. ~Holding(v)
  BY DEF RedeemedOnce
<1>2. \A c : Held(c)' <=> \E w \in Visits \ {v} : Holding(w) /\ visits[w].code = c
  BY HeldEnd
<1>3. \A c : Held(c)' <=> Held(c)
  BY <1>1, <1>2 DEF Held
<1> QED
  BY <1>3, CodesEnd DEF CodesMove, Good

\* The upstream redeems the code of a request, which then holds the ID token for it.
LEMMA CodesRedeemed ==
  ASSUME GInv, RedeemedOnce, NEW v \in Visits, ~Holding(v), NEW new, new # Idle,
         visits' = [visits EXCEPT ![v] = new], new.step # "discover", new.token # None,
         new.code = visits[v].code,
         visits[v].code \in codes, codes' = codes \ {visits[v].code}
  PROVE  CodesMove
<1> DEFINE code == visits[v].code
<1>1. /\ visits'[v] = new
      /\ \A w \in Visits \ {v} : visits'[w] = visits[w]
  BY HeldNext
<1>2. ASSUME NEW c PROVE Held(c)' <=> Held(c) \/ c = code
  <2>1. Held(c)' <=> \E w \in Visits : /\ visits'[w] # Idle /\ visits'[w].token # None
                                       /\ visits'[w].code = c
    BY DEF Held, Holding
  <2>2. Held(c) <=> \E w \in Visits \ {v} : Holding(w) /\ visits[w].code = c
    BY DEF Held
  <2> QED
    BY <1>1, <2>1, <2>2 DEF Holding
<1>3. ~Held(code)
  BY DEF Held, RedeemedOnce
<1>4. RedeemedOnce'
  BY <1>1, <1>3 DEF RedeemedOnce, Held, Holding
<1> QED
  BY <1>2, <1>4 DEF CodesMove, NoneSpent, Good

----------------------------------------------------------------------------
(* Steps of GateLifecycle *)

\* The variables of GateLifecycle, as functions of the gate's.
BegunBar == {[login |-> n, browser |-> started[n].browser] :
               n \in {m \in DOMAIN started : Ours(m)}}
VouchedBar == {c \in asserted : Ours(c.login)}
UsedBar == {c \in asserted : Ours(c.login) /\ c \notin codes /\ ~Held(c)}
InsideBar == [b \in Browsers |->
                IF Session(b) = None THEN None
                ELSE [sub |-> Session(b), until |-> gateCookie[b].exp]]

\* A browser begins a login.
LEMMA BeginBar ==
  ASSUME NEW l, l.browser \in Browsers, l \notin BegunBar, \A m \in BegunBar : m.login # l.login,
         BegunBar' = BegunBar \cup {l}, now' = now, VouchedBar' = VouchedBar,
         UsedBar' = UsedBar, InsideBar' = InsideBar
  PROVE  Life!GateNext
BY DEF Life!GateNext, Life!Begin, BegunBar, VouchedBar, UsedBar, InsideBar

\* The upstream vouches for a tester in a login.
LEMMA VouchBar ==
  ASSUME NEW l \in BegunBar, NEW sub \in Testers, Life!Voucher(l, sub) \notin VouchedBar,
         VouchedBar' = VouchedBar \cup {Life!Voucher(l, sub)},
         now' = now, BegunBar' = BegunBar, UsedBar' = UsedBar, InsideBar' = InsideBar
  PROVE  Life!GateNext
BY DEF Life!GateNext, Life!Vouch, BegunBar, VouchedBar, UsedBar, InsideBar

\* A browser is let in for a tester vouched for, or it is not.
LEMMA UseBar ==
  ASSUME NEW l \in BegunBar, NEW sub \in Testers, Life!Voucher(l, sub) \in VouchedBar \ UsedBar,
         UsedBar' = UsedBar \cup {Life!Voucher(l, sub)},
         \/ InsideBar' = InsideBar
         \/ /\ sub \in Admitted
            /\ InsideBar' = [InsideBar EXCEPT ![l.browser] = Life!Session(sub)],
         now' = now, BegunBar' = BegunBar, VouchedBar' = VouchedBar
  PROVE  Life!GateNext
<1>1. Life!Use(l, sub)
  BY DEF Life!Use, BegunBar, VouchedBar, UsedBar
<1>2. Life!Enter(l, sub) \/ Life!Waste(l, sub)
  BY <1>1 DEF Life!Enter, Life!Waste, InsideBar
<1> QED
  BY <1>2 DEF Life!GateNext, BegunBar

\* Time passes, and sessions end at their time.
LEMMA PassBar ==
  ASSUME now' = now + 1, BegunBar' = BegunBar, VouchedBar' = VouchedBar, UsedBar' = UsedBar,
         InsideBar' = [b \in Browsers |-> IF InsideBar[b] # None /\ InsideBar[b].until > now'
                                          THEN InsideBar[b] ELSE None]
  PROVE  Life!GateNext
BY DEF Life!GateNext, Life!Pass, BegunBar, VouchedBar, UsedBar, InsideBar

\* A restart forgets who began, who was vouched for and who is inside.
LEMMA ForgetBar ==
  ASSUME now' = now, BegunBar' = {}, VouchedBar' = {}, UsedBar' = {},
         InsideBar' = [b \in Browsers |-> None]
  PROVE  Life!GateNext
BY DEF Life!GateNext, Life!Forget, Life!Nobody, BegunBar, VouchedBar, UsedBar, InsideBar

\* Nothing GateLifecycle is about changes.
LEMMA StutterBar ==
  ASSUME now' = now, BegunBar' = BegunBar, VouchedBar' = VouchedBar, UsedBar' = UsedBar,
         InsideBar' = InsideBar
  PROVE  UNCHANGED Life!gateVars
BY DEF Life!gateVars, BegunBar, VouchedBar, UsedBar, InsideBar

\* A step of the gate is one of GateLifecycle, or none.
Implements == Life!GateNext \/ UNCHANGED Life!gateVars

\* The logins begun are the entries of the history.
LEMMA Entries == ASSUME started \in Seq(Started) PROVE DOMAIN started = Begun
BY DEF Begun

\* Who is inside depends on the gate cookies, the clock and the process.
LEMMA InsideSame ==
  ASSUME now' = now, boots' = boots, gateCookie' = gateCookie
  PROVE  InsideBar' = InsideBar
BY DEF InsideBar, Session, Opens

\* What was vouched for depends on the logins done and who began them.
LEMMA VouchedSame ==
  ASSUME GInv, Grows, boots' = boots, asserted' = asserted
  PROVE  VouchedBar' = VouchedBar
<1>1. \A code \in asserted : started'[code.login].boot = started[code.login].boot
  BY DEF GInv, HistoryTraced, Grows
<1> QED
  BY <1>1 DEF VouchedBar, Ours

\* What is used up is what was vouched for and is not good.
LEMMA UsedIs == /\ UsedBar = {c \in VouchedBar : ~Good(c)}
                /\ UsedBar' = {c \in VouchedBar' : ~Good(c)'}
BY DEF UsedBar, VouchedBar, Good

\* What was vouched for was so for a login begun.
LEMMA VoucherOf ==
  ASSUME GInv, NEW c \in VouchedBar
  PROVE  /\ c.login \in Begun /\ c.sub \in Testers
         /\ [login |-> c.login, browser |-> started[c.login].browser] \in BegunBar
         /\ c = [login |-> c.login, sub |-> c.sub]
<1>1. c \in Code /\ c.login \in Begun /\ Ours(c.login)
  BY DEF VouchedBar, GInv, TypeOK, ClientTypeOK, HistoryTraced
<1>2. DOMAIN started = Begun
  BY Entries DEF GInv, TypeOK
<1> QED
  BY <1>1, <1>2 DEF BegunBar, Code

\* Who began a login depends on the history of this process.
LEMMA BegunSame ==
  ASSUME GInv, Grows, boots' = boots, started' \in Seq(Started), Begun' = Begun
  PROVE  BegunBar' = BegunBar
<1>1. DOMAIN started = Begun /\ DOMAIN started' = Begun
  BY Entries DEF GInv, TypeOK, Begun
<1>2. {n \in DOMAIN started' : Ours(n)'} = {n \in DOMAIN started : Ours(n)}
  BY <1>1 DEF Ours, Grows
<1> QED
  BY <1>1, <1>2 DEF BegunBar, Ours, Grows

\* A code that is spent was vouched for, and comes to nothing.
LEMMA Spent ==
  ASSUME GInv, NEW code \in VouchedBar \ UsedBar, UsedBar' = UsedBar \cup {code},
         now' = now, BegunBar' = BegunBar, VouchedBar' = VouchedBar,
         \/ InsideBar' = InsideBar
         \/ /\ code.sub \in Admitted
            /\ InsideBar' = [InsideBar EXCEPT ![started[code.login].browser] =
                               Life!Session(code.sub)]
  PROVE  Life!GateNext
<1>1. PICK l \in BegunBar : l = [login |-> code.login, browser |-> started[code.login].browser]
  BY VoucherOf
<1>2. l.browser = started[code.login].browser /\ Life!Voucher(l, code.sub) = code
  BY <1>1, VoucherOf DEF Life!Voucher
<1> QED
  BY <1>2, VoucherOf, UseBar

\* A step that begins no login and lets nobody in, and spends one code at most.
LEMMA Quiet ==
  ASSUME GInv, Grows, started' \in Seq(Started), Begun' = Begun, CodesMove,
         UNCHANGED <<now, boots, gateCookie, asserted>>
  PROVE  Implements
<1>1. InsideBar' = InsideBar /\ VouchedBar' = VouchedBar /\ BegunBar' = BegunBar
  BY InsideSame, VouchedSame, BegunSame
<1>2. CASE UsedBar' = UsedBar
  BY <1>1, <1>2, StutterBar DEF Implements
<1>3. CASE UsedBar' # UsedBar
  <2>1. PICK code \in VouchedBar : code \notin UsedBar /\ UsedBar' = UsedBar \cup {code}
    BY <1>1, <1>3, UsedIs DEF CodesMove, NoneSpent, OneSpent, VouchedBar
  <2> QED
    BY <1>1, <2>1, Spent DEF Implements
<1> QED
  BY <1>2, <1>3

\* A step that leaves cookies, history and vouchers alone.
LEMMA Still ==
  ASSUME GInv, CodesMove, UNCHANGED <<now, boots, gateCookie, asserted, started>>
  PROVE  Implements
<1>1. Grows /\ Begun' = Begun /\ started' \in Seq(Started)
  BY DEF Grows, Begun, GInv, TypeOK
<1> QED
  BY <1>1, Quiet

\* The redirect upstream is Begin.
LEMMA SendImplements ==
  ASSUME GInv, NEW b \in Browsers, SendUpstream(b), meta', UNCHANGED <<now, boots, asserted>>,
         \A c \in asserted : Good(c)' <=> Good(c)
  PROVE  Implements
<1> DEFINE login == Len(started) + 1
           entry == [browser |-> b, boot |-> boots, answered |-> FALSE]
           l == [login |-> login, browser |-> b]
<1>1. Grows /\ started' \in Seq(Started)
  BY SendKeeps
<1>2. InsideBar' = InsideBar /\ VouchedBar' = VouchedBar
  BY <1>1, InsideSame, VouchedSame DEF SendUpstream
<1>3. UsedBar' = UsedBar
  BY <1>2, UsedIs DEF VouchedBar
<1>4. started \in Seq(Started) /\ Len(started) \in Nat /\ boots \in Nat
  BY DEF GInv, TypeOK, ClientTypeOK
<1>5. entry \in Started /\ started' = Append(started, entry)
  BY <1>4 DEF SendUpstream, Started
<1>6. /\ DOMAIN started = Begun /\ DOMAIN started' = Begun \cup {login}
      /\ started'[login] = entry /\ \A n \in Begun : started'[n] = started[n]
  BY <1>4, <1>5 DEF Begun
<1>7. {n \in DOMAIN started' : Ours(n)'} = {n \in DOMAIN started : Ours(n)} \cup {login}
  BY <1>6 DEF Ours
<1>8. BegunBar' = BegunBar \cup {l}
  <2> SUFFICES ASSUME NEW x PROVE x \in BegunBar' <=> x \in BegunBar \/ x = l
    OBVIOUS
  <2>1. x \in BegunBar' <=> \E n \in DOMAIN started' :
                              Ours(n)' /\ x = [login |-> n, browser |-> started'[n].browser]
    BY DEF BegunBar, Ours
  <2>2. x \in BegunBar <=> \E n \in DOMAIN started :
                             Ours(n) /\ x = [login |-> n, browser |-> started[n].browser]
    BY DEF BegunBar
  <2> QED
    BY <1>6, <2>1, <2>2 DEF Ours
<1>9. \A m \in BegunBar : m.login # l.login
  <2>1. \A n \in DOMAIN started : n # login
    BY <1>4, <1>6 DEF Begun
  <2> QED
    BY <2>1 DEF BegunBar
<1>10. l.browser \in Browsers
  OBVIOUS
<1> HIDE DEF l
<1> QED
  BY <1>2, <1>3, <1>8, <1>9, <1>10, BeginBar DEF Implements

\* An error page for a login spends a code at most.
LEMMA RefuseImplements ==
  ASSUME GInv, CodesMove, NEW b \in Browsers, NEW login \in Begun, started[login].browser = b,
         Refuse(b, login), UNCHANGED <<now, boots, meta, asserted>>
  PROVE  Implements
BY AnswerKeeps, Quiet DEF Refuse

\* The end of a callback is Enter when it lets the tester in, and else Waste.
LEMMA ConcludeImplements ==
  ASSUME GInv, NEW v \in Visits, NEW token \in IdToken, NEW key,
         visits[v] # Idle, visits[v].step # "discover",
         token.sub = visits[v].code.sub, token.nonce = visits[v].code.login,
         Conclude(v, token, key), UNCHANGED <<now, boots, meta, asserted, codes>>,
         RedeemedOnce, Holding(v)
  PROVE  Implements
<1> DEFINE login == visits[v].login
           code == visits[v].code
<1> PICK b \in Browsers : b = visits[v].browser
  BY Waits
<1>1. /\ login \in Begun /\ started[login].browser = b
      /\ started[login].boot = boots /\ code \in asserted
  BY Waits
<1>2. /\ CodesMove
      /\ Good(code) /\ \A c \in asserted : Good(c)' <=> Good(c) /\ c # code
  BY CodesEnd DEF Conclude
<1>3. CASE LetsIn(token, login, key)
  <2> DEFINE cookie == [sub |-> token.sub, boot |-> boots, exp |-> now + SessionTtl]
  <2>1. AnswerLogin(b, login) /\ gateCookie' = [gateCookie EXCEPT ![b] = cookie]
    BY <1>3 DEF Conclude
  <2>2. token.sub \in Admitted /\ token.sub \in Testers /\ token.nonce = login
    BY <1>3, GateAssumption DEF LetsIn, Verified
  <2>3. Grows /\ started' \in Seq(Started) /\ Begun' = Begun
    BY <1>1, <2>1, AnswerKeeps
  <2>4. BegunBar' = BegunBar /\ VouchedBar' = VouchedBar
    BY <2>3, BegunSame, VouchedSame
  <2>5. code \in VouchedBar \ UsedBar /\ UsedBar' = UsedBar \cup {code}
    <3>1. code \in VouchedBar
      BY <1>1, <2>2 DEF VouchedBar, Ours
    <3>2. \A c \in VouchedBar : Good(c)' <=> Good(c) /\ c # code
      BY <1>2 DEF VouchedBar
    <3> HIDE DEF code
    <3> QED
      BY <1>2, <2>4, <3>1, <3>2, UsedIs
  <2>6. InsideBar' = [InsideBar EXCEPT ![b] = Life!Session(token.sub)]
    <3>1. /\ gateCookie \in [Browsers -> GateCookie \cup {None}] /\ now \in Nat
      BY DEF GInv, TypeOK, ClientTypeOK
    <3>2. token.sub # None /\ cookie # None
      BY <2>2, <3>1, UpstreamAssumption, GateAssumption DEF GInv, TypeOK, ClientTypeOK, GateCookie
    <3>3. /\ Session(b)' = IF SessionTtl = 0 THEN None ELSE token.sub
          /\ gateCookie'[b].exp = now + SessionTtl
      <4>1. gateCookie'[b] = cookie
        BY <1>1, <2>1, <3>1
      <4>2. /\ gateCookie'[b].boot = boots' /\ (gateCookie'[b].exp > now' <=> SessionTtl # 0)
            /\ gateCookie'[b].sub = token.sub /\ gateCookie'[b].exp = now + SessionTtl
        BY <3>1, <4>1, GateAssumption
      <4>3. gateCookie'[b] # None
        BY <3>2, <4>1
      <4> QED
        BY <4>2, <4>3 DEF Session, Opens
    <3>4. \A x \in Browsers \ {b} : Session(x)' = Session(x) /\ gateCookie'[x] = gateCookie[x]
      BY <2>1, <3>1 DEF Session, Opens
    <3> DEFINE session == Life!Session(token.sub)
               new == [InsideBar EXCEPT ![b] = session]
    <3>5. new = [x \in Browsers |-> IF x = b THEN session ELSE InsideBar[x]]
      BY DEF InsideBar
    <3>6. \A x \in Browsers : (IF Session(x)' = None THEN None
                               ELSE [sub |-> Session(x)', until |-> gateCookie'[x].exp])
                              = (IF x = b THEN session ELSE InsideBar[x])
      BY <3>2, <3>3, <3>4 DEF InsideBar, Life!Session
    <3> QED
      BY <3>5, <3>6 DEF InsideBar
  <2> QED
    <3>1. started[code.login].browser = b /\ code.sub = token.sub
      BY <1>1, <2>2
    <3> HIDE DEF code
    <3> QED
      BY <2>2, <2>4, <2>5, <2>6, <3>1, Spent DEF Implements
<1>4. CASE ~LetsIn(token, login, key)
  <2>1. Refuse(b, login)
    BY <1>4 DEF Conclude
  <2> QED
    BY <1>1, <1>2, <2>1, RefuseImplements
<1> QED
  BY <1>3, <1>4

\* A login at the upstream is Vouch when its process is ours.
LEMMA LogInImplements ==
  ASSUME GInv, NEW login \in Begun, NEW sub \in Testers, LogInUpstream(login, sub),
         UNCHANGED <<now, boots, gateCookie, started, visits>>
  PROVE  Implements
<1> DEFINE code == [login |-> login, sub |-> sub]
           l == [login |-> login, browser |-> started[login].browser]
<1>1. /\ asserted' = asserted \cup {code} /\ code \notin asserted
      /\ codes' = codes \cup {code}
  BY DEF LogInUpstream
<1>2. Grows /\ Begun' = Begun /\ started' \in Seq(Started)
  BY DEF Grows, Begun, GInv, TypeOK
<1>3. BegunBar' = BegunBar /\ InsideBar' = InsideBar
  BY <1>2, BegunSame, InsideSame
<1>4. \A c \in asserted : Good(c)' <=> Good(c)
  BY <1>1 DEF Good, Held, Holding
<1>5. Good(code)'
  BY <1>1 DEF Good
<1>6. code.login = login /\ Life!Voucher(l, sub) = code
  BY DEF Life!Voucher
<1>7. Ours(login) => l \in BegunBar
  BY Entries DEF BegunBar, GInv, TypeOK
<1> HIDE DEF code, l
<1>8. VouchedBar' = VouchedBar \cup {c \in {code} : Ours(c.login)}
  BY <1>1 DEF VouchedBar, Ours
<1>9. UsedBar' = UsedBar
  BY <1>4, <1>5, <1>8, UsedIs DEF VouchedBar
<1>10. CASE Ours(login)
  <2>1. VouchedBar' = VouchedBar \cup {code} /\ code \notin VouchedBar
    BY <1>1, <1>6, <1>8, <1>10 DEF VouchedBar
  <2> QED
    BY <1>3, <1>6, <1>7, <1>9, <1>10, <2>1, VouchBar DEF Implements
<1>11. CASE ~Ours(login)
  <2>1. VouchedBar' = VouchedBar
    BY <1>6, <1>8, <1>11
  <2> QED
    BY <1>3, <1>9, <2>1, StutterBar DEF Implements
<1> QED
  BY <1>10, <1>11

\* It spends no code.
LEMMA LogInCodes ==
  ASSUME GInv, RedeemedOnce, NEW login, NEW sub, LogInUpstream(login, sub), visits' = visits
  PROVE  RedeemedOnce'
<1>1. /\ \A c \in codes' : c \in codes \/ c \notin asserted
      /\ \A v \in Visits : /\ Holding(v)' <=> Holding(v)
                           /\ Holding(v) => visits[v].code \in asserted
  BY Waits DEF LogInUpstream, Holding, RedeemedOnce
<1> QED
  BY <1>1 DEF RedeemedOnce

\* What happens at the upstream is Vouch or nothing.
LEMMA AtUpstreamImplements ==
  ASSUME GInv, RedeemedOnce, AtUpstream
  PROVE  Implements /\ RedeemedOnce'
<1>1. UNCHANGED <<now, boots, gateCookie, started, visits>>
  BY DEF AtUpstream, cookieVars
<1>2. CASE \E login \in 1 .. Len(started), sub \in Testers : LogInUpstream(login, sub)
  BY <1>1, <1>2, LogInImplements, LogInCodes DEF Begun
<1>3. CASE Rotate \/ Retire
  <2>1. asserted' = asserted /\ codes' = codes
    BY <1>3 DEF Rotate, Retire
  <2>2. CodesMove
    BY <1>1, <2>1, CodesStay
  <2> QED
    BY <1>1, <2>1, <2>2, Still DEF CodesMove
<1> QED
  BY <1>2, <1>3 DEF AtUpstream

\* Time ends sessions and does nothing else.
LEMMA TickImplements == ASSUME GInv, RedeemedOnce, Tick PROVE Implements /\ RedeemedOnce'
<1>1. /\ now' = now + 1 /\ now \in Nat /\ started' = started /\ boots' = boots
      /\ UNCHANGED <<gateCookie, asserted>>
      /\ gateCookie \in [Browsers -> GateCookie \cup {None}]
  BY DEF Tick, upstreamVars, cookieVars, GInv, TypeOK, ClientTypeOK
<1>2. Grows /\ Begun' = Begun /\ started' \in Seq(Started)
  BY <1>1 DEF Grows, Begun, GInv, TypeOK
<1>3. BegunBar' = BegunBar /\ VouchedBar' = VouchedBar
  BY <1>1, <1>2, BegunSame, VouchedSame
<1>4. CodesMove /\ UsedBar' = UsedBar
  <2>1. codes' = codes /\ visits' = visits
    BY DEF Tick, upstreamVars
  <2>2. \A c : Good(c)' <=> Good(c)
    BY <2>1 DEF Good, Held, Holding
  <2> QED
    BY <1>3, <2>1, <2>2, CodesStay, UsedIs
<1>5. ASSUME NEW b \in Browsers
      PROVE  (IF Session(b)' = None THEN None
              ELSE [sub |-> Session(b)', until |-> gateCookie'[b].exp])
             = (IF InsideBar[b] # None /\ InsideBar[b].until > now' THEN InsideBar[b] ELSE None)
  <2>1. CASE gateCookie[b] = None
    BY <1>1, <2>1 DEF Session, InsideBar
  <2>2. CASE gateCookie[b] # None
    <3> DEFINE cookie == gateCookie[b]
    <3>1. cookie \in GateCookie /\ cookie.exp \in Nat /\ cookie.sub # None
      BY <1>1, <2>2, UpstreamAssumption DEF GateCookie
    <3>2. Session(b) = IF cookie.boot = boots /\ cookie.exp > now THEN cookie.sub ELSE None
      BY <2>2 DEF Session, Opens
    <3>3. Session(b)' = IF cookie.boot = boots /\ cookie.exp > now' THEN cookie.sub ELSE None
      BY <1>1, <2>2 DEF Session, Opens
    <3>4. InsideBar[b] = IF cookie.boot = boots /\ cookie.exp > now
                         THEN [sub |-> cookie.sub, until |-> cookie.exp] ELSE None
      BY <3>1, <3>2 DEF InsideBar
    <3>5. cookie.exp > now' => cookie.exp > now
      BY <1>1, <3>1
    <3> QED
      BY <1>1, <3>1, <3>3, <3>4, <3>5
  <2> QED
    BY <2>1, <2>2
<1>6. InsideBar' = [b \in Browsers |-> IF InsideBar[b] # None /\ InsideBar[b].until > now'
                                       THEN InsideBar[b] ELSE None]
  BY <1>5 DEF InsideBar
<1> QED
  BY <1>1, <1>3, <1>6, <1>4, PassBar DEF Implements, CodesMove

\* A new process knows nobody.
LEMMA RestartImplements == ASSUME GInv, Restart PROVE Implements /\ RedeemedOnce'
<1>1. /\ now' = now /\ boots' = boots + 1 /\ boots \in Nat
      /\ UNCHANGED <<gateCookie, started, asserted>>
      /\ started \in Seq(Started)
  BY DEF Restart, ClientRestart, cookieVars, upstreamVars, GInv, TypeOK, ClientTypeOK
<1>2. \A n \in Begun : started[n].boot # boots'
  <2> SUFFICES ASSUME NEW n \in Begun PROVE started[n].boot # boots'
    OBVIOUS
  <2>1. started[n].boot \in Nat /\ started[n].boot <= boots
    BY <1>1, EntryType DEF GInv, HistoryTraced
  <2> QED
    BY <1>1, <2>1
<1>3. BegunBar' = {}
  BY <1>1, <1>2, Entries DEF BegunBar, Ours
<1>4. VouchedBar' = {} /\ UsedBar' = {}
  BY <1>1, <1>2, UsedIs DEF VouchedBar, Ours, GInv, HistoryTraced
<1>5. \A b \in Browsers : Session(b)' = None
  <2>1. ASSUME NEW b \in Browsers, gateCookie[b] # None PROVE gateCookie[b].boot # boots'
    <3>1. PICK n \in Begun : started[n].boot = gateCookie[b].boot
      BY <2>1 DEF GInv, SessionsTraced
    <3> QED
      BY <1>2, <3>1
  <2> QED
    BY <1>1, <2>1 DEF Session, Opens
<1>6. InsideBar' = [b \in Browsers |-> None]
  BY <1>5 DEF InsideBar
<1>7. RedeemedOnce'
  BY DEF Restart, ClientRestart, RedeemedOnce, Holding
<1> QED
  BY <1>1, <1>3, <1>4, <1>6, <1>7, ForgetBar DEF Implements

\* An answer of the upstream, or none.
LEMMA SettlesImplements ==
  ASSUME GInv, RedeemedOnce, NEW v \in Visits, Settles(v) \/ Abandon(v)
  PROVE  Implements /\ RedeemedOnce'
<1>1. CASE LoginAfterDiscovery(v)
  <2>1. /\ SendUpstream(visits[v].browser) /\ meta' = TRUE /\ End(v)
        /\ UNCHANGED <<now, boots, asserted, codes>> /\ visits[v] # Idle
        /\ visits[v].step = "discover"
    BY <1>1 DEF LoginAfterDiscovery, DiscoveryArrives, Waiting, upstreamVars
  <2>2. visits[v].browser \in Browsers
    BY <2>1, Parts DEF Visit
  <2>3. RedeemedOnce' /\ \A c \in asserted : Good(c)' <=> Good(c)
    BY <2>1, DiscoverEnds
  <2> QED
    BY <2>1, <2>2, <2>3, SendImplements
<1>2. CASE NoLoginAfterDiscovery(v) \/ Abandon(v)
  <2>1. /\ visits[v] # Idle /\ End(v) /\ codes' = codes
        /\ UNCHANGED <<now, boots, gateCookie, asserted, started>>
    BY <1>2 DEF NoLoginAfterDiscovery, DiscoveryFails, DiscoveryArrives, Waiting, Abandon,
       upstreamVars, cookieVars
  <2>2. CodesMove
    BY <2>1, CodesEnd
  <2> QED
    BY <2>1, <2>2, Still DEF CodesMove
<1>3. CASE JwksServed(v)
  <2>1. /\ Waiting(v, "jwks") /\ visits' = [visits EXCEPT ![v].doc = published]
        /\ codes' = codes /\ UNCHANGED <<now, boots, gateCookie, asserted, started>>
    BY <1>3 DEF JwksServed, ServeJwks, upstreamVars, cookieVars
  <2>2. PICK new : new = [visits[v] EXCEPT !.doc = published]
    OBVIOUS
  <2>3. visits[v] \in Visit
    BY <2>1, Waits DEF Waiting
  <2>4. /\ new \in Visit /\ new.step = "jwks" /\ new.code = visits[v].code
        /\ new.token = visits[v].token
    BY <2>1, <2>2, <2>3, Parts DEF Visit, WorldType, Waiting
  <2>5. new # Idle
    BY <2>4, VisitNotIdle
  <2>6. CodesMove
    BY <2>1, <2>2, <2>4, <2>5, CodesWait DEF Waiting, Holding
  <2> QED
    BY <2>1, <2>6, Still DEF CodesMove
<1>4. CASE ExchangeFailed(v) \/ JwksFails(v)
  <2>1. /\ visits[v] # Idle /\ visits[v].step # "discover" /\ End(v)
        /\ Refuse(visits[v].browser, visits[v].login)
        /\ UNCHANGED <<now, boots, meta, asserted>>
        /\ codes' = codes \/ codes' = codes \ {visits[v].code}
    BY <1>4 DEF ExchangeFailed, JwksFails, Waiting, clientVars, upstreamVars
  <2>2. CodesMove
    BY <2>1, CodesEnd
  <2> QED
    BY <2>1, <2>2, Waits, RefuseImplements DEF CodesMove
<1>5. CASE ExchangeServed(v)
  <2> DEFINE code == visits[v].code
             token == TokenFor(code)
  <2>1. /\ visits[v] # Idle /\ visits[v].step = "exchange" /\ visits[v].token = None
        /\ code \in codes /\ codes' = codes \ {code}
        /\ visits' = [visits EXCEPT ![v].token = token]
        /\ UNCHANGED <<now, boots, gateCookie, asserted, started>>
    BY <1>5 DEF ExchangeServed, ServeExchange, Waiting, Redeemable, cookieVars
  <2>2. visits[v] \in Visit /\ token \in IdToken /\ token # None
    BY <2>1, Waits, TokenType
  <2>3. PICK new : new = [visits[v] EXCEPT !.token = token]
    OBVIOUS
  <2> HIDE DEF token
  <2>4. new \in Visit /\ new.step = "exchange" /\ new.code = code /\ new.token = token
    BY <2>1, <2>2, <2>3 DEF Visit
  <2>5. new # Idle
    BY <2>4, VisitNotIdle
  <2>6. visits' = [visits EXCEPT ![v] = new]
    BY <2>1, <2>3, Parts
  <2>7. CodesMove
    BY <2>1, <2>2, <2>4, <2>5, <2>6, CodesRedeemed DEF Holding
  <2> QED
    BY <2>1, <2>7, Still DEF CodesMove
<1>6. CASE ExchangeAnswered(v)
  <2> DEFINE token == visits[v].token
  <2>1. /\ visits[v] # Idle /\ visits[v].step = "exchange" /\ token # None
        /\ UNCHANGED <<now, boots, meta, asserted, codes>>
    BY <1>6 DEF ExchangeAnswered, Waiting, clientVars, upstreamVars
  <2>2. token \in IdToken /\ token.sub = visits[v].code.sub
        /\ token.nonce = visits[v].code.login
    BY <2>1, Holds
  <2>3. CASE HasKey(token)
    <3>1. Conclude(v, token, CachedKey(keys, KidOf(token.key)))
      BY <1>6, <2>3 DEF ExchangeAnswered
    <3>2. CodesMove
      BY <2>1, <3>1, CodesEnd DEF Conclude
    <3>3. Holding(v)
      BY <2>1 DEF Holding
    <3> HIDE DEF token
    <3> QED
      BY <2>1, <2>2, <3>1, <3>2, <3>3, ConcludeImplements DEF CodesMove
  <2>4. CASE ~HasKey(token)
    <3>1. /\ UNCHANGED <<gateCookie, started>>
          /\ visits' = [visits EXCEPT ![v].step = "jwks"]
      BY <1>6, <2>4 DEF ExchangeAnswered, cookieVars
    <3>2. PICK new : new = [visits[v] EXCEPT !.step = "jwks"]
      OBVIOUS
    <3>3. visits[v] \in Visit
      BY <2>1, Waits
    <3>4. new \in Visit /\ new.step = "jwks" /\ new.code = visits[v].code /\ new.token = token
      BY <3>2, <3>3 DEF Visit
    <3>5. new # Idle
      BY <3>4, VisitNotIdle
    <3>6. visits' = [visits EXCEPT ![v] = new]
      BY <3>1, <3>2, Parts
    <3>7. CodesMove
      BY <2>1, <3>4, <3>5, <3>6, CodesWait DEF Holding
    <3> QED
      BY <2>1, <3>1, <3>7, Still DEF CodesMove
  <2> QED
    BY <2>3, <2>4
<1>7. CASE JwksArrives(v)
  <2> DEFINE token == visits[v].token
  <2>1. /\ visits[v] # Idle /\ visits[v].step = "jwks"
        /\ UNCHANGED <<now, boots, meta, asserted, codes>>
    BY <1>7 DEF JwksArrives, Waiting, upstreamVars
  <2>2. PICK cache \in ParseJwks(visits[v].doc) :
          Conclude(v, token, CachedKey(cache, KidOf(token.key)))
    BY <1>7 DEF JwksArrives
  <2>3. /\ token # None /\ token \in IdToken
        /\ token.sub = visits[v].code.sub /\ token.nonce = visits[v].code.login
    BY <2>1, Holds
  <2>4. CodesMove
    BY <2>1, <2>2, CodesEnd DEF Conclude
  <2>5. Holding(v)
    BY <2>1, <2>3 DEF Holding
  <2> HIDE DEF token
  <2> QED
    BY <2>1, <2>2, <2>3, <2>4, <2>5, ConcludeImplements DEF CodesMove
<1> QED
  BY <1>1, <1>2, <1>3, <1>4, <1>5, <1>6, <1>7 DEF Settles

\* What browsers, the upstream and the HTTP client do is a step of GateLifecycle or none.
LEMMA MoveImplements == ASSUME GInv, RedeemedOnce, Move PROVE Implements /\ RedeemedOnce'
<1>1. CASE \E b \in Browsers : StartLogin(b)
  <2>1. PICK b \in Browsers : SendUpstream(b)
    BY <1>1 DEF StartLogin
  <2>2. meta' /\ UNCHANGED <<now, boots, asserted, codes, visits>>
    BY <1>1 DEF StartLogin, clientVars, upstreamVars
  <2>3. RedeemedOnce' /\ \A c \in asserted : Good(c)' <=> Good(c)
    BY <2>2 DEF RedeemedOnce, Good, Held, Holding
  <2> QED
    BY <2>1, <2>2, <2>3, SendImplements
<1>2. CASE SomeoneVisits
  <2>1. PICK v \in Visits, b \in Browsers : BeginDiscovery(v, b)
    BY <1>2 DEF SomeoneVisits
  <2>2. PICK new : new = [step |-> "discover", browser |-> b, login |-> None, code |-> None,
                          token |-> None, doc |-> None]
    OBVIOUS
  <2>3. /\ visits[v] = Idle /\ visits' = [visits EXCEPT ![v] = new] /\ codes' = codes
        /\ UNCHANGED <<now, boots, gateCookie, asserted, started>>
    BY <2>1, <2>2 DEF BeginDiscovery, FetchDiscovery, upstreamVars, cookieVars
  <2>4. new # Idle /\ new.token = None
    BY <2>2, VisitNotIdle DEF Visit
  <2>5. CodesMove
    BY <2>3, <2>4, CodesWait DEF Holding
  <2> QED
    BY <2>3, <2>5, Still DEF CodesMove
<1>3. CASE \E v \in Visits, b \in Browsers, login \in 1 .. Len(started), code \in asserted :
             Callback(v, b, login, code)
  <2>1. PICK v \in Visits, b \in Browsers, login \in 1 .. Len(started), code \in asserted :
               Callback(v, b, login, code)
    BY <1>3
  <2>2. PICK new : new = [step |-> "exchange", browser |-> b, login |-> login, code |-> code,
                          token |-> None, doc |-> None]
    OBVIOUS
  <2>3. /\ visits[v] = Idle /\ visits' = [visits EXCEPT ![v] = new] /\ codes' = codes
        /\ UNCHANGED <<now, boots, gateCookie, asserted, started>>
    BY <2>1, <2>2 DEF Callback, upstreamVars, cookieVars
  <2>4. new # Idle /\ new.token = None
    <3>1. code \in Code /\ login \in Nat
      BY Parts DEF WorldType
    <3> QED
      BY <2>2, <3>1, VisitNotIdle DEF Visit
  <2>5. CodesMove
    BY <2>3, <2>4, CodesWait DEF Holding
  <2> QED
    BY <2>3, <2>5, Still DEF CodesMove
<1>4. CASE \E b \in Browsers, login \in 1 .. Len(started) : CallbackRefused(b, login)
  <2>1. PICK b \in Browsers, login \in Begun : CallbackRefused(b, login)
    BY <1>4 DEF Begun
  <2>2. PICK c \in loginCookies[b] : c.name = CookieName(login)
    BY <2>1 DEF CallbackRefused, Named
  <2>3. started[login].browser = b
    BY <2>2 DEF GInv, CookiesTraced, CookieName
  <2>4. Refuse(b, login) /\ UNCHANGED <<now, boots, meta, asserted, codes, visits>>
    BY <2>1 DEF CallbackRefused, clientVars, upstreamVars
  <2>5. CodesMove
    BY <2>4, CodesStay
  <2> QED
    BY <2>3, <2>4, <2>5, RefuseImplements DEF CodesMove
<1>5. CASE \E v \in Visits : Settles(v) \/ Abandon(v)
  BY <1>5, SettlesImplements
<1>6. CASE AtUpstream
  BY <1>6, AtUpstreamImplements
<1>7. CASE Elapse
  <2>1. UNCHANGED <<now, boots, gateCookie, asserted, started, codes, visits>>
    BY <1>7 DEF Elapse, upstreamVars, cookieVars
  <2>2. CodesMove
    BY <2>1, CodesStay
  <2> QED
    BY <2>1, <2>2, Still DEF CodesMove
<1> QED
  BY <1>1, <1>2, <1>3, <1>4, <1>5, <1>6, <1>7 DEF Move

\* The gate implements what GateLifecycle says of a browser, for any number of browsers,
\* logins, keys and restarts.
THEOREM GateImplementsLifecycle == Spec => SessionsFollowLifecycle
<1>1. Init => Life!GateInit /\ RedeemedOnce
  <2> SUFFICES ASSUME Init PROVE Life!GateInit /\ RedeemedOnce
    OBVIOUS
  <2>1. /\ now = 0 /\ started = <<>> /\ asserted = {} /\ gateCookie = [b \in Browsers |-> None]
        /\ visits = [v \in Visits |-> Idle]
    BY DEF Init, ClientInit
  <2>2. BegunBar = {} /\ VouchedBar = {} /\ UsedBar = {} /\ RedeemedOnce
    BY <2>1 DEF BegunBar, VouchedBar, UsedBar, RedeemedOnce, Holding
  <2>3. InsideBar = [b \in Browsers |-> None]
    BY <2>1 DEF InsideBar, Session
  <2> QED
    BY <2>1, <2>2, <2>3 DEF Life!GateInit, Life!Nobody, BegunBar, VouchedBar, UsedBar, InsideBar
<1>2. GInv /\ RedeemedOnce /\ [Next]_vars => RedeemedOnce' /\ [Life!GateNext]_(Life!gateVars)
  <2> SUFFICES ASSUME GInv, RedeemedOnce, [Next]_vars PROVE Implements /\ RedeemedOnce'
    BY DEF Implements
  <2>1. CASE UNCHANGED vars
    <3>1. CodesMove
      BY <2>1, CodesStay DEF vars
    <3> QED
      BY <2>1, <3>1, Still DEF vars, CodesMove
  <2> QED
    BY <2>1, MoveImplements, TickImplements, RestartImplements DEF Next
<1> QED
  BY <1>1, <1>2, GInvAlways, PTL DEF Spec, SessionsFollowLifecycle, Life!GateSpec
=============================================================================
