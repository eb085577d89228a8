---------------------------- MODULE GatedProvider ----------------------------
(***************************************************************************)
(* The provider behind its upstream gate, in one process: one clock, one   *)
(* restart, and browsers that reach the login page with the gate cookie    *)
(* they hold at that moment (authorize.rs, `gate.session(&headers)`).      *)
(* Every other request passes the gate by, so the two sides interleave.    *)
(***************************************************************************)
EXTENDS ProviderProperties, Sequences

CONSTANTS Visits, Browsers, NoKid, NamedKeys, ChecksPkce, DiscoveryRetry, Leeway, TokenLife,
          MaxKeys, Admitted, LoginTtl, SessionTtl, MaxStarted

VARIABLES meta, metaErr, keys, visits, published, newest, asserted, upstreamCodes, rejected,
          loginCookies, gateCookie, started

G == INSTANCE UpstreamGate WITH codes <- upstreamCodes

gateVars == <<meta, metaErr, keys, visits, published, newest, asserted, upstreamCodes,
              rejected, loginCookies, gateCookie, started>>
providerVars == <<minted, storeVars, jwts, logins>>
gatedVars == <<now, boots, providerVars, gateVars>>

ASSUME GatedAssumption == GateOn /\ G!UpstreamAssumption /\ G!GateAssumption

GatedInit == Init /\ G!Init

\* A browser at the login page or its form, with a gate cookie that opens.
GatedLogIn(b) ==
    /\ G!Session(b) # None
    /\ LogIn(G!Session(b))
    /\ UNCHANGED gateVars

\* The clock and the process are those of both.
GatedTick == Tick /\ G!Tick
GatedRestart == Restart /\ G!Restart

GatedNext ==
    \/ \E b \in Browsers : GatedLogIn(b)
    \/ Serve /\ UNCHANGED gateVars
    \/ G!Move /\ UNCHANGED providerVars
    \/ GatedTick
    \/ GatedRestart

GatedSpec == GatedInit /\ [][GatedNext]_gatedVars

\* Every variable keeps its type, on both sides of the gate.
GatedTypeOK == TypeOK /\ G!TypeOK

----------------------------------------------------------------------------
\* Did tester sub log in at the upstream for a login that browser b began with this
\* process?
Vouched(b, sub) ==
    \E n \in 1 .. Len(started) :
        /\ started[n].browser = b /\ started[n].boot = boots
        /\ [login |-> n, sub |-> sub] \in asserted

\* Whoever logs in behind the gate with a browser is an admitted tester, and every browser
\* whose form makes this login is one in which the upstream vouched for that tester since
\* the process started; the rest are grants of clients that the operator trusts
\* (authorize.rs, ensure_trusted_client).  A cookie of an earlier process, a code carried
\* over from another browser and a session that ran out while the login page was open let
\* nobody in at the browser that posts the form.
LoginsPassTheGate ==
    [][\A l \in logins' \ logins :
         IF l.upstream = None
         THEN \E c \in ConfiguredClients : c.id = l.client /\ c.secret # None
         ELSE /\ l.upstream \in Admitted
              /\ \E b \in Browsers : GatedLogIn(b)
              /\ \A b \in Browsers : GatedLogIn(b) => Vouched(b, l.upstream)]_gatedVars

\* Every token of a browser login is traced to a tester: the claim that names one names
\* somebody admitted who did log in upstream, whatever was typed at the login, whatever an
\* admin put meanwhile and however long ago the gate session ended (issue_user_tokens).
\* (A claim named `sid` gives way to the sid of the login.)
TokensNameTheirTester ==
    UpstreamClaim \notin {None, "sid"} =>
    \A t \in jwts : \A l \in logins :
        l.sid = t.claims["sid"] /\ l.upstream # None =>
            /\ t.claims[UpstreamClaim] \in Admitted
            /\ \E code \in asserted : code.sub = t.claims[UpstreamClaim]

----------------------------------------------------------------------------
\* What the two halves promise by themselves they promise together: the composition
\* implements the provider and the gate.  (Proved in GatedProofs.)
HalvesKept == Spec /\ G!Spec
=============================================================================
