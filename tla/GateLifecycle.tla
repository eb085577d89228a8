---------------------------- MODULE GateLifecycle ----------------------------
(***************************************************************************)
(* What the upstream gate promises about a browser, whatever is behind it. *)
(* A browser begins a login, the upstream vouches for a tester who logs in *)
(* for it, and for an admitted one the browser may come in, once.  It then *)
(* stays in for the length of a session, whatever else it asks for, and    *)
(* nobody is in when the process starts.                                   *)
(***************************************************************************)
EXTENDS Integers

CONSTANTS Browsers, Testers, Admitted, None, SessionTtl

VARIABLES
    time,
    begun,      \* the logins begun with this process: [login, browser]
    vouched,    \* what the upstream vouched for: [login, sub]
    used,       \* the vouchers that are no good any more
    inside      \* who is in with each browser, and until when

gateVars == <<time, begun, vouched, used, inside>>

Nobody == [b \in Browsers |-> None]

GateInit == time = 0 /\ begun = {} /\ vouched = {} /\ used = {} /\ inside = Nobody

\* A login is begun by one browser.
Begin(b) ==
    /\ \E l \in begun' : /\ begun' = begun \cup {l} /\ l.browser = b
                         /\ \A m \in begun : m.login # l.login
    /\ UNCHANGED <<time, vouched, used, inside>>

Voucher(l, sub) == [login |-> l.login, sub |-> sub]

Vouch(l, sub) ==
    /\ Voucher(l, sub) \notin vouched
    /\ vouched' = vouched \cup {Voucher(l, sub)}
    /\ UNCHANGED <<time, begun, used, inside>>

\* A voucher is good for one attempt to come in, of which it may be the end.
Use(l, sub) ==
    /\ Voucher(l, sub) \in vouched \ used
    /\ used' = used \cup {Voucher(l, sub)}
    /\ UNCHANGED <<time, begun, vouched>>

\* A session that begins now.  Where sessions have no length, nobody comes in.
Session(sub) ==
    IF SessionTtl = 0 THEN None ELSE [sub |-> sub, until |-> time + SessionTtl]

\* Coming in again starts the session anew, perhaps as somebody else.
Enter(l, sub) ==
    /\ Use(l, sub)
    /\ sub \in Admitted
    /\ inside' = [inside EXCEPT ![l.browser] = Session(sub)]

Waste(l, sub) == Use(l, sub) /\ UNCHANGED inside

\* A session ends when its time is up, and by nothing else but a restart.
Pass ==
    /\ time' = time + 1
    /\ inside' = [b \in Browsers |-> IF inside[b] # None /\ inside[b].until > time'
                                     THEN inside[b] ELSE None]
    /\ UNCHANGED <<begun, vouched, used>>

Forget ==
    /\ begun' = {} /\ vouched' = {} /\ used' = {} /\ inside' = Nobody
    /\ UNCHANGED time

GateNext ==
    \/ \E b \in Browsers : Begin(b)
    \/ \E l \in begun, sub \in Testers : Vouch(l, sub) \/ Enter(l, sub) \/ Waste(l, sub)
    \/ Pass
    \/ Forget

GateSpec == GateInit /\ [][GateNext]_gateVars
=============================================================================
