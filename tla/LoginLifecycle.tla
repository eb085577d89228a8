--------------------------- MODULE LoginLifecycle ---------------------------
(***************************************************************************)
(* What the provider promises about a login, whatever is behind it.  A     *)
(* login begins once, is good for a code or for a refresh token, and is    *)
(* then over for good.  Tokens are issued for it only while it is good,    *)
(* one grant issues one or two, never one issued before, and leaves the    *)
(* login with a refresh token, or over if those are good for nothing.      *)
(***************************************************************************)
CONSTANTS
    Sids, Jtis,
    Refreshable     \* is a refresh token good for any time at all?

VARIABLES
    phase,      \* how far each login is
    issued      \* the tokens issued for each login

lifeVars == <<phase, issued>>

Phases == {"unused", "code", "tokens", "over"}

LifeInit ==
    /\ phase = [s \in Sids |-> "unused"]
    /\ issued = [s \in Sids |-> {}]

\* The login form is submitted.
Begin(s) ==
    /\ phase[s] = "unused"
    /\ phase' = [phase EXCEPT ![s] = "code"]
    /\ UNCHANGED issued

\* A code exchange, a refresh, or a password login, which begins with its grant.
IssueTokens(s) ==
    /\ phase[s] # "over"
    /\ phase' = [phase EXCEPT ![s] = IF Refreshable THEN "tokens" ELSE "over"]
    /\ \E a, b \in Jtis :
         /\ \A t \in Sids : {a, b} \cap issued[t] = {}
         /\ issued' = [issued EXCEPT ![s] = @ \cup {a, b}]

\* Some logins end: logout, revocation, the admin, time, a misuse, a restart.
Finish ==
    /\ phase' \in [Sids -> Phases]
    /\ \A s \in Sids :
         phase'[s] # phase[s] => phase[s] \in {"code", "tokens"} /\ phase'[s] = "over"
    /\ UNCHANGED issued

LifeNext ==
    \/ \E s \in Sids : Begin(s) \/ IssueTokens(s)
    \/ Finish

LifeSpec == LifeInit /\ [][LifeNext]_lifeVars
=============================================================================
