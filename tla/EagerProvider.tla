---------------------------- MODULE EagerProvider ----------------------------
(***************************************************************************)
(* The provider as it would be with a memory that forgets on its own: a    *)
(* code or refresh token that is expired when the clock ticks is gone.     *)
(* Provider has the sweeper instead, which comes when it comes; this says  *)
(* what nobody should be able to tell apart.                               *)
(***************************************************************************)
EXTENDS Provider

ForgetfulTick ==
    /\ now < MaxNow
    /\ now' = now + 1
    /\ codes' = Unexpired(codes)
    /\ refresh' = Unexpired(refresh)
    /\ UNCHANGED <<boots, minted, pending, clients, subjects, revokedJti, jwts, logins>>

EagerNext ==
    \/ \E upstream \in GateSessions : LogIn(upstream)
    \/ Serve
    \/ ForgetfulTick
    \/ Restart

EagerSpec == Init /\ [][EagerNext]_vars
=============================================================================
