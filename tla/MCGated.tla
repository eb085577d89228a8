------------------------------- MODULE MCGated -------------------------------
(***************************************************************************)
(* A small instance of the provider behind its gate for TLC.               *)
(***************************************************************************)
EXTENDS GatedProvider, TLC

CONSTANTS c1, alice, bob, frank, t1, u1, s1

MCClaims(f) == [k \in ClaimName |-> IF k \in DOMAIN f THEN f[k] ELSE None]
MCClient == {[id |-> c1, secret |-> s1, uris |-> {u1}]}
MCRequest == {[client |-> c1, uri |-> u1, challenge |-> None, offline |-> FALSE]}
MCNoDefaults == NoClaims
\* Claims that pretend to be the other tester's, typed at a login.
MCPretend == {MCClaims([upstream |-> frank])}
MCIdentity == [x \in Testers |-> MCClaims([tag |-> t1])]
MCNone == {None}
MCPassword == {[offline |-> FALSE, openid |-> FALSE]}

\* Browsers are alike.
Symmetry == Permutations(Browsers)
=============================================================================
