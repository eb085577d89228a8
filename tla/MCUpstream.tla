----------------------------- MODULE MCUpstream -----------------------------
(***************************************************************************)
(* Small instances of the upstream gate for TLC.                           *)
(***************************************************************************)
EXTENDS UpstreamProperties, TLC

\* Browsers are alike, and so are the requests that wait.
Symmetry == Permutations(Visits) \cup Permutations(Browsers)

=============================================================================
