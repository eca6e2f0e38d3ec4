------------------------------ MODULE MCBreaker ------------------------------
(* Instances of Breaker for TLC. *)
EXTENDS Breaker, TLC

CONSTANTS r1, r2

TwoRuns == {r1, r2}
Symmetric == Permutations(TwoRuns)
==============================================================================
