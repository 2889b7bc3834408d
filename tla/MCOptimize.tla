------------------------------ MODULE MCOptimize ------------------------------
(* Optimize on small instances. *)
EXTENDS Optimize, TLC

CONSTANTS c1, c2

CandidateNames == {c1, c2, "baseline"}
OrderOfCandidates == Permutations({c1, c2})
TwoUses == {[tokens |-> 1, cost |-> 2], [tokens |-> 2, cost |-> 1]}
=============================================================================
