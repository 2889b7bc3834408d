------------------------------- MODULE MCReplay -------------------------------
(* Replay on small instances.  harness.yaml is edited and the toolchain is   *)
(* upgraded at once: what a session makes of the one does not depend on the   *)
(* other.  The second machine does not know its git.  The two are alike       *)
(* otherwise, so the run is recorded on the first.                            *)
EXTENDS Replay

First       == [spec |-> "spec1", env |-> [go |-> "go1", git |-> "git1"]]
OneMachine  == {First}
TwoMachines == {First, [spec |-> "spec2", env |-> [go |-> "go2"]]}

MCInit == Init /\ machine = First
MCSpec == MCInit /\ [][Next]_vars
=============================================================================
