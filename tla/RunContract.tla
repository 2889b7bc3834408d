------------------------------ MODULE RunContract ------------------------------
(***************************************************************************)
(* What the record store and the workspaces promise of a run, whatever     *)
(* happens inside it: a workspace is made before the run is on record, the *)
(* record goes from "running" to one final status and stays there, and the *)
(* workspace is released only by a run that is on record.                  *)
(***************************************************************************)
CONSTANTS
  Run,     \* run ids
  Final    \* the final statuses

VARIABLES
  record,      \* each run's status in the store, or "absent"
  workspace    \* the runs that hold a workspace

contract == <<record, workspace>>

Init ==
  /\ record = [r \in Run |-> "absent"]
  /\ workspace = {}

Acquire(r) ==
  /\ record[r] = "absent"
  /\ r \notin workspace
  /\ workspace' = workspace \cup {r}
  /\ UNCHANGED record

Register(r) ==
  /\ record[r] = "absent"
  /\ record' = [record EXCEPT ![r] = "running"]
  /\ UNCHANGED workspace

Settle(r) ==
  /\ record[r] = "running"
  /\ \E s \in Final : record' = [record EXCEPT ![r] = s]
  /\ UNCHANGED workspace

Release(r) ==
  /\ record[r] # "absent"
  /\ r \in workspace
  /\ workspace' = workspace \ {r}
  /\ UNCHANGED record

Next == \E r \in Run : Acquire(r) \/ Register(r) \/ Settle(r) \/ Release(r)

Spec == Init /\ [][Next]_contract
=============================================================================
