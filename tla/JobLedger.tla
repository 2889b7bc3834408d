------------------------------ MODULE JobLedger ------------------------------
(***************************************************************************)
(* What a benchmark promises about its jobs, whatever pool, channel and    *)
(* waves carry them (benchmark.Scheduler.Run's contract): a job runs on    *)
(* its own, an errored job may run again up to Retry times, a job that     *)
(* passed or failed verification is settled for good, and no more than     *)
(* Slots jobs run at a time.                                               *)
(***************************************************************************)
EXTENDS Integers, FiniteSets

CONSTANTS
  Job,      \* the benchmark's jobs
  Slots,    \* how many may run at once
  Retries   \* extra attempts an errored job may get

VARIABLES
  running,  \* the jobs being executed
  errors,   \* how many attempts of each job errored
  verdict   \* "none" until the job is settled as "passed" or "failed"

ledger == <<running, errors, verdict>>

Init ==
  /\ running = {}
  /\ errors = [j \in Job |-> 0]
  /\ verdict = [j \in Job |-> "none"]

Begin(j) ==
  /\ j \notin running
  /\ verdict[j] = "none"
  /\ errors[j] <= Retries
  /\ Cardinality(running) < Slots
  /\ running' = running \cup {j}
  /\ UNCHANGED <<errors, verdict>>

Err(j) ==
  /\ j \in running
  /\ running' = running \ {j}
  /\ errors' = [errors EXCEPT ![j] = @ + 1]
  /\ UNCHANGED verdict

Settle(j) ==
  /\ j \in running
  /\ running' = running \ {j}
  /\ \E v \in {"passed", "failed"} : verdict' = [verdict EXCEPT ![j] = v]
  /\ UNCHANGED errors

Next == \E j \in Job : Begin(j) \/ Err(j) \/ Settle(j)

Spec == Init /\ [][Next]_ledger
=============================================================================
