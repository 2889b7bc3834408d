------------------------------ MODULE Scheduler ------------------------------
(***************************************************************************)
(* The benchmark scheduler of internal/benchmark/scheduler.go: Run, which  *)
(* executes the jobs in waves, and runBatch, which runs one wave on a pool *)
(* of worker goroutines fed by one producer goroutine over an unbuffered   *)
(* channel, under a token budget and a context that may end at any time.   *)
(*                                                                         *)
(* A job is its index in the list Run receives.  What a job does (build a  *)
(* harness, run the agent) is abstracted to the outcome runJob returns:    *)
(* an error, or a pass or a failure that consumed some tokens.             *)
(***************************************************************************)
EXTENDS Integers, Sequences, FiniteSets

CONSTANTS
  NumJobs,      \* length of the job list given to Run
  Parallel,     \* Options.Parallel
  MaxTokens,    \* Options.MaxTokens; 0 or less is "no budget"
  Retry,        \* Options.Retry, the number of extra waves
  JobTokens,    \* bound: the most tokens one run consumes
  MayEnd        \* can the context end (Options.Timeout > 0, or Ctrl-C)?

ASSUME ConstantsAssumption ==
  /\ NumJobs \in Nat
  /\ Parallel \in Int
  /\ MaxTokens \in Int
  /\ Retry \in Nat
  /\ JobTokens \in Nat
  /\ MayEnd \in BOOLEAN

\* NewScheduler: a pool size of zero or less becomes 2.
PoolSize == IF Parallel <= 0 THEN 2 ELSE Parallel

Jobs    == 1..NumJobs
Workers == 1..PoolSize
Results == {"errored", "passed", "failed"}

\* The counters Report.add keeps, here for each job: a job is one (variant,
\* task, repeat), the finest grain at which the report aggregates.
Tally == [Results -> Nat]

VARIABLES
  main,       \* Run's goroutine: "loop" head, in a "batch", "returned", "refused"
  attempt,    \* Run: the wave's number
  wave,       \* Run: current, the jobs of this wave
  ended,      \* ctx.Err() # nil
  stopFlag,   \* runBatch: the token budget is exceeded
  tokens,     \* runBatch: tokens consumed in this wave
  failed,     \* runBatch: the jobs for the next wave
  closed,     \* runBatch: close(jobCh) was called
  producer,   \* the producer goroutine: "check", "send" or "done"
  next,       \* the producer's index into wave
  pc,         \* each worker goroutine's place in its loop
  holding,    \* each worker's loop variable job (0: none)
  result,     \* each worker's outcome ("none" outside its lifetime)
  report,     \* the report under construction
  earlier     \* history: tokens consumed by the waves before this one

vars == <<main, attempt, wave, ended, stopFlag, tokens, failed, closed,
          producer, next, pc, holding, result, report, earlier>>

runVars   == <<main, attempt, wave, earlier>>
batchVars == <<stopFlag, tokens, failed, closed, report>>
prodVars  == <<producer, next>>
workVars  == <<pc, holding, result>>

\* "received" .. "checked": the worker has a job and has not reported it yet.
WorkerStates ==
  {"receive", "received", "running", "counted", "checked", "exited"}
Executing == {"running", "counted", "checked"}

BudgetReached == MaxTokens > 0 /\ tokens >= MaxTokens

TypeOK ==
  /\ main \in {"loop", "batch", "returned", "refused"}
  /\ attempt \in 0..(Retry + 1)
  /\ wave \in Seq(Jobs)
  /\ ended \in BOOLEAN
  /\ stopFlag \in BOOLEAN
  /\ tokens \in Nat
  /\ failed \in Seq(Jobs)
  /\ closed \in BOOLEAN
  /\ producer \in {"check", "send", "done"}
  /\ next \in 1..(Len(wave) + 1)
  /\ pc \in [Workers -> WorkerStates]
  /\ holding \in [Workers -> Jobs \cup {0}]
  /\ result \in [Workers -> Results \cup {"none"}]
  /\ report \in [Jobs -> Tally]
  /\ earlier \in Nat

\* An empty job list is refused before anything starts.
Init ==
  /\ main = IF NumJobs = 0 THEN "refused" ELSE "loop"
  /\ attempt = 0
  /\ wave = [i \in 1..NumJobs |-> i]
  /\ ended = FALSE
  /\ stopFlag = FALSE
  /\ tokens = 0
  /\ failed = << >>
  /\ closed = FALSE
  /\ producer = "done"
  /\ next = 1
  /\ pc = [w \in Workers |-> "exited"]
  /\ holding = [w \in Workers |-> 0]
  /\ result = [w \in Workers |-> "none"]
  /\ report = [j \in Jobs |-> [r \in Results |-> 0]]
  /\ earlier = 0

-----------------------------------------------------------------------------
(* Run: the wave loop. *)

MoreWaves == wave # << >> /\ attempt <= Retry /\ ~ended

\* A new wave: runBatch allocates its flag, counter, channel and failed list
\* afresh, and starts the workers and the producer.
StartWave ==
  /\ main = "loop"
  /\ MoreWaves
  /\ main' = "batch"
  /\ stopFlag' = FALSE
  /\ tokens' = 0
  /\ failed' = << >>
  /\ closed' = FALSE
  /\ producer' = "check"
  /\ next' = 1
  /\ pc' = [w \in Workers |-> "receive"]
  /\ UNCHANGED <<attempt, wave, ended, holding, result, report, earlier>>

\* Fault: the wave is joined when the producer is done, without wg.Wait().
JoinWaveEarly ==
  /\ main = "batch"
  /\ producer = "done"
  /\ main' = "loop"
  /\ wave' = failed
  /\ next' = 1
  /\ attempt' = attempt + 1
  /\ earlier' = earlier + tokens
  /\ tokens' = 0
  /\ UNCHANGED <<ended, stopFlag, failed, closed, producer, workVars, report>>

\* Fault: the retry wave is not counted.
JoinWaveUncounted ==
  /\ main = "batch"
  /\ \A w \in Workers : pc[w] = "exited"
  /\ producer = "done"
  /\ main' = "loop"
  /\ wave' = failed
  /\ next' = 1
  /\ earlier' = earlier + tokens
  /\ tokens' = 0
  /\ UNCHANGED <<attempt, ended, stopFlag, failed, closed, producer, workVars, report>>

\* wg.Wait(), then <-done; the failed jobs are the next wave.
JoinWave ==
  /\ main = "batch"
  /\ \A w \in Workers : pc[w] = "exited"
  /\ producer = "done"
  /\ main' = "loop"
  /\ wave' = failed
  /\ next' = 1
  /\ attempt' = attempt + 1
  /\ earlier' = earlier + tokens
  /\ tokens' = 0
  /\ UNCHANGED <<ended, stopFlag, failed, closed, producer, workVars, report>>

Return ==
  /\ main = "loop"
  /\ ~MoreWaves
  /\ main' = "returned"
  /\ UNCHANGED <<attempt, wave, earlier, ended, batchVars, prodVars, workVars>>

-----------------------------------------------------------------------------
(* The producer goroutine.  It reads ctx, the flag and the counter one after
   the other; each only ever changes one way during a wave, so reading them
   in one step allows the same decisions. *)

ProducerGivesUp ==
  /\ producer = "check"
  /\ next <= Len(wave)
  /\ ended \/ stopFlag
  /\ producer' = "done"
  /\ UNCHANGED <<runVars, ended, batchVars, next, workVars>>

\* While the budget is reached and the flag not yet set, the producer sleeps
\* and looks again: it is not enabled.
ProducerAdmits ==
  /\ producer = "check"
  /\ next <= Len(wave)
  /\ ~ended /\ ~stopFlag /\ ~BudgetReached
  /\ producer' = "send"
  /\ UNCHANGED <<runVars, ended, batchVars, next, workVars>>

\* Fault: the producer ends without close(jobCh).
ProducerForgetsClose ==
  /\ producer = "check"
  /\ next > Len(wave)
  /\ producer' = "done"
  /\ UNCHANGED <<runVars, ended, batchVars, next, workVars>>

ProducerCloses ==
  /\ producer = "check"
  /\ next > Len(wave)
  /\ closed' = TRUE
  /\ producer' = "done"
  /\ UNCHANGED <<runVars, ended, stopFlag, tokens, failed, report, next, workVars>>

\* Fault: the producer's index does not advance past the job it sent.
HandoffTwice(w) ==
  /\ producer = "send"
  /\ pc[w] = "receive"
  /\ pc' = [pc EXCEPT ![w] = "received"]
  /\ holding' = [holding EXCEPT ![w] = wave[next]]
  /\ next' \in {next, next + 1}
  /\ producer' = "check"
  /\ UNCHANGED <<runVars, ended, batchVars, result>>

\* The unbuffered channel: the send completes with a worker's receive.
Handoff(w) ==
  /\ producer = "send"
  /\ pc[w] = "receive"
  /\ pc' = [pc EXCEPT ![w] = "received"]
  /\ holding' = [holding EXCEPT ![w] = wave[next]]
  /\ next' = next + 1
  /\ producer' = "check"
  /\ UNCHANGED <<runVars, ended, batchVars, result>>

-----------------------------------------------------------------------------
(* A worker goroutine. *)

\* The range over the closed channel ends.
RangeEnds(w) ==
  /\ pc[w] = "receive"
  /\ closed
  /\ pc' = [pc EXCEPT ![w] = "exited"]
  /\ UNCHANGED <<runVars, ended, batchVars, prodVars, holding, result>>

\* The received job is dropped, without an outcome, and the worker exits.
DropJob(w) ==
  /\ pc[w] = "received"
  /\ ended \/ stopFlag
  /\ pc' = [pc EXCEPT ![w] = "exited"]
  /\ holding' = [holding EXCEPT ![w] = 0]
  /\ UNCHANGED <<runVars, ended, batchVars, prodVars, result>>

StartJob(w) ==
  /\ pc[w] = "received"
  /\ ~ended /\ ~stopFlag
  /\ pc' = [pc EXCEPT ![w] = "running"]
  /\ UNCHANGED <<runVars, ended, batchVars, prodVars, holding, result>>

\* runJob returns and tokens.Add counts what it used.  An outcome with an
\* error carries no metrics, hence no tokens.
FinishJob(w) ==
  /\ pc[w] = "running"
  /\ \E r \in Results, used \in 0..JobTokens :
       /\ r = "errored" => used = 0
       /\ result' = [result EXCEPT ![w] = r]
       /\ tokens' = tokens + used
  /\ pc' = [pc EXCEPT ![w] = "counted"]
  /\ UNCHANGED <<runVars, ended, stopFlag, failed, closed, report, prodVars, holding>>

\* Fault: a worker that reaches the budget does not raise the flag.
CheckBudgetSilently(w) ==
  /\ pc[w] = "counted"
  /\ pc' = [pc EXCEPT ![w] = "checked"]
  /\ UNCHANGED <<runVars, ended, batchVars, prodVars, holding, result>>

CheckBudget(w) ==
  /\ pc[w] = "counted"
  /\ stopFlag' = (stopFlag \/ BudgetReached)
  /\ pc' = [pc EXCEPT ![w] = "checked"]
  /\ UNCHANGED <<runVars, ended, tokens, failed, closed, report, prodVars, holding, result>>

\* Fault: a verification failure is retried like an error.
RecordRetriesFailures(w) ==
  /\ pc[w] = "checked"
  /\ report' = [report EXCEPT ![holding[w]][result[w]] = @ + 1]
  /\ failed' = IF result[w] # "passed" THEN Append(failed, holding[w]) ELSE failed
  /\ pc' = [pc EXCEPT ![w] = "receive"]
  /\ holding' = [holding EXCEPT ![w] = 0]
  /\ result' = [result EXCEPT ![w] = "none"]
  /\ UNCHANGED <<runVars, ended, stopFlag, tokens, closed, prodVars>>

\* Fault: the append to failed is lost to another worker's (no mutex).
RecordLosesAppend(w) ==
  /\ pc[w] = "checked"
  /\ report' = [report EXCEPT ![holding[w]][result[w]] = @ + 1]
  /\ failed' = IF result[w] = "errored" THEN << holding[w] >> ELSE failed
  /\ pc' = [pc EXCEPT ![w] = "receive"]
  /\ holding' = [holding EXCEPT ![w] = 0]
  /\ result' = [result EXCEPT ![w] = "none"]
  /\ UNCHANGED <<runVars, ended, stopFlag, tokens, closed, prodVars>>

\* Under the mutex: report.add, and the job joins failed if it errored.  The
\* onOutcome callback that follows only prints.
Record(w) ==
  /\ pc[w] = "checked"
  /\ report' = [report EXCEPT ![holding[w]][result[w]] = @ + 1]
  /\ failed' = IF result[w] = "errored" THEN Append(failed, holding[w]) ELSE failed
  /\ pc' = [pc EXCEPT ![w] = "receive"]
  /\ holding' = [holding EXCEPT ![w] = 0]
  /\ result' = [result EXCEPT ![w] = "none"]
  /\ UNCHANGED <<runVars, ended, stopFlag, tokens, closed, prodVars>>

-----------------------------------------------------------------------------

\* The timeout expires, or the caller cancels.
ContextEnds ==
  /\ MayEnd
  /\ ~ended
  /\ main \in {"loop", "batch"}
  /\ ended' = TRUE
  /\ UNCHANGED <<runVars, batchVars, prodVars, workVars>>

Finished ==
  /\ main \in {"returned", "refused"}
  /\ UNCHANGED vars

Main     == StartWave \/ JoinWave \/ Return
Producer == ProducerGivesUp \/ ProducerAdmits \/ ProducerCloses
              \/ \E w \in Workers : Handoff(w)
Worker(w) == RangeEnds(w) \/ DropJob(w) \/ StartJob(w) \/ FinishJob(w)
               \/ CheckBudget(w) \/ Record(w)

Next == Main \/ Producer \/ (\E w \in Workers : Worker(w)) \/ ContextEnds \/ Finished

Spec == Init /\ [][Next]_vars

\* Every goroutine that can take a step eventually does: the Go scheduler
\* runs every runnable goroutine, and an agent run ends (its model calls and
\* commands have their own limits).
Fairness ==
  /\ WF_vars(Main)
  /\ WF_vars(Producer)
  /\ \A w \in Workers : WF_vars(Worker(w))

FairSpec == Spec /\ Fairness
-----------------------------------------------------------------------------
(* Properties. *)

Errors(j)   == report[j]["errored"]
Settled(j)  == report[j]["passed"] + report[j]["failed"]
Attempts(j) == Errors(j) + Settled(j)

\* Two workers never hold the same job (scheduler.go 112-137: each job is
\* sent once per wave), so no two runs of one repetition overlap.
OneWorkerPerJob ==
  \A v, w \in Workers : holding[v] = holding[w] /\ holding[v] # 0 => v = w

\* A job that passed or failed verification is reported once and never runs
\* again: only scheduler-level failures are retried (Options.Retry, 98-100).
SettledOnce ==
  /\ \A j \in Jobs : Settled(j) <= 1
  /\ \A w \in Workers : pc[w] \in Executing => Settled(holding[w]) = 0

\* A job that runs in retry wave k has errored exactly k times before and has no
\* verdict: waves lose no error and retry nothing else, a job is settled once, and
\* Retry bounds the attempts.
RetriesFollowErrors ==
  /\ SettledOnce
  /\ \A w \in Workers : pc[w] \in Executing => Errors(holding[w]) = attempt
  /\ \A j \in Jobs : Attempts(j) <= Retry + 1

\* When the budget trips, each worker adds at most the run it was about to
\* account for: the wave overshoots MaxTokens by less than a run per worker
\* (118-125: the counter is read after every add, the flag before every run).
BoundedOvershoot ==
  MaxTokens > 0 => tokens < MaxTokens + PoolSize * JobTokens

\* The inductive invariant behind these: where each job of the wave stands, and
\* what the report says of it there.
Pending(j) == \E i \in next..Len(wave) : wave[i] = j
Held(j)    == \E w \in Workers : holding[w] = j
Failing(j) == \E i \in 1..Len(failed) : failed[i] = j

Distinct(s) == \A i, k \in 1..Len(s) : s[i] = s[k] => i = k

WaveInv ==
  /\ Distinct(wave)
  /\ \A i \in 1..Len(wave) : main # "batch" => /\ Errors(wave[i]) = attempt
                                                /\ Settled(wave[i]) = 0
  /\ main = "batch" => attempt <= Retry
  /\ main # "batch" => \A w \in Workers : pc[w] = "exited"
  /\ main # "batch" => \A j \in Jobs : Attempts(j) <= attempt

WorkerInv ==
  /\ OneWorkerPerJob
  /\ \A w \in Workers :
       /\ pc[w] \in {"received"} \cup Executing <=> holding[w] # 0
       /\ pc[w] \in {"counted", "checked"} <=> result[w] # "none"
       /\ holding[w] # 0 => \E i \in 1..(next - 1) : wave[i] = holding[w]
  /\ producer = "send" => next <= Len(wave)
  /\ producer # "done" => main = "batch"

JobInv ==
  main = "batch" =>
    /\ Distinct(failed)
    /\ \A j \in Jobs :
         /\ Pending(j) \/ Held(j) => /\ Errors(j) = attempt
                                     /\ Settled(j) = 0
                                     /\ ~Failing(j)
         /\ Failing(j) => Errors(j) = attempt + 1 /\ Settled(j) = 0
         /\ Attempts(j) <= attempt + 1

SettledInv == \A j \in Jobs : Settled(j) <= 1

Inductive == TypeOK /\ WaveInv /\ WorkerInv /\ JobInv /\ SettledInv

\* Cut short: the context ended, or the budget was spent.
Uncut == ~ended /\ (MaxTokens > 0 => earlier + tokens < MaxTokens)

KeepInv ==
  /\ main # "batch" => tokens = 0
  /\ main = "batch" /\ stopFlag => BudgetReached
  /\ main = "batch" /\ producer = "done" => next > Len(wave) \/ ended \/ stopFlag
  /\ main = "returned" => wave = << >> \/ attempt > Retry \/ ended
  /\ Uncut => \A j \in Jobs :
       \/ Settled(j) = 1
       \/ main # "batch" /\ \E i \in 1..Len(wave) : wave[i] = j
       \/ main = "batch" /\ (Pending(j) \/ Held(j) \/ Failing(j))

\* Who can still add tokens to the wave: a running job, and, until the flag is
\* up, every worker that may start another job without checking the budget first.
MayAdd == {w \in Workers : \/ pc[w] = "running"
                           \/ ~stopFlag /\ pc[w] \in {"receive", "received", "checked"}}

OvershootInv ==
  BudgetReached => tokens + JobTokens * Cardinality(MayAdd) < MaxTokens + PoolSize * JobTokens

\* A benchmark that returns without having been cut short (context alive, the
\* budget not spent) has an outcome for every job: a verdict, or an error in
\* every one of the Retry + 1 waves.  No job is lost between the waves.
NoJobLost ==
  main = "returned" /\ ~ended /\ (MaxTokens > 0 => earlier < MaxTokens)
    => \A j \in Jobs : Settled(j) = 1 \/ Errors(j) = Retry + 1

\* The scheduler implements the ledger: the pool, the channel and the waves
\* are invisible in it.
Ledger == INSTANCE JobLedger WITH
  Job     <- Jobs,
  Slots   <- PoolSize,
  Retries <- Retry,
  running <- {holding[w] : w \in {v \in Workers : pc[v] \in Executing}},
  errors  <- [j \in Jobs |-> Errors(j)],
  verdict <- [j \in Jobs |-> IF report[j]["passed"] > 0 THEN "passed"
                             ELSE IF report[j]["failed"] > 0 THEN "failed"
                             ELSE "none"]

ImplementsLedger == Ledger!Spec

\* The benchmark comes to an end (with a report, or refused).  Options.Timeout
\* "bounds the whole benchmark" (scheduler.go:26): so it must when the context ends.
BenchmarkEnds == <>(main \in {"returned", "refused"})

\* A benchmark whose context does not end and whose budget is not reached always
\* returns: no worker, the producer or the loop waits for one that has left.
UndisturbedBenchmarkEnds == [](~ended /\ ~BudgetReached) => BenchmarkEnds
=============================================================================
