--------------------------- MODULE SchedulerProofs ---------------------------
(***************************************************************************)
(* Safety of the benchmark scheduler of Scheduler, for any number of jobs, *)
(* any pool, budget and number of retry waves, and its refinement of       *)
(* JobLedger.                                                              *)
(***************************************************************************)
EXTENDS Scheduler, FiniteSetTheorems, TLAPS

USE ConstantsAssumption

LEMMA PoolType == PoolSize \in Nat \ {0} /\ Workers = 1..PoolSize
BY DEF PoolSize, Workers

-----------------------------------------------------------------------------
(* Types *)

LEMMA InitType == Init => TypeOK
<1> SUFFICES ASSUME Init PROVE TypeOK
  OBVIOUS
<1> USE DEF Init
<1>1. wave \in Seq(Jobs) /\ Len(wave) = NumJobs /\ next \in 1..(Len(wave) + 1)
  BY DEF Jobs
<1>2. report \in [Jobs -> Tally]
  BY DEF Tally
<1>3. pc \in [Workers -> WorkerStates] /\ holding \in [Workers -> Jobs \cup {0}]
  BY DEF WorkerStates
<1>4. result \in [Workers -> Results \cup {"none"}]
  OBVIOUS
<1>5. main \in {"loop", "batch", "returned", "refused"} /\ producer \in {"check", "send", "done"}
  OBVIOUS
<1>6. failed \in Seq(Jobs) /\ attempt \in 0..(Retry + 1) /\ tokens \in Nat /\ earlier \in Nat
  OBVIOUS
<1>7. ended \in BOOLEAN
  OBVIOUS
<1>8. stopFlag \in BOOLEAN
  OBVIOUS
<1>9. closed \in BOOLEAN
  OBVIOUS
<1> QED BY <1>1, <1>2, <1>3, <1>4, <1>5, <1>6, <1>7, <1>8, <1>9 DEF TypeOK

LEMMA TypeStep == TypeOK /\ WaveInv /\ WorkerInv /\ [Next]_vars => TypeOK'
<1> SUFFICES ASSUME TypeOK, WaveInv, WorkerInv, [Next]_vars PROVE TypeOK'
  OBVIOUS
<1> USE DEF TypeOK, runVars, batchVars, prodVars, workVars
<1>1. CASE StartWave
  <2>1. next' \in 1..(Len(wave') + 1) /\ tokens' \in Nat /\ failed' \in Seq(Jobs)
    BY <1>1 DEF StartWave
  <2>2. stopFlag' \in BOOLEAN /\ closed' \in BOOLEAN
    BY <1>1 DEF StartWave
  <2>3. pc' \in [Workers -> WorkerStates]
    BY <1>1 DEF StartWave, WorkerStates
  <2> QED BY <1>1, <2>1, <2>2, <2>3 DEF StartWave
<1>2. CASE JoinWave
  <2>1. attempt' \in 0..(Retry + 1)
    BY <1>2 DEF JoinWave, WaveInv
  <2>2. wave' \in Seq(Jobs) /\ next' \in 1..(Len(wave') + 1)
    BY <1>2 DEF JoinWave
  <2>3. earlier' \in Nat /\ tokens' \in Nat /\ main' = "loop"
    BY <1>2 DEF JoinWave
  <2> QED BY <1>2, <2>1, <2>2, <2>3 DEF JoinWave
<1>3. CASE Return
  BY <1>3 DEF Return
<1>4. CASE ProducerGivesUp \/ ProducerAdmits \/ ProducerCloses
  BY <1>4 DEF ProducerGivesUp, ProducerAdmits, ProducerCloses
<1>5. ASSUME NEW w \in Workers, Handoff(w) PROVE TypeOK'
  <2>1. next \in 1..Len(wave)
    BY <1>5 DEF Handoff, WorkerInv
  <2>2. wave[next] \in Jobs
    BY <2>1
  <2>3. next' \in 1..(Len(wave') + 1)
    BY <1>5, <2>1 DEF Handoff
  <2> QED BY <1>5, <2>2, <2>3 DEF Handoff, WorkerStates
<1>6. ASSUME NEW w \in Workers, RangeEnds(w) \/ DropJob(w) \/ StartJob(w) PROVE TypeOK'
  BY <1>6 DEF RangeEnds, DropJob, StartJob, WorkerStates
<1>7. ASSUME NEW w \in Workers, FinishJob(w) PROVE TypeOK'
  BY <1>7 DEF FinishJob, WorkerStates
<1>8. ASSUME NEW w \in Workers, CheckBudget(w) PROVE TypeOK'
  <2>1. stopFlag' \in BOOLEAN
    BY <1>8 DEF CheckBudget, BudgetReached
  <2> QED BY <1>8, <2>1 DEF CheckBudget, WorkerStates
<1>9. ASSUME NEW w \in Workers, Record(w) PROVE TypeOK'
  <2>1. holding[w] \in Jobs /\ result[w] \in Results
    BY <1>9 DEF Record, WorkerInv, Executing
  <2>2. report' \in [Jobs -> Tally]
    BY <1>9, <2>1 DEF Record, Tally
  <2>3. failed' \in Seq(Jobs)
    BY <1>9, <2>1 DEF Record
  <2> QED BY <1>9, <2>2, <2>3 DEF Record, WorkerStates
<1>10. CASE ContextEnds
  BY <1>10 DEF ContextEnds
<1>11. CASE UNCHANGED vars
  BY <1>11 DEF vars
<1> QED
  BY <1>1, <1>2, <1>3, <1>4, <1>5, <1>6, <1>7, <1>8, <1>9, <1>10, <1>11
  DEF Next, Main, Producer, Worker, Finished
-----------------------------------------------------------------------------
(* The inductive invariant *)

LEMMA InitInductive == Init => Inductive
<1> SUFFICES ASSUME Init PROVE Inductive
  OBVIOUS
<1>1. TypeOK
  BY InitType
<1>2. \A j \in Jobs : Errors(j) = 0 /\ Settled(j) = 0 /\ Attempts(j) = 0
  BY DEF Init, Errors, Settled, Attempts, Results
<1>3. WaveInv
  BY <1>2 DEF Init, WaveInv, Distinct, Jobs
<1>4. WorkerInv
  BY DEF Init, WorkerInv, OneWorkerPerJob, Executing
<1>5. JobInv
  BY DEF Init, JobInv
<1>6. SettledInv
  BY <1>2 DEF SettledInv
<1> QED BY <1>1, <1>3, <1>4, <1>5, <1>6 DEF Inductive

\* What a job has in the report only changes with the report.
LEMMA SameReport ==
  ASSUME UNCHANGED report
  PROVE  \A j : Errors(j)' = Errors(j) /\ Settled(j)' = Settled(j) /\ Attempts(j)' = Attempts(j)
BY DEF Errors, Settled, Attempts

LEMMA StartWaveStep ==
  ASSUME Inductive, TypeOK', StartWave PROVE Inductive'
<1> USE DEF Inductive
<1>1. UNCHANGED <<attempt, wave, holding, result, report>> /\ main = "loop" /\ main' = "batch"
  BY DEF StartWave
<1>2. \A w \in Workers : pc[w] = "exited" /\ holding[w] = 0 /\ result[w] = "none"
  BY <1>1 DEF WaveInv, WorkerInv, Executing, TypeOK
<1>3. WaveInv'
  BY <1>1, SameReport DEF StartWave, MoreWaves, WaveInv
<1>4. WorkerInv'
  BY <1>1, <1>2 DEF StartWave, WorkerInv, OneWorkerPerJob, Executing
<1>5. JobInv'
  <2>1. failed' = << >> /\ next' = 1 /\ Len(failed') = 0
    BY DEF StartWave
  <2>2. Distinct(failed)' /\ \A j \in Jobs : ~Failing(j)'
    BY <2>1 DEF Distinct, Failing
  <2>3. \A j \in Jobs : ~Held(j)'
    BY <1>1, <1>2 DEF Held, Jobs
  <2>4. \A j \in Jobs : Pending(j)' => Errors(j) = attempt /\ Settled(j) = 0
    BY <1>1, <2>1 DEF Pending, WaveInv
  <2>5. \A j \in Jobs : Attempts(j)' <= attempt + 1
    BY <1>1, SameReport DEF WaveInv, TypeOK, Attempts, Errors, Settled, Tally, Results
  <2> QED BY <1>1, <2>2, <2>3, <2>4, <2>5, SameReport DEF JobInv
<1>6. SettledInv'
  BY <1>1, SameReport DEF SettledInv
<1> QED BY <1>3, <1>4, <1>5, <1>6

LEMMA JoinWaveStep ==
  ASSUME Inductive, TypeOK', JoinWave PROVE Inductive'
<1> USE DEF Inductive
<1>1. /\ UNCHANGED <<pc, holding, result, report, producer>> /\ main = "batch" /\ main' = "loop"
      /\ attempt' = attempt + 1 /\ wave' = failed /\ producer = "done"
      /\ \A w \in Workers : pc[w] = "exited"
  BY DEF JoinWave, workVars
<1>2. \A j \in Jobs : Failing(j) => Errors(j) = attempt + 1 /\ Settled(j) = 0
  BY <1>1 DEF JobInv
<1>3. WaveInv'
  <2>1. Distinct(wave)'
    BY <1>1 DEF JobInv, Distinct
  <2>2. \A i \in 1..Len(failed) : failed[i] \in Jobs /\ Failing(failed[i])
    BY DEF Failing, TypeOK
  <2>3. \A i \in 1..Len(wave') : Errors(wave[i])' = attempt' /\ Settled(wave[i])' = 0
    BY <1>1, <1>2, <2>2, SameReport DEF Errors, Settled
  <2>4. \A j \in Jobs : Attempts(j)' <= attempt'
    BY <1>1, SameReport DEF JobInv
  <2> QED BY <1>1, <2>1, <2>3, <2>4 DEF WaveInv
<1>4. WorkerInv'
  BY <1>1 DEF WorkerInv, OneWorkerPerJob, Executing
<1>5. JobInv'
  BY <1>1 DEF JobInv
<1>6. SettledInv'
  BY <1>1, SameReport DEF SettledInv
<1> QED BY <1>3, <1>4, <1>5, <1>6

\* Steps that change neither the report nor who holds which job.
LEMMA QuietStep ==
  ASSUME Inductive, TypeOK',
         \/ Return \/ ProducerGivesUp \/ ProducerAdmits \/ ProducerCloses \/ ContextEnds
         \/ UNCHANGED vars
  PROVE  Inductive'
<1> USE DEF Inductive
<1>1. UNCHANGED <<attempt, wave, failed, next, pc, holding, result, report>>
  BY DEF Return, ProducerGivesUp, ProducerAdmits, ProducerCloses, ContextEnds,
         vars, runVars, batchVars, prodVars, workVars
<1>2. main' = main \/ (main = "loop" /\ main' = "returned")
  BY DEF Return, ProducerGivesUp, ProducerAdmits, ProducerCloses, ContextEnds, vars, runVars
<1>3. WaveInv'
  BY <1>1, <1>2, SameReport DEF WaveInv
<1>4. WorkerInv'
  <2>1. /\ producer' = "send" => next <= Len(wave)
        /\ producer' # "done" => producer # "done" /\ main' = main
    BY <1>2 DEF WorkerInv, Return, ProducerGivesUp, ProducerAdmits, ProducerCloses,
                ContextEnds, vars, runVars, prodVars
  <2> QED BY <1>1, <2>1 DEF WorkerInv, OneWorkerPerJob
<1>5. JobInv'
  BY <1>1, <1>2, SameReport DEF JobInv, Pending, Held, Failing
<1>6. SettledInv'
  BY <1>1, SameReport DEF SettledInv
<1> QED BY <1>3, <1>4, <1>5, <1>6

\* The job handed over was pending, so no other worker holds it.
LEMMA HandoffStep ==
  ASSUME Inductive, TypeOK', NEW w \in Workers, Handoff(w)
  PROVE  Inductive'
<1> USE DEF Inductive
<1>1. /\ UNCHANGED <<main, attempt, wave, failed, result, report>>
      /\ next \in 1..Len(wave) /\ next' = next + 1 /\ main = "batch"
      /\ pc[w] = "receive" /\ producer' = "check"
  BY DEF Handoff, runVars, batchVars, WorkerInv, TypeOK
<1>2. /\ pc'[w] = "received" /\ holding'[w] = wave[next] /\ holding[w] = 0 /\ result[w] = "none"
      /\ \A v \in Workers \ {w} : pc'[v] = pc[v] /\ holding'[v] = holding[v]
  BY <1>1 DEF Handoff, TypeOK, WorkerInv, Executing
<1>3. wave[next] \in Jobs /\ wave[next] # 0 /\ Pending(wave[next])
  BY <1>1 DEF TypeOK, Pending, Jobs
<1>4. \A v \in Workers : holding[v] # wave[next]
  <2>1. /\ next \in Int /\ Len(wave) \in Int
        /\ \A i, k \in 1 .. Len(wave) : wave[i] = wave[k] => i = k
    BY <1>1 DEF WaveInv, Distinct, TypeOK
  <2>2. \A v \in Workers : holding[v] # 0 => \E i \in 1 .. next - 1 : wave[i] = holding[v]
    BY DEF WorkerInv
  <2>3. \A i \in 1 .. next - 1 : wave[i] # wave[next]
    BY <1>1, <2>1
  <2> QED BY <1>3, <2>2, <2>3
<1>5. WaveInv'
  BY <1>1, SameReport DEF WaveInv
<1>6. WorkerInv'
  <2>1. OneWorkerPerJob'
    BY <1>2, <1>4 DEF WorkerInv, OneWorkerPerJob
  <2>2. \A v \in Workers :
          /\ pc'[v] \in {"received"} \cup Executing <=> holding'[v] # 0
          /\ pc'[v] \in {"counted", "checked"} <=> result'[v] # "none"
    BY <1>1, <1>2, <1>3 DEF WorkerInv, Executing
  <2>3. \A v \in Workers : holding'[v] # 0 => \E i \in 1..(next' - 1) : wave'[i] = holding'[v]
    <3>1. next \in 1..(next' - 1) /\ 1..(next - 1) \subseteq 1..(next' - 1)
      BY <1>1
    <3>2. \A v \in Workers \ {w} : holding[v] # 0 => \E i \in 1..(next - 1) : wave[i] = holding[v]
      BY DEF WorkerInv
    <3> QED BY <1>1, <1>2, <3>1, <3>2
  <2> QED BY <1>1, <2>1, <2>2, <2>3 DEF WorkerInv
<1>7. JobInv'
  <2>1. \A j \in Jobs : (Pending(j)' => Pending(j)) /\ (Failing(j)' <=> Failing(j))
    BY <1>1 DEF Pending, Failing
  <2>2. \A j \in Jobs : Held(j)' => Held(j) \/ j = wave[next]
    BY <1>2 DEF Held
  <2> QED BY <1>1, <1>3, <2>1, <2>2, SameReport DEF JobInv, Distinct
<1>8. SettledInv'
  BY <1>1, SameReport DEF SettledInv
<1> QED BY <1>5, <1>6, <1>7, <1>8

\* A worker moves on without reporting.
LEMMA WorkStep ==
  ASSUME Inductive, TypeOK', NEW w \in Workers,
         RangeEnds(w) \/ DropJob(w) \/ StartJob(w) \/ FinishJob(w) \/ CheckBudget(w)
  PROVE  Inductive'
<1> USE DEF Inductive
<1>1. UNCHANGED <<main, attempt, wave, failed, producer, next, report>>
  BY DEF RangeEnds, DropJob, StartJob, FinishJob, CheckBudget, runVars, batchVars, prodVars
<1>2. /\ pc[w] # "exited"
      /\ \A v \in Workers \ {w} : pc'[v] = pc[v] /\ holding'[v] = holding[v] /\ result'[v] = result[v]
      /\ holding'[w] \in {0, holding[w]}
      /\ pc'[w] \in {"received"} \cup Executing <=> holding'[w] # 0
      /\ pc'[w] \in {"counted", "checked"} <=> result'[w] # "none"
  <2> USE DEF TypeOK, WorkerInv, Executing
  <2>1. CASE RangeEnds(w)
    BY <2>1 DEF RangeEnds
  <2>2. CASE DropJob(w)
    BY <2>2 DEF DropJob
  <2>3. CASE StartJob(w)
    BY <2>3 DEF StartJob
  <2>4. CASE FinishJob(w)
    BY <2>4 DEF FinishJob, Results
  <2>5. CASE CheckBudget(w)
    BY <2>5 DEF CheckBudget
  <2> QED BY <2>1, <2>2, <2>3, <2>4, <2>5
<1>3. main = "batch"
  BY <1>2 DEF WaveInv
<1>4. WaveInv'
  BY <1>1, <1>3, SameReport DEF WaveInv
<1>5. WorkerInv'
  BY <1>1, <1>2 DEF WorkerInv, OneWorkerPerJob
<1>6. JobInv'
  <2>1. \A j \in Jobs : Held(j)' => Held(j)
    BY <1>2 DEF Held, Jobs
  <2> QED BY <1>1, <2>1, SameReport DEF JobInv, Pending, Failing
<1>7. SettledInv'
  BY <1>1, SameReport DEF SettledInv
<1> QED BY <1>4, <1>5, <1>6, <1>7
\* The reported job leaves its worker; an error sends it to the next wave.
LEMMA RecordStep ==
  ASSUME Inductive, TypeOK', NEW w \in Workers, Record(w)
  PROVE  Inductive'
<1> USE DEF Inductive
<1>0. PICK job \in Jobs : holding[w] = job
  BY DEF Record, TypeOK, WorkerInv, Executing
<1>1. /\ UNCHANGED <<main, attempt, wave, producer, next>>
      /\ pc[w] = "checked" /\ holding[w] = job /\ result[w] \in Results /\ main = "batch"
  BY <1>0 DEF Record, runVars, prodVars, TypeOK, WorkerInv, WaveInv, Executing
<1>2. /\ pc'[w] = "receive" /\ holding'[w] = 0 /\ result'[w] = "none"
      /\ \A v \in Workers \ {w} : pc'[v] = pc[v] /\ holding'[v] = holding[v] /\ result'[v] = result[v]
  BY DEF Record, TypeOK
<1>3. Held(job) /\ Errors(job) = attempt /\ Settled(job) = 0 /\ ~Failing(job)
  BY <1>1 DEF Held, JobInv
<1>4. ~Held(job)'
  BY <1>1, <1>2 DEF Held, WorkerInv, OneWorkerPerJob, Jobs
<1>5. ~Pending(job)
  <2>1. PICK i \in 1..(next - 1) : wave[i] = job
    BY <1>1 DEF WorkerInv, Jobs
  <2>2. next \in 1..(Len(wave) + 1) /\ Len(wave) \in Nat
    BY DEF TypeOK
  <2>3. \A k \in next..Len(wave) : k \in 1..Len(wave) /\ i \in 1..Len(wave) /\ k # i
    BY <2>2
  <2> QED BY <2>1, <2>3 DEF Pending, WaveInv, Distinct
<1>6. \A j \in Jobs : j # job => Errors(j)' = Errors(j) /\ Settled(j)' = Settled(j)
                                   /\ Attempts(j)' = Attempts(j)
  BY <1>1 DEF Record, Errors, Settled, Attempts, TypeOK
<1>7. /\ Errors(job) \in Nat /\ Settled(job) \in Nat
      /\ result[w] = "errored" => Errors(job)' = Errors(job) + 1 /\ Settled(job)' = 0
      /\ result[w] # "errored" => Errors(job)' = Errors(job) /\ Settled(job)' = 1
      /\ Attempts(job)' = attempt + 1
  <2>1. report[job] \in [Results -> Nat]
    BY <1>1 DEF TypeOK, Tally
  <2>2. report'[job] = [report[job] EXCEPT ![result[w]] = @ + 1]
    BY <1>1 DEF Record, TypeOK
  <2>3. report[job]["passed"] = 0 /\ report[job]["failed"] = 0
    BY <1>3, <2>1 DEF Settled, Results
  <2>4. CASE result[w] = "errored"
    BY <1>3, <2>1, <2>2, <2>3, <2>4 DEF Errors, Settled, Attempts, Results
  <2>5. CASE result[w] = "passed"
    BY <1>3, <2>1, <2>2, <2>3, <2>5 DEF Errors, Settled, Attempts, Results
  <2>6. CASE result[w] = "failed"
    BY <1>3, <2>1, <2>2, <2>3, <2>6 DEF Errors, Settled, Attempts, Results
  <2> QED BY <1>1, <2>4, <2>5, <2>6 DEF Results
<1>8. /\ \A j \in Jobs : Failing(j)' <=> Failing(j) \/ (result[w] = "errored" /\ j = job)
      /\ Distinct(failed)'
  <2>1. CASE result[w] = "errored"
    <3>1. failed' = Append(failed, job) /\ failed \in Seq(Jobs)
      BY <1>1, <2>1 DEF Record, TypeOK
    <3>2. /\ Len(failed') = Len(failed) + 1 /\ failed'[Len(failed) + 1] = job
          /\ \A i \in 1..Len(failed) : failed'[i] = failed[i]
      BY <1>1, <3>1
    <3>3. \A j \in Jobs : Failing(j)' <=> Failing(j) \/ j = job
      BY <3>1, <3>2 DEF Failing
    <3>4. Distinct(failed)'
      BY <1>1, <1>3, <3>1, <3>2 DEF JobInv, Distinct, Failing
    <3> QED BY <2>1, <3>3, <3>4
  <2>2. CASE result[w] # "errored"
    BY <1>1, <2>2 DEF Record, Failing, JobInv, Distinct
  <2> QED BY <2>1, <2>2
<1>9. WaveInv'
  BY <1>1 DEF WaveInv
<1>10. WorkerInv'
  BY <1>1, <1>2 DEF WorkerInv, OneWorkerPerJob, Executing
<1>11. JobInv'
  <2>1. \A j \in Jobs : (Held(j)' => Held(j)) /\ (Pending(j)' <=> Pending(j))
    BY <1>1, <1>2 DEF Held, Pending, Jobs
  <2>2. ASSUME NEW j \in Jobs, j # job
        PROVE  /\ Pending(j)' \/ Held(j)' => /\ Errors(j)' = attempt' /\ Settled(j)' = 0
                                             /\ ~Failing(j)'
               /\ Failing(j)' => Errors(j)' = attempt' + 1 /\ Settled(j)' = 0
               /\ Attempts(j)' <= attempt' + 1
    BY <1>1, <1>6, <1>8, <2>1, <2>2 DEF JobInv
  <2>3. /\ ~Pending(job)' /\ ~Held(job)'
        /\ Failing(job)' => Errors(job)' = attempt' + 1 /\ Settled(job)' = 0
        /\ Attempts(job)' <= attempt' + 1
    BY <1>1, <1>3, <1>4, <1>5, <1>7, <1>8, <2>1 DEF TypeOK
  <2> QED BY <1>1, <1>8, <2>2, <2>3 DEF JobInv
<1>12. SettledInv'
  BY <1>1, <1>6, <1>7 DEF SettledInv
<1> QED BY <1>9, <1>10, <1>11, <1>12

LEMMA StepInductive == Inductive /\ [Next]_vars => Inductive'
<1> SUFFICES ASSUME Inductive, [Next]_vars PROVE Inductive'
  OBVIOUS
<1>1. TypeOK'
  BY TypeStep DEF Inductive
<1> QED
  BY <1>1, StartWaveStep, JoinWaveStep, QuietStep, HandoffStep, WorkStep, RecordStep
  DEF Next, Main, Producer, Worker, Finished

LEMMA InductiveInvariant == Spec => []Inductive
BY InitInductive, StepInductive, PTL DEF Spec

\* Every reachable state is of the declared types, whatever the constants.
THEOREM TypeCorrect == Spec => []TypeOK
<1>1. Inductive => TypeOK
  BY DEF Inductive
<1> QED BY <1>1, InductiveInvariant, PTL

\* No two workers ever execute the same job.
THEOREM NoSharedJob == Spec => []OneWorkerPerJob
<1>1. Inductive => OneWorkerPerJob
  BY DEF Inductive, WorkerInv
<1> QED BY <1>1, InductiveInvariant, PTL

\* A job with a verdict is never run again.
THEOREM VerdictIsFinal == Spec => []SettledOnce
<1>1. Inductive => SettledOnce
  <2> SUFFICES ASSUME Inductive, NEW w \in Workers, pc[w] \in Executing
               PROVE  Settled(holding[w]) = 0
    BY DEF Inductive, SettledInv, SettledOnce
  <2>1. main = "batch" /\ holding[w] \in Jobs
    BY DEF Inductive, WaveInv, WorkerInv, TypeOK, Executing
  <2> QED BY <2>1 DEF Inductive, JobInv, Held
<1> QED BY <1>1, InductiveInvariant, PTL

\* A job in retry wave k has errored in each of the k waves before, and no job
\* is attempted more than Retry + 1 times.
THEOREM OnlyErrorsAreRetried == Spec => []RetriesFollowErrors
<1>1. Inductive /\ SettledOnce => RetriesFollowErrors
  <2> SUFFICES ASSUME Inductive, SettledOnce PROVE RetriesFollowErrors
    OBVIOUS
  <2>1. ASSUME NEW w \in Workers, pc[w] \in Executing PROVE Errors(holding[w]) = attempt
    <3>1. main = "batch" /\ holding[w] \in Jobs
      BY <2>1 DEF Inductive, WaveInv, WorkerInv, TypeOK, Executing
    <3> QED BY <3>1 DEF Inductive, JobInv, Held
  <2>2. ASSUME NEW j \in Jobs PROVE Attempts(j) <= Retry + 1
    <3>1. attempt \in 0..(Retry + 1) /\ Attempts(j) \in Nat
      BY DEF Inductive, TypeOK, Attempts, Errors, Settled, Tally, Results
    <3>2. CASE main = "batch"
      BY <3>1, <3>2 DEF Inductive, JobInv, WaveInv
    <3>3. CASE main # "batch"
      BY <3>1, <3>3 DEF Inductive, WaveInv
    <3> QED BY <3>2, <3>3
  <2> QED BY <2>1, <2>2 DEF RetriesFollowErrors
<1> QED BY <1>1, InductiveInvariant, VerdictIsFinal, PTL

-----------------------------------------------------------------------------
(* What a benchmark comes to: no job is lost, the budget is overshot by    *)
(* less than a run per worker, and the pool implements JobLedger.          *)
-----------------------------------------------------------------------------
(* No job is lost *)

LEMMA InitKeep == Init => KeepInv
<1> SUFFICES ASSUME Init PROVE KeepInv
  OBVIOUS
<1>0. wave \in Seq(Jobs) /\ Len(wave) = NumJobs
  BY DEF Init, Jobs
<1>1. \A j \in Jobs : j \in 1..Len(wave) /\ wave[j] = j
  BY <1>0 DEF Init, Jobs
<1>2. \A j \in Jobs : \E i \in 1..Len(wave) : wave[i] = j
  BY <1>1
<1> QED BY <1>2 DEF Init, KeepInv

LEMMA SumBelow ==
  ASSUME NEW a \in Nat, NEW b \in Nat, NEW c \in Nat, NEW d \in Nat, NEW m \in Int,
         a + b <= c + d, c + d < m
  PROVE  a + b < m
OBVIOUS

\* What was cut short stays cut short: the tokens of all the waves only grow.
LEMMA CutStaysCut ==
  ASSUME Inductive, KeepInv, [Next]_vars, Uncut'
  PROVE  Uncut
<1>1. /\ ended => ended'
      /\ earlier \in Nat /\ tokens \in Nat
      /\ earlier' \in Nat /\ tokens' \in Nat /\ earlier + tokens <= earlier' + tokens'
  <2> USE DEF Inductive, TypeOK, runVars, batchVars, prodVars, workVars
  <2>1. CASE StartWave
    BY <2>1 DEF StartWave, KeepInv
  <2>2. CASE JoinWave
    BY <2>2 DEF JoinWave
  <2>3. CASE Return \/ ProducerGivesUp \/ ProducerAdmits \/ ProducerCloses \/ ContextEnds
    BY <2>3 DEF Return, ProducerGivesUp, ProducerAdmits, ProducerCloses, ContextEnds
  <2>4. ASSUME NEW w \in Workers,
               Handoff(w) \/ RangeEnds(w) \/ DropJob(w) \/ StartJob(w) \/ CheckBudget(w) \/ Record(w)
        PROVE  UNCHANGED <<ended, earlier, tokens>>
    BY <2>4 DEF Handoff, RangeEnds, DropJob, StartJob, CheckBudget, Record
  <2>5. ASSUME NEW w \in Workers, FinishJob(w)
        PROVE  ended' = ended /\ earlier' = earlier /\ tokens' \in Nat /\ tokens <= tokens'
    BY <2>5 DEF FinishJob
  <2>6. CASE UNCHANGED vars
    BY <2>6 DEF vars
  <2> QED BY <2>1, <2>2, <2>3, <2>4, <2>5, <2>6 DEF Next, Main, Producer, Worker, Finished
<1>2. ~ended
  BY <1>1 DEF Uncut
<1>3. MaxTokens > 0 => earlier + tokens < MaxTokens
  <2> SUFFICES ASSUME MaxTokens > 0 PROVE earlier + tokens < MaxTokens
    OBVIOUS
  <2>1. MaxTokens \in Int /\ earlier' + tokens' < MaxTokens
    BY DEF Uncut
  <2>2. /\ earlier \in Nat /\ tokens \in Nat /\ earlier' \in Nat /\ tokens' \in Nat
        /\ earlier + tokens <= earlier' + tokens'
    BY <1>1
  <2> QED BY <2>1, <2>2, SumBelow
<1> QED BY <1>2, <1>3 DEF Uncut

\* Where an uncut benchmark keeps a job.
Kept(j) ==
  \/ Settled(j) = 1
  \/ main # "batch" /\ \E i \in 1..Len(wave) : wave[i] = j
  \/ main = "batch" /\ (Pending(j) \/ Held(j) \/ Failing(j))

LEMMA KeptStep ==
  ASSUME Inductive, KeepInv, [Next]_vars, Uncut, Uncut', NEW j \in Jobs, Kept(j)
  PROVE  Kept(j)'
<1> USE DEF Inductive
<1>0. ~ended /\ ~ended' /\ (main = "batch" => ~stopFlag)
  BY DEF Uncut, KeepInv, BudgetReached, TypeOK
<1>1. CASE StartWave
  <2>1. main # "batch" /\ main' = "batch" /\ wave' = wave /\ next' = 1 /\ report' = report
    BY <1>1 DEF StartWave
  <2> QED BY <2>1, SameReport DEF Kept, Pending
<1>2. CASE JoinWave
  <2>1. /\ main = "batch" /\ main' = "loop" /\ wave' = failed /\ report' = report
        /\ producer = "done" /\ \A w \in Workers : pc[w] = "exited"
    BY <1>2 DEF JoinWave
  <2>2. ~Pending(j)
    BY <2>1, <1>0 DEF KeepInv, Pending, TypeOK
  <2>3. ~Held(j)
    BY <2>1 DEF Held, WorkerInv, Executing, Jobs
  <2> QED BY <2>1, <2>2, <2>3, SameReport DEF Kept, Failing
<1>3. CASE Return \/ ProducerGivesUp \/ ProducerAdmits \/ ProducerCloses \/ UNCHANGED vars
  <2>1. /\ UNCHANGED <<wave, failed, next, holding, report>>
        /\ main' = main \/ (main = "loop" /\ main' = "returned")
    BY <1>3 DEF Return, ProducerGivesUp, ProducerAdmits, ProducerCloses,
                vars, runVars, batchVars, prodVars, workVars
  <2> QED BY <2>1, SameReport DEF Kept, Pending, Held, Failing
<1>4. CASE ContextEnds
  BY <1>0, <1>4 DEF ContextEnds
<1>5. ASSUME NEW w \in Workers, Handoff(w) PROVE Kept(j)'
  <2>1. /\ UNCHANGED <<main, wave, failed, report>>
        /\ next \in 1..Len(wave) /\ next' = next + 1 /\ main = "batch" /\ holding[w] = 0
    BY <1>5 DEF Handoff, runVars, batchVars, WorkerInv, TypeOK, Executing
  <2>2. /\ holding'[w] = wave[next]
        /\ \A v \in Workers \ {w} : holding'[v] = holding[v]
    BY <1>5 DEF Handoff, TypeOK
  <2>3. Held(j) => Held(j)'
    BY <2>1, <2>2 DEF Held, Jobs
  <2>4. Pending(j) => Pending(j)' \/ Held(j)'
    <3> SUFFICES ASSUME NEW i \in next..Len(wave), wave[i] = j PROVE Pending(j)' \/ Held(j)'
      BY DEF Pending
    <3>1. CASE i = next
      BY <3>1, <2>2 DEF Held
    <3>2. CASE i # next
      <4>1. i \in next'..Len(wave') /\ wave'[i] = j
        BY <3>2, <2>1
      <4> QED BY <4>1 DEF Pending
    <3> QED BY <3>1, <3>2
  <2>5. Settled(j)' = Settled(j) /\ (Failing(j) => Failing(j)')
    BY <2>1, SameReport DEF Failing
  <2> QED BY <2>1, <2>3, <2>4, <2>5 DEF Kept
<1>6. ASSUME NEW w \in Workers,
             RangeEnds(w) \/ DropJob(w) \/ StartJob(w) \/ FinishJob(w) \/ CheckBudget(w)
      PROVE  Kept(j)'
  <2>1. main = "batch"
    BY <1>6 DEF WaveInv, RangeEnds, DropJob, StartJob, FinishJob, CheckBudget
  <2>2. ~DropJob(w)
    BY <1>0, <2>1 DEF DropJob
  <2>3. UNCHANGED <<main, wave, failed, next, holding, report>>
    BY <1>6, <2>2 DEF RangeEnds, StartJob, FinishJob, CheckBudget, runVars, batchVars, prodVars
  <2> QED BY <2>3, SameReport DEF Kept, Pending, Held, Failing
<1>7. ASSUME NEW w \in Workers, Record(w) PROVE Kept(j)'
  <2>1. /\ UNCHANGED <<main, wave, next>> /\ main = "batch" /\ result[w] \in Results
        /\ pc[w] = "checked" /\ holding[w] \in Jobs
    BY <1>7 DEF Record, runVars, prodVars, TypeOK, WorkerInv, WaveInv, Executing
  <2>2. \A v \in Workers \ {w} : holding'[v] = holding[v]
    BY <1>7 DEF Record, TypeOK
  <2>3. Failing(j) => Failing(j)'
    <3>1. failed' = failed \/ failed' = Append(failed, holding[w])
      BY <1>7 DEF Record
    <3>2. failed \in Seq(Jobs) /\ holding[w] \in Jobs
      BY <2>1 DEF TypeOK
    <3>3. \A i \in 1..Len(failed) : i \in 1..Len(failed') /\ failed'[i] = failed[i]
      BY <3>1, <3>2
    <3> QED BY <3>3 DEF Failing
  <2>4. CASE holding[w] = j /\ result[w] = "errored"
    <3>1. failed' = Append(failed, j) /\ failed \in Seq(Jobs)
      BY <1>7, <2>4 DEF Record, TypeOK
    <3>2. Len(failed) + 1 \in 1..Len(failed') /\ failed'[Len(failed) + 1] = j
      BY <3>1
    <3>3. Failing(j)'
      BY <3>2 DEF Failing
    <3> QED BY <2>1, <3>3 DEF Kept
  <2>5. CASE holding[w] = j /\ result[w] # "errored"
    <3>1. Settled(j) = 0 /\ report[j] \in [Results -> Nat]
      BY <2>1, <2>5 DEF JobInv, Held, TypeOK, Tally
    <3>2. report[j]["passed"] = 0 /\ report[j]["failed"] = 0
      BY <3>1 DEF Settled, Results
    <3>3. report'[j] = [report[j] EXCEPT ![result[w]] = @ + 1]
      BY <1>7, <2>5 DEF Record, TypeOK
    <3>4. result[w] \in {"passed", "failed"}
      BY <2>1, <2>5 DEF Results
    <3>5. Settled(j)' = 1
      BY <3>1, <3>2, <3>3, <3>4 DEF Settled, Results
    <3> QED BY <3>5 DEF Kept
  <2>6. CASE holding[w] # j
    <3>1. Settled(j)' = Settled(j)
      BY <1>7, <2>1, <2>6 DEF Record, Settled, TypeOK
    <3>2. Held(j) => Held(j)'
      BY <2>2, <2>6 DEF Held
    <3>3. Pending(j) => Pending(j)'
      BY <2>1 DEF Pending
    <3> QED BY <2>1, <2>3, <3>1, <3>2, <3>3 DEF Kept
  <2> QED BY <2>4, <2>5, <2>6
<1> QED
  BY <1>1, <1>2, <1>3, <1>4, <1>5, <1>6, <1>7 DEF Next, Main, Producer, Worker, Finished

LEMMA KeepStep == Inductive /\ KeepInv /\ [Next]_vars => KeepInv'
<1> SUFFICES ASSUME Inductive, KeepInv, [Next]_vars PROVE KeepInv'
  OBVIOUS
<1> USE DEF Inductive, TypeOK, runVars, batchVars, prodVars, workVars
<1> DEFINE Cut == /\ main # "batch" => tokens = 0
                  /\ main = "batch" /\ stopFlag => BudgetReached
                  /\ main = "batch" /\ producer = "done" => next > Len(wave) \/ ended \/ stopFlag
                  /\ main = "returned" => wave = << >> \/ attempt > Retry \/ ended
<1>1. Cut'
  <2>0. Cut
    BY DEF KeepInv
  <2>1. CASE StartWave
    BY <2>1 DEF StartWave
  <2>2. CASE JoinWave
    BY <2>2 DEF JoinWave
  <2>3. CASE Return
    BY <2>0, <2>3 DEF Return, MoreWaves
  <2>4. CASE ProducerGivesUp \/ ProducerAdmits \/ ProducerCloses
    BY <2>0, <2>4 DEF ProducerGivesUp, ProducerAdmits, ProducerCloses, BudgetReached
  <2>5. ASSUME NEW w \in Workers, Handoff(w) PROVE Cut'
    BY <2>0, <2>5 DEF Handoff, WorkerInv, BudgetReached
  <2>6. ASSUME NEW w \in Workers, RangeEnds(w) \/ DropJob(w) \/ StartJob(w) \/ Record(w)
        PROVE  Cut'
    <3>1. UNCHANGED <<main, attempt, wave, ended, stopFlag, tokens, producer, next>>
      BY <2>6 DEF RangeEnds, DropJob, StartJob, Record
    <3> QED BY <2>0, <3>1 DEF BudgetReached
  <2>7. ASSUME NEW w \in Workers, FinishJob(w) \/ CheckBudget(w) PROVE Cut'
    <3>1. UNCHANGED <<main, attempt, wave, ended, producer, next>> /\ main = "batch"
      BY <2>7 DEF FinishJob, CheckBudget, WaveInv
    <3>2. /\ tokens' \in Nat /\ tokens <= tokens'
          /\ stopFlag' => stopFlag \/ BudgetReached
          /\ stopFlag => stopFlag'
      BY <2>7 DEF FinishJob, CheckBudget
    <3>3. stopFlag' => BudgetReached'
      BY <2>0, <3>1, <3>2 DEF BudgetReached
    <3> QED BY <2>0, <3>1, <3>2, <3>3
  <2>8. CASE ContextEnds \/ UNCHANGED vars
    BY <2>0, <2>8 DEF ContextEnds, vars, BudgetReached
  <2> QED BY <2>1, <2>2, <2>3, <2>4, <2>5, <2>6, <2>7, <2>8
          DEF Next, Main, Producer, Worker, Finished
<1>2. ASSUME Uncut', NEW j \in Jobs PROVE Kept(j)'
  <2>1. Uncut
    BY <1>2, CutStaysCut
  <2>2. Kept(j)
    BY <2>1 DEF KeepInv, Kept
  <2> QED BY <1>2, <2>1, <2>2, KeptStep
<1> QED BY <1>1, <1>2 DEF KeepInv, Kept

\* A benchmark that returns uncut has a verdict, or an error of every wave, for
\* each of its jobs.
THEOREM EveryJobAccountedFor == Spec => []NoJobLost
<1>1. Inductive /\ KeepInv => NoJobLost
  <2> SUFFICES ASSUME Inductive, KeepInv, main = "returned", ~ended,
                      MaxTokens > 0 => earlier < MaxTokens, NEW j \in Jobs
               PROVE  Settled(j) = 1 \/ Errors(j) = Retry + 1
    BY DEF NoJobLost
  <2>1. tokens = 0 /\ Uncut
    BY DEF Inductive, TypeOK, KeepInv, Uncut
  <2>2. Settled(j) = 1 \/ \E i \in 1..Len(wave) : wave[i] = j
    BY <2>1 DEF KeepInv
  <2>3. ASSUME NEW i \in 1..Len(wave), wave[i] = j PROVE Errors(j) = Retry + 1
    <3>1. Errors(j) = attempt /\ attempt \in 0..(Retry + 1)
      BY <2>3 DEF Inductive, WaveInv, TypeOK
    <3>2. attempt > Retry
      BY <2>3 DEF KeepInv
    <3> QED BY <3>1, <3>2
  <2> QED BY <2>2, <2>3
<1> QED BY <1>1, InitKeep, KeepStep, InductiveInvariant, PTL DEF Spec
-----------------------------------------------------------------------------
(* The budget is overshot by less than a run per worker *)

LEMMA TimesMonotone ==
  ASSUME NEW k \in Nat, NEW a \in Nat, NEW b \in Nat, a <= b
  PROVE  k * a \in Nat /\ k * a <= k * b
OBVIOUS

\* One run less to come, one run's tokens more counted.
LEMMA RunCounted ==
  ASSUME NEW k \in Nat, NEW c \in Nat, NEW d \in Nat, d <= c - 1,
         NEW t \in Nat, NEW u \in Nat, u <= t + k
  PROVE  u + k * d <= t + k * c
<1>1. k * d <= k * (c - 1)
  BY TimesMonotone
<1>2. k * (c - 1) = k * c - k
  OBVIOUS
<1>3. k * d \in Nat /\ k * c \in Nat
  BY TimesMonotone
<1> QED BY <1>1, <1>2, <1>3

LEMMA PoolIsFinite ==
  /\ IsFiniteSet(Workers) /\ Cardinality(Workers) = PoolSize
  /\ \A S \in SUBSET Workers : /\ IsFiniteSet(S) /\ Cardinality(S) \in Nat
                               /\ Cardinality(S) <= PoolSize
<1>1. IsFiniteSet(Workers) /\ Cardinality(Workers) = PoolSize
  BY PoolType, FS_Interval
<1> QED BY <1>1, FS_Subset, FS_CardinalityType

\* The bound on what the wave has consumed and may still consume.
Reserve == tokens + JobTokens * Cardinality(MayAdd)
Ceiling == MaxTokens + PoolSize * JobTokens

LEMMA ReserveType ==
  ASSUME TypeOK
  PROVE  /\ MayAdd \in SUBSET Workers /\ IsFiniteSet(MayAdd)
         /\ Cardinality(MayAdd) \in Nat /\ Cardinality(MayAdd) <= PoolSize
         /\ JobTokens * Cardinality(MayAdd) \in Nat
         /\ JobTokens * Cardinality(MayAdd) <= JobTokens * PoolSize
         /\ tokens \in Nat /\ Reserve \in Nat /\ Ceiling \in Int
         /\ Ceiling = MaxTokens + JobTokens * PoolSize
<1>1. MayAdd \in SUBSET Workers
  BY DEF MayAdd
<1>2. IsFiniteSet(MayAdd) /\ Cardinality(MayAdd) \in Nat /\ Cardinality(MayAdd) <= PoolSize
  BY <1>1, PoolIsFinite
<1>3. /\ JobTokens * Cardinality(MayAdd) \in Nat
      /\ JobTokens * Cardinality(MayAdd) <= JobTokens * PoolSize
  BY <1>2, PoolType, TimesMonotone
<1>4. tokens \in Nat
  BY DEF TypeOK
<1>5. Ceiling \in Int /\ Ceiling = MaxTokens + JobTokens * PoolSize
  BY PoolType DEF Ceiling
<1> QED BY <1>1, <1>2, <1>3, <1>4, <1>5 DEF Reserve

\* Below the budget, the reserve of a full pool stays below the ceiling.
LEMMA BelowBudget ==
  ASSUME TypeOK, MaxTokens > 0, ~BudgetReached
  PROVE  Reserve < Ceiling
<1> DEFINE c == JobTokens * Cardinality(MayAdd)
           p == JobTokens * PoolSize
<1>1. c \in Nat /\ p \in Nat /\ c <= p /\ tokens \in Nat /\ tokens < MaxTokens
  BY ReserveType, PoolType, TimesMonotone DEF BudgetReached
<1>2. Reserve = tokens + c /\ Ceiling = MaxTokens + p
  BY ReserveType DEF Reserve
<1> HIDE DEF c, p
<1> QED BY <1>1, <1>2

\* What a step does to the reserve once the budget is reached: a run that ends
\* turns its share of the reserve into tokens, and nobody joins those who may add.
LEMMA ReserveStep ==
  ASSUME Inductive, [Next]_vars, BudgetReached'
  PROVE  \/ tokens' = tokens /\ MayAdd' \subseteq MayAdd
         \/ \E w \in MayAdd : /\ MayAdd' \subseteq MayAdd \ {w}
                              /\ tokens' <= tokens + JobTokens
<1> USE DEF Inductive, TypeOK, runVars, batchVars, prodVars, workVars
<1>1. CASE StartWave \/ JoinWave
  BY <1>1 DEF StartWave, JoinWave, BudgetReached
<1>2. CASE \/ Return \/ ProducerGivesUp \/ ProducerAdmits \/ ProducerCloses \/ ContextEnds
           \/ UNCHANGED vars
  BY <1>2 DEF Return, ProducerGivesUp, ProducerAdmits, ProducerCloses, ContextEnds, vars, MayAdd
<1>3. ASSUME NEW w \in Workers,
             Handoff(w) \/ RangeEnds(w) \/ DropJob(w) \/ StartJob(w) \/ Record(w)
      PROVE  tokens' = tokens /\ MayAdd' \subseteq MayAdd
  <2>1. UNCHANGED <<tokens, stopFlag>> /\ \A v \in Workers \ {w} : pc'[v] = pc[v]
    BY <1>3 DEF Handoff, RangeEnds, DropJob, StartJob, Record
  <2>2. w \in MayAdd' => w \in MayAdd
    BY <1>3 DEF Handoff, RangeEnds, DropJob, StartJob, Record, MayAdd
  <2> QED BY <2>1, <2>2 DEF MayAdd
<1>4. ASSUME NEW w \in Workers, CheckBudget(w)
      PROVE  tokens' = tokens /\ MayAdd' \subseteq MayAdd
  <2>1. tokens' = tokens /\ stopFlag' /\ pc'[w] = "checked"
        /\ \A v \in Workers \ {w} : pc'[v] = pc[v]
    BY <1>4 DEF CheckBudget, BudgetReached
  <2> QED BY <2>1 DEF MayAdd
<1>5. ASSUME NEW w \in Workers, FinishJob(w)
      PROVE  w \in MayAdd /\ MayAdd' \subseteq MayAdd \ {w} /\ tokens' <= tokens + JobTokens
  <2>1. /\ stopFlag' = stopFlag /\ pc[w] = "running" /\ pc'[w] = "counted"
        /\ \A v \in Workers \ {w} : pc'[v] = pc[v]
    BY <1>5 DEF FinishJob
  <2>2. tokens' <= tokens + JobTokens
    BY <1>5 DEF FinishJob
  <2> QED BY <2>1, <2>2 DEF MayAdd
<1> QED BY <1>1, <1>2, <1>3, <1>4, <1>5 DEF Next, Main, Producer, Worker, Finished

LEMMA OvershootStep == Inductive /\ OvershootInv /\ [Next]_vars => OvershootInv'
<1> SUFFICES ASSUME Inductive, OvershootInv, [Next]_vars, BudgetReached' PROVE (Reserve < Ceiling)'
  BY DEF OvershootInv, Reserve, Ceiling
<1>1. TypeOK /\ TypeOK'
  BY StepInductive DEF Inductive
<1>2. MaxTokens > 0
  BY DEF BudgetReached
<1>3. Reserve < Ceiling
  BY <1>1, <1>2, BelowBudget DEF OvershootInv, Reserve, Ceiling
<1>4. Ceiling' = Ceiling
  BY DEF Ceiling
<1>5. Reserve' \in Nat /\ Reserve' <= Reserve
  <2>0. tokens \in Nat /\ tokens' \in Nat
    BY <1>1 DEF TypeOK
  <2>1. CASE tokens' = tokens /\ MayAdd' \subseteq MayAdd
    <3>1. Cardinality(MayAdd') \in Nat /\ Cardinality(MayAdd) \in Nat
          /\ Cardinality(MayAdd') <= Cardinality(MayAdd)
      BY <2>1, <1>1, ReserveType, FS_Subset, FS_CardinalityType
    <3>2. /\ JobTokens * Cardinality(MayAdd') \in Nat /\ JobTokens * Cardinality(MayAdd) \in Nat
          /\ JobTokens * Cardinality(MayAdd') <= JobTokens * Cardinality(MayAdd)
      BY <3>1, TimesMonotone
    <3> QED BY <2>0, <2>1, <3>2 DEF Reserve
  <2>2. CASE \E w \in MayAdd : /\ MayAdd' \subseteq MayAdd \ {w}
                               /\ tokens' <= tokens + JobTokens
    <3>1. PICK w \in MayAdd : MayAdd' \subseteq MayAdd \ {w} /\ tokens' <= tokens + JobTokens
      BY <2>2
    <3>2. IsFiniteSet(MayAdd \ {w}) /\ Cardinality(MayAdd \ {w}) = Cardinality(MayAdd) - 1
      BY <1>1, ReserveType, FS_RemoveElement
    <3>3. /\ Cardinality(MayAdd') \in Nat /\ Cardinality(MayAdd) \in Nat
          /\ Cardinality(MayAdd') <= Cardinality(MayAdd) - 1
      BY <3>1, <3>2, <1>1, ReserveType, FS_Subset, FS_CardinalityType
    <3>4. JobTokens * Cardinality(MayAdd') \in Nat
      BY <3>3, TimesMonotone
    <3> QED BY <2>0, <3>1, <3>3, <3>4, RunCounted DEF Reserve
  <2> QED BY <2>1, <2>2, ReserveStep
<1>6. Reserve \in Nat /\ Ceiling \in Int
  BY <1>1, ReserveType
<1> QED BY <1>3, <1>4, <1>5, <1>6

\* A wave never consumes MaxTokens plus a run per worker.
THEOREM OvershootBounded == Spec => []BoundedOvershoot
<1>1. Init => OvershootInv
  BY InitType DEF Init, OvershootInv, BudgetReached
<1>2. Inductive /\ OvershootInv => BoundedOvershoot
  <2> SUFFICES ASSUME Inductive, OvershootInv, MaxTokens > 0 PROVE tokens < Ceiling
    BY DEF BoundedOvershoot, Ceiling
  <2>1. TypeOK
    BY DEF Inductive
  <2>2. Reserve < Ceiling
    BY <2>1, BelowBudget DEF OvershootInv, Reserve, Ceiling
  <2>3. tokens \in Nat /\ Ceiling \in Int /\ Reserve \in Nat /\ tokens <= Reserve
    BY <2>1, ReserveType DEF Reserve
  <2> QED BY <2>2, <2>3
<1> QED BY <1>1, <1>2, OvershootStep, InductiveInvariant, PTL DEF Spec
-----------------------------------------------------------------------------
(* The scheduler implements the ledger *)

\* What Ledger sees of the scheduler.
Busy       == {v \in Workers : pc[v] \in Executing}
Running    == {holding[w] : w \in Busy}
ErrorsSeen == [j \in Jobs |-> Errors(j)]
Verdict(j) == IF report[j]["passed"] > 0 THEN "passed"
              ELSE IF report[j]["failed"] > 0 THEN "failed"
              ELSE "none"
Verdicts   == [j \in Jobs |-> Verdict(j)]

\* A worker about to start a job finds a free slot in the ledger: each running
\* job is held by a busy worker, and it is not one of them.
LEMMA FreeSlot ==
  ASSUME Inductive, NEW w \in Workers, w \notin Busy
  PROVE  IsFiniteSet(Running) /\ Cardinality(Running) < PoolSize
<1> DEFINE f == [v \in Busy |-> holding[v]]
<1>1. Busy \in SUBSET (Workers \ {w})
  BY DEF Busy
<1>2. IsFiniteSet(Workers \ {w}) /\ Cardinality(Workers \ {w}) = PoolSize - 1
  BY PoolIsFinite, FS_RemoveElement
<1>3. IsFiniteSet(Busy) /\ Cardinality(Busy) \in Nat /\ Cardinality(Busy) <= PoolSize - 1
  BY <1>1, <1>2, FS_Subset, FS_CardinalityType
<1>4. f \in Surjection(Busy, Running)
  BY DEF Running, Surjection
<1>5. IsFiniteSet(Running) /\ Cardinality(Running) <= Cardinality(Busy)
  BY <1>3, <1>4, FS_Surjection
<1>6. Cardinality(Running) \in Nat
  BY <1>5, FS_CardinalityType
<1> QED BY <1>3, <1>5, <1>6, PoolType

\* A step that leaves the report, and who executes which job, is invisible.
LEMMA Invisible ==
  ASSUME Inductive, NEW w \in Workers, UNCHANGED report,
         \A v \in Workers \ {w} : pc'[v] = pc[v] /\ holding'[v] = holding[v],
         \/ pc[w] \notin Executing /\ pc'[w] \notin Executing
         \/ pc[w] \in Executing /\ pc'[w] \in Executing /\ holding'[w] = holding[w]
  PROVE  UNCHANGED <<Running, ErrorsSeen, Verdicts>>
<1>1. Running' = Running
  <2>1. \A v \in Workers : v \in Busy' <=> v \in Busy
    BY DEF Busy
  <2>2. Busy' = Busy /\ \A v \in Busy : holding'[v] = holding[v]
    BY <2>1 DEF Busy
  <2> QED BY <2>2 DEF Running
<1>2. ErrorsSeen' = ErrorsSeen /\ Verdicts' = Verdicts
  BY DEF ErrorsSeen, Errors, Verdicts, Verdict
<1> QED BY <1>1, <1>2

\* StartJob begins the job it holds.
LEMMA StartBegins ==
  ASSUME Inductive, NEW w \in Workers, StartJob(w)
  PROVE  /\ holding[w] \in Jobs
         /\ holding[w] \notin Running
         /\ Verdicts[holding[w]] = "none"
         /\ ErrorsSeen[holding[w]] <= Retry
         /\ Cardinality(Running) < PoolSize
         /\ Running' = Running \cup {holding[w]}
         /\ UNCHANGED <<ErrorsSeen, Verdicts>>
<1> USE DEF Inductive
<1>1. /\ pc[w] = "received" /\ holding' = holding /\ report' = report
      /\ pc' = [pc EXCEPT ![w] = "running"]
  BY DEF StartJob, batchVars
<1>2. holding[w] \in Jobs /\ holding[w] # 0 /\ main = "batch" /\ w \notin Busy
  BY <1>1 DEF WaveInv, WorkerInv, TypeOK, Busy, Executing
<1>3. holding[w] \notin Running
  BY <1>2 DEF Running, Busy, WorkerInv, OneWorkerPerJob
<1>4. Errors(holding[w]) = attempt /\ Settled(holding[w]) = 0 /\ attempt <= Retry
  BY <1>2 DEF JobInv, WaveInv, Held
<1>5. Verdicts[holding[w]] = "none"
  <2>1. report[holding[w]] \in [Results -> Nat]
    BY <1>2 DEF TypeOK, Tally
  <2>2. report[holding[w]]["passed"] = 0 /\ report[holding[w]]["failed"] = 0
    BY <1>4, <2>1 DEF Settled, Results
  <2> QED BY <1>2, <2>2 DEF Verdicts, Verdict
<1>6. Running' = Running \cup {holding[w]}
  <2>1. Busy' = Busy \cup {w}
    BY <1>1 DEF Busy, Executing, TypeOK
  <2> QED BY <1>1, <2>1 DEF Running
<1>7. UNCHANGED <<ErrorsSeen, Verdicts>>
  BY <1>1 DEF ErrorsSeen, Errors, Verdicts, Verdict
<1> QED BY <1>2, <1>3, <1>4, <1>5, <1>6, <1>7, FreeSlot DEF ErrorsSeen

\* Record ends the run of the job it holds, with an error or with a verdict.
LEMMA RecordEnds ==
  ASSUME Inductive, NEW w \in Workers, Record(w)
  PROVE  /\ holding[w] \in Jobs /\ holding[w] \in Running
         /\ Running' = Running \ {holding[w]}
         /\ \/ /\ ErrorsSeen' = [ErrorsSeen EXCEPT ![holding[w]] = @ + 1]
               /\ Verdicts' = Verdicts
            \/ /\ ErrorsSeen' = ErrorsSeen
               /\ \E v \in {"passed", "failed"} :
                    Verdicts' = [Verdicts EXCEPT ![holding[w]] = v]
<1> USE DEF Inductive
<1> DEFINE job == holding[w]
<1>1. /\ pc[w] = "checked" /\ result[w] \in Results /\ job \in Jobs /\ job # 0
      /\ w \in Busy /\ main = "batch"
  BY DEF Record, TypeOK, WorkerInv, WaveInv, Executing, Busy
<1>2. /\ pc'[w] = "receive" /\ report' = [report EXCEPT ![job][result[w]] = @ + 1]
      /\ \A v \in Workers \ {w} : pc'[v] = pc[v] /\ holding'[v] = holding[v]
  BY DEF Record, TypeOK
<1>3. Running' = Running \ {job}
  <2>1. \A v \in Workers : v \in Busy' <=> v \in Busy /\ v # w
    BY <1>2 DEF Busy, Executing
  <2>2. Busy' = Busy \ {w} /\ \A v \in Busy' : holding'[v] = holding[v]
    BY <1>2, <2>1 DEF Busy
  <2>3. \A v \in Busy \ {w} : holding[v] # job
    BY <1>1 DEF Busy, WorkerInv, OneWorkerPerJob
  <2> QED BY <1>1, <2>2, <2>3 DEF Running
<1>4. Settled(job) = 0
  BY <1>1 DEF JobInv, Held
<1>5. /\ \A j \in Jobs : report[j] \in [Results -> Nat]
      /\ report'[job] = [report[job] EXCEPT ![result[w]] = @ + 1]
      /\ \A j \in Jobs \ {job} : report'[j] = report[j]
      /\ report[job]["passed"] = 0 /\ report[job]["failed"] = 0
  <2>1. \A j \in Jobs : report[j] \in [Results -> Nat]
    BY DEF TypeOK, Tally
  <2>2. report[job]["passed"] = 0 /\ report[job]["failed"] = 0
    BY <1>1, <1>4, <2>1 DEF Settled, Results
  <2> QED BY <1>1, <1>2, <2>1, <2>2 DEF TypeOK
<1> HIDE DEF job
<1>6. CASE result[w] = "errored"
  <2>1. /\ report'[job]["errored"] = report[job]["errored"] + 1
        /\ report'[job]["passed"] = 0 /\ report'[job]["failed"] = 0
    BY <1>1, <1>5, <1>6 DEF Results
  <2>2. ErrorsSeen' = [ErrorsSeen EXCEPT ![job] = @ + 1]
    BY <1>1, <1>5, <2>1 DEF ErrorsSeen, Errors
  <2>3. Verdicts' = Verdicts
    BY <1>1, <1>5, <2>1 DEF Verdicts, Verdict
  <2> QED BY <1>1, <1>3, <2>2, <2>3 DEF Running, job
<1>7. CASE result[w] \in {"passed", "failed"}
  <2>1. /\ report'[job]["errored"] = report[job]["errored"]
        /\ result[w] = "passed" => report'[job]["passed"] = 1
        /\ result[w] = "failed" => report'[job]["passed"] = 0 /\ report'[job]["failed"] = 1
    BY <1>1, <1>5, <1>7 DEF Results
  <2>2. ErrorsSeen' = ErrorsSeen
    BY <1>1, <1>5, <2>1 DEF ErrorsSeen, Errors
  <2>3. Verdicts' = [Verdicts EXCEPT ![job] = result[w]]
    <3>1. \A j \in Jobs \ {job} : Verdicts'[j] = Verdicts[j]
      BY <1>5 DEF Verdicts, Verdict
    <3>2. CASE result[w] = "passed"
      <4>1. Verdicts'[job] = "passed"
        BY <1>1, <2>1, <3>2 DEF Verdicts, Verdict
      <4> QED BY <1>1, <3>1, <3>2, <4>1 DEF Verdicts
    <3>3. CASE result[w] = "failed"
      <4>1. Verdicts'[job] = "failed"
        BY <1>1, <2>1, <3>3 DEF Verdicts, Verdict
      <4> QED BY <1>1, <3>1, <3>3, <4>1 DEF Verdicts
    <3> QED BY <1>7, <3>2, <3>3
  <2> QED BY <1>1, <1>3, <1>7, <2>2, <2>3 DEF Running, job
<1> QED BY <1>1, <1>6, <1>7 DEF Results

\* The instance has a copy of Cardinality of its own.
LEMMA SameCardinality == \A S : Ledger!Cardinality(S) = Cardinality(S)
BY DEF Ledger!Cardinality, Cardinality

\* Every benchmark is a behaviour of the ledger: a job is begun in a free slot
\* and never while it runs, an error may be retried, a verdict is for good.
THEOREM Refinement == Spec => ImplementsLedger
<1> USE DEF Running, Busy, ErrorsSeen, Verdicts, Verdict
<1>1. Init => Ledger!Init
  BY DEF Init, Ledger!Init, Errors, Results, Executing
<1>2. Inductive /\ [Next]_vars => [Ledger!Next]_(Ledger!ledger)
  <2> SUFFICES ASSUME Inductive, [Next]_vars
               PROVE  Ledger!Next \/ UNCHANGED <<Running, ErrorsSeen, Verdicts>>
    BY DEF Ledger!ledger
  <2>1. ASSUME NEW w \in Workers, StartJob(w) PROVE Ledger!Next
    <3>1. PICK j \in Jobs : j = holding[w]
      BY <2>1, StartBegins
    <3>2. Ledger!Begin(j)
      BY <2>1, <3>1, StartBegins, SameCardinality DEF Ledger!Begin
    <3> QED BY <3>1, <3>2 DEF Ledger!Next
  <2>2. ASSUME NEW w \in Workers, Record(w) PROVE Ledger!Next
    <3>1. PICK j \in Jobs : j = holding[w]
      BY <2>2, RecordEnds
    <3>2. Ledger!Err(j) \/ Ledger!Settle(j)
      BY <2>2, <3>1, RecordEnds DEF Ledger!Err, Ledger!Settle
    <3> QED BY <3>1, <3>2 DEF Ledger!Next
  <2>3. ASSUME NEW w \in Workers,
               Handoff(w) \/ RangeEnds(w) \/ DropJob(w) \/ FinishJob(w) \/ CheckBudget(w)
        PROVE  UNCHANGED <<Running, ErrorsSeen, Verdicts>>
    BY <2>3, Invisible
    DEF Inductive, TypeOK, Handoff, RangeEnds, DropJob, FinishJob, CheckBudget, batchVars, Executing
  <2>4. CASE StartWave
    BY <2>4 DEF StartWave, Inductive, WaveInv, Executing, Errors
  <2>5. CASE \/ JoinWave \/ Return \/ ProducerGivesUp \/ ProducerAdmits \/ ProducerCloses
             \/ ContextEnds \/ UNCHANGED vars
    BY <2>5 DEF JoinWave, Return, ProducerGivesUp, ProducerAdmits, ProducerCloses, ContextEnds,
                vars, runVars, batchVars, prodVars, workVars, Errors
  <2> QED BY <2>1, <2>2, <2>3, <2>4, <2>5 DEF Next, Main, Producer, Worker, Finished
<1> QED BY <1>1, <1>2, InductiveInvariant, PTL DEF Spec, ImplementsLedger, Ledger!Spec
=============================================================================
