---------------------------- MODULE OptimizeProofs ----------------------------
(***************************************************************************)
(* What an evaluation promises, for any candidates, tasks and costs: the   *)
(* counts of a report are those of its jobs, and the holdout gate.         *)
(***************************************************************************)
EXTENDS Optimize, FiniteSetTheorems, TLAPS

USE OptimizeAssumption

\* A job is retried only if its first attempt errored, so it is never won twice.
JobInv ==
  /\ todo \cap won = {} /\ again \cap won = {} /\ todo \cap again = {}
  /\ wave = 1 => todo \cap ran = {}
  /\ again \subseteq ran
  /\ IsFiniteSet(won) /\ IsFiniteSet(ran)

Unique(results) == \A a, b \in results : a.variant = b.variant => a = b

\* Nothing is accepted before both benchmarks have run, and then by the gate.
GateInv ==
  /\ Unique(dev) /\ Unique(hold)
  /\ phase # "done" => accepted = {}
  /\ accepted \subseteq Accepted(dev, hold)

Inductive ==
  /\ TypeOK
  /\ JobInv
  /\ RetriesNeverRaiseRate
  /\ GateInv

-----------------------------------------------------------------------------
(* Rates *)

\* Pass rates are ordered: the comparison by cross multiplication is transitive.
LEMMA RateTransitive ==
  ASSUME NEW a \in [passed : Nat, total : Nat \ {0}], NEW b \in [passed : Nat, total : Nat \ {0}],
         NEW c \in [passed : Nat, total : Nat \ {0}], RateAtLeast(a, b), RateAtLeast(b, c)
  PROVE  RateAtLeast(a, c)
<1> DEFINE p == a.passed * c.total
           q == c.passed * a.total
<1>1. a.passed * b.total >= b.passed * a.total /\ b.passed * c.total >= c.passed * b.total
  BY DEF RateAtLeast
<1>2. (a.passed * b.total) * c.total >= (b.passed * a.total) * c.total
  BY <1>1
<1>3. (b.passed * c.total) * a.total >= (c.passed * b.total) * a.total
  BY <1>1
<1>4. /\ (a.passed * b.total) * c.total = p * b.total
      /\ (b.passed * a.total) * c.total = (b.passed * c.total) * a.total
      /\ (c.passed * b.total) * a.total = q * b.total
  OBVIOUS
<1>5. p * b.total >= q * b.total
  BY <1>2, <1>3, <1>4
<1>6. p \in Nat /\ q \in Nat /\ b.total \in Nat \ {0}
  OBVIOUS
<1>7. p >= q
  <2> HIDE DEF p, q
  <2> QED BY <1>5, <1>6
<1> QED BY <1>7 DEF RateAtLeast

-----------------------------------------------------------------------------
(* Rows and results *)

\* The results of a report are typed, and there is one of a harness.
LEMMA ResultsType ==
  ASSUME NEW rep \in [AllNames -> Rows]
  PROVE  Results(rep) \subseteq EvalResults /\ Unique(Results(rep))
<1>1. ASSUME NEW v \in AllNames, rep[v].total > 0
      PROVE  [variant |-> v, passed |-> rep[v].passed, total |-> rep[v].total,
              tokens |-> rep[v].tokens \div rep[v].total, cost |-> rep[v].cost] \in EvalResults
  <2>1. rep[v] \in Rows
    OBVIOUS
  <2>2. rep[v].tokens \in Nat /\ rep[v].total \in Nat \ {0} /\ rep[v].passed \in Nat /\ rep[v].cost \in Nat
    BY <1>1, <2>1 DEF Rows
  <2>3. rep[v].tokens \div rep[v].total \in Nat
    BY <2>2
  <2> QED BY <2>2, <2>3 DEF EvalResults
<1>2. Results(rep) \subseteq EvalResults
  BY <1>1 DEF Results
<1>3. Unique(Results(rep))
  BY DEF Unique, Results
<1> QED BY <1>2, <1>3

\* The front and the gate speak of harnesses with a result.
LEMMA GateType ==
  ASSUME NEW d \in SUBSET EvalResults, NEW h
  PROVE  Accepted(d, h) \subseteq Names /\ Rejected(d, h) \subseteq Names
<1>1. \A r \in d : r.variant \in AllNames
  BY DEF EvalResults
<1>2. Accepted(d, h) \subseteq Names
  BY <1>1 DEF Accepted, Front, AllNames
<1>3. Rejected(d, h) \subseteq Names
  BY <1>1 DEF Rejected, Front, AllNames
<1> QED BY <1>2, <1>3

\* The jobs of harnesses under evaluation are jobs.
LEMMA JobsType ==
  ASSUME NEW vs \in SUBSET Variants, NEW tasks \in SUBSET Tasks
  PROVE  Jobs(vs, tasks) \subseteq Jobs(Variants, Tasks)
BY DEF Jobs

-----------------------------------------------------------------------------
(* One step *)

\* A benchmark begins: nothing has been run, and every count is zero.
LEMMA BenchmarkStep ==
  ASSUME Inductive, NEW vs \in SUBSET Variants, NEW tasks \in SUBSET Tasks, Benchmark(vs, tasks),
         UNCHANGED <<files, hold, accepted, rejected>>, phase # "done",
         phase' \in {"dev", "holdout"}, dev' = dev \/ dev' = Results(report)
  PROVE  Inductive'
<1> USE DEF Benchmark
<1>1. TypeOK'
  <2>1. Jobs(vs, tasks) \subseteq Jobs(Variants, Tasks)
    BY JobsType
  <2>2. NoRow \in Rows /\ NoRow.passed + NoRow.errored <= NoRow.total
    BY DEF NoRow, Rows
  <2>3. report' \in [AllNames -> Rows]
        /\ \A n \in AllNames : report'[n].passed + report'[n].errored <= report'[n].total
    BY <2>2
  <2>4. \A r \in dev' \cup hold' : r \in EvalResults
    BY ResultsType DEF Inductive, TypeOK
  <2> QED BY <2>1, <2>3, <2>4 DEF Inductive, TypeOK
<1>2. JobInv'
  BY FS_EmptySet DEF JobInv
<1>3. RetriesNeverRaiseRate'
  <2>1. \A n \in AllNames : report'[n].passed = 0 /\ report'[n].total = 0
    BY DEF NoRow
  <2>2. Cardinality({}) = 0
    BY FS_EmptySet
  <2>3. \A n \in AllNames : /\ {j \in won' : j.variant.name = n} = {}
                            /\ {j \in ran' : j.variant.name = n} = {}
    OBVIOUS
  <2> QED BY <2>1, <2>2, <2>3 DEF RetriesNeverRaiseRate
<1>4. GateInv'
  <2>1. Unique(dev')
    BY ResultsType DEF Inductive, TypeOK, GateInv
  <2>2. accepted' = {} /\ hold' = hold
    BY DEF Inductive, GateInv
  <2> QED BY <2>1, <2>2 DEF Inductive, GateInv
<1> QED BY <1>1, <1>2, <1>3, <1>4 DEF Inductive

\* An attempt at a job: what it adds to the row of its harness.
LEMMA RunJobStep ==
  ASSUME Inductive, NEW j \in todo, RunJob(j)
  PROVE  Inductive'
<1> DEFINE v == j.variant.name
<1>1. /\ todo' = todo \ {j} /\ ran' = ran \cup {j}
      /\ UNCHANGED <<files, phase, variants, wave, dev, hold, accepted, rejected>>
  BY DEF RunJob
<1>2. /\ j \in Jobs(Variants, Tasks) /\ v \in AllNames
      /\ j.variant.spec \in {"base", "candidate"}
  <2>1. j \in Jobs(Variants, Tasks)
    BY DEF Inductive, TypeOK
  <2>2. j.variant \in Variants
    BY <2>1 DEF Jobs
  <2> QED BY <2>1, <2>2 DEF Variants, AllNames
<1>3. PICK status \in {"passed", "failed", "error"}, use \in [tokens : Nat, cost : Nat] :
        /\ Count(j, status, use)
        /\ won' = (IF status = "passed" THEN won \cup {j} ELSE won)
        /\ again' = (IF status = "error" /\ wave = 1 THEN again \cup {j} ELSE again)
  <2>1. Idle \in [tokens : Nat, cost : Nat]
    BY DEF Idle
  <2> QED BY <2>1 DEF RunJob
<1> DEFINE row == Added(report[v], j.variant.spec, status, use)
<1>4. \A n \in AllNames : report'[n] = IF n = v THEN row ELSE report[n]
  BY <1>2, <1>3 DEF Count, Inductive, TypeOK
<1>5. /\ row \in Rows /\ row.passed + row.errored <= row.total
      /\ row.total = report[v].total + 1
      /\ row.passed = report[v].passed + (IF status = "passed" THEN 1 ELSE 0)
  <2>1. report[v] \in Rows /\ report[v].passed + report[v].errored <= report[v].total
    BY <1>2 DEF Inductive, TypeOK
  <2> DEFINE old == report[v]
  <2>2. old \in Rows /\ old.passed + old.errored <= old.total /\ row = Added(old, j.variant.spec, status, use)
    BY <2>1
  <2> HIDE DEF old
  <2> DEFINE passes == IF status = "passed" THEN 1 ELSE 0
             errors == IF status = "error" THEN 1 ELSE 0
  <2>3. /\ row.total = old.total + 1
        /\ row.passed = old.passed + passes
        /\ row.errored = old.errored + errors
    BY <2>2 DEF Added
  <2>4. passes \in Nat /\ errors \in Nat /\ passes + errors <= 1
    BY <1>3
  <2>5. old.passed \in Nat /\ old.errored \in Nat /\ old.total \in Nat
    BY <2>2 DEF Rows
  <2>6. row.passed + row.errored <= row.total
    <3> HIDE DEF old, row, passes, errors
    <3> QED BY <2>2, <2>3, <2>4, <2>5
  <2>7. row \in Rows
    <3>1. row = [total |-> old.total + 1, passed |-> old.passed + passes,
                 errored |-> old.errored + errors, tokens |-> old.tokens + use.tokens,
                 cost |-> old.cost + use.cost, specs |-> old.specs \cup {j.variant.spec}]
      BY <2>2 DEF Added
    <3>2. /\ old.tokens + use.tokens \in Nat /\ old.cost + use.cost \in Nat
          /\ old.specs \cup {j.variant.spec} \in SUBSET {"base", "candidate"}
      BY <1>2, <1>3, <2>2 DEF Rows
    <3>3. old.total + 1 \in Nat /\ old.passed + passes \in Nat /\ old.errored + errors \in Nat
      BY <2>4, <2>5
    <3> HIDE DEF old, row, passes, errors
    <3> QED BY <3>1, <3>2, <3>3 DEF Rows
  <2> QED BY <2>3, <2>6, <2>7 DEF old
<1>6. TypeOK'
  <2>1. report' \in [AllNames -> Rows]
    BY <1>2, <1>3, <1>5 DEF Count, Inductive, TypeOK
  <2>2. \A n \in AllNames : report'[n].passed + report'[n].errored <= report'[n].total
    BY <1>4, <1>5 DEF Inductive, TypeOK
  <2>3. /\ won' \subseteq ran' /\ ran' \subseteq Jobs(Variants, Tasks)
        /\ todo' \subseteq Jobs(Variants, Tasks) /\ again' \subseteq Jobs(Variants, Tasks)
    BY <1>1, <1>2, <1>3 DEF Inductive, TypeOK
  <2> QED BY <1>1, <2>1, <2>2, <2>3 DEF Inductive, TypeOK
<1>7. JobInv'
  <2>1. IsFiniteSet(won') /\ IsFiniteSet(ran')
    BY <1>1, <1>3, FS_AddElement DEF Inductive, JobInv
  <2>2. todo' \cap won' = {} /\ again' \cap won' = {} /\ todo' \cap again' = {}
    BY <1>1, <1>3 DEF Inductive, JobInv
  <2>3. wave' = 1 => todo' \cap ran' = {}
    BY <1>1 DEF Inductive, JobInv
  <2>4. again' \subseteq ran'
    BY <1>1, <1>3 DEF Inductive, JobInv
  <2> QED BY <2>1, <2>2, <2>3, <2>4 DEF JobInv
<1>8. RetriesNeverRaiseRate'
  <2> SUFFICES ASSUME NEW n \in AllNames
               PROVE  /\ report'[n].passed = Cardinality({i \in won' : i.variant.name = n})
                      /\ report'[n].total >= Cardinality({i \in ran' : i.variant.name = n})
    BY DEF RetriesNeverRaiseRate
  <2> DEFINE w == {i \in won : i.variant.name = n}
             r == {i \in ran : i.variant.name = n}
  <2>1. IsFiniteSet(w) /\ IsFiniteSet(r)
    BY FS_Subset DEF Inductive, JobInv
  <2>2. Cardinality(w) \in Nat /\ Cardinality(r) \in Nat
    BY <2>1, FS_CardinalityType
  <2>3. report[n].passed = Cardinality(w) /\ report[n].total >= Cardinality(r)
    BY DEF Inductive, RetriesNeverRaiseRate
  <2>4. report[n].total \in Nat /\ report[n].passed \in Nat
    BY DEF Inductive, TypeOK, Rows
  <2>5. CASE n # v
    <3>1. {i \in won' : i.variant.name = n} = w /\ {i \in ran' : i.variant.name = n} = r
      BY <1>1, <1>3, <2>5
    <3> QED BY <1>4, <2>3, <2>5, <3>1
  <2>6. CASE n = v
    <3>1. {i \in ran' : i.variant.name = n} = r \cup {j}
      BY <1>1, <2>6
    <3>2. Cardinality(r \cup {j}) <= Cardinality(r) + 1
      <4> HIDE DEF r
      <4>1. Cardinality(r \cup {j}) = (IF j \in r THEN Cardinality(r) ELSE Cardinality(r) + 1)
        BY <2>1, FS_AddElement
      <4> QED BY <2>2, <4>1
    <3>3. report'[n].total >= Cardinality({i \in ran' : i.variant.name = n})
      <4>1. report'[n].total = report[n].total + 1
        BY <1>4, <1>5, <2>6
      <4>2. Cardinality(r \cup {j}) \in Nat
        BY <2>1, FS_AddElement, FS_CardinalityType
      <4>3. {i \in ran' : i.variant.name = n} = r \cup {j}
        BY <3>1
      <4> HIDE DEF r
      <4>4. report[n].total + 1 >= Cardinality(r \cup {j})
        BY <2>2, <2>3, <2>4, <3>2, <4>2
      <4> QED BY <4>1, <4>3, <4>4
    <3>4. report'[n].passed = Cardinality({i \in won' : i.variant.name = n})
      <4>1. CASE status = "passed"
        <5>1. {i \in won' : i.variant.name = n} = w \cup {j} /\ j \notin w
          BY <1>3, <2>6, <4>1 DEF Inductive, JobInv
        <5>2. Cardinality(w \cup {j}) = Cardinality(w) + 1
          BY <2>1, <5>1, FS_AddElement
        <5>3. report'[n].passed = report[n].passed + 1
          BY <1>4, <1>5, <2>6, <4>1
        <5> QED BY <2>3, <5>1, <5>2, <5>3
      <4>2. CASE status # "passed"
        <5>1. won' = won /\ report'[n].passed = report[n].passed
          BY <1>3, <1>4, <1>5, <2>4, <2>6, <4>2
        <5> QED BY <2>3, <5>1
      <4> QED BY <4>1, <4>2
    <3> QED BY <3>3, <3>4
  <2> QED BY <2>5, <2>6
<1>9. GateInv'
  BY <1>1 DEF Inductive, GateInv
<1> QED BY <1>6, <1>7, <1>8, <1>9 DEF Inductive

LEMMA InductiveInit == Init => Inductive
<1> SUFFICES ASSUME Init PROVE Inductive
  OBVIOUS
<1>1. NoRow \in Rows /\ NoRow.passed = 0 /\ NoRow.errored = 0 /\ NoRow.total = 0
  BY DEF NoRow, Rows
<1>2. TypeOK
  BY <1>1 DEF Init, TypeOK
<1>3. JobInv
  BY FS_EmptySet DEF Init, JobInv
<1>4. RetriesNeverRaiseRate
  <2>1. \A n \in AllNames : /\ {j \in won : j.variant.name = n} = {}
                            /\ {j \in ran : j.variant.name = n} = {}
    BY DEF Init
  <2> QED BY <1>1, <2>1, FS_EmptySet DEF Init, RetriesNeverRaiseRate
<1>5. GateInv
  BY DEF Init, GateInv, Unique
<1> QED BY <1>2, <1>3, <1>4, <1>5 DEF Inductive

LEMMA InductiveStep == Inductive /\ [Next]_vars => Inductive'
<1> SUFFICES ASSUME Inductive, [Next]_vars PROVE Inductive'
  OBVIOUS
<1>1. CASE Generate \/ EditFile
  <2>1. /\ files' \subseteq Names
        /\ UNCHANGED <<phase, variants, todo, again, wave, report, won, ran, dev, hold,
                       accepted, rejected>>
    BY <1>1 DEF Generate, EditFile, Inductive, TypeOK
  <2> QED BY <2>1 DEF Inductive, TypeOK, JobInv, RetriesNeverRaiseRate, GateInv
<1>2. CASE Evaluate
  <2> DEFINE vs == {[name |-> "baseline", spec |-> "base"]} \cup
                   {[name |-> n, spec |-> "candidate"] : n \in files}
  <2>1. vs \in SUBSET Variants /\ Dev \in SUBSET Tasks
    BY DEF Variants, Tasks, Inductive, TypeOK
  <2>2. /\ Benchmark(vs, Dev) /\ phase = "idle" /\ phase' = "dev"
        /\ UNCHANGED <<files, dev, hold, accepted, rejected>>
    BY <1>2 DEF Evaluate
  <2> HIDE DEF vs
  <2> QED BY <2>1, <2>2, BenchmarkStep
<1>3. CASE \E j \in todo : RunJob(j)
  BY <1>3, RunJobStep
<1>4. CASE SecondWave
  <2>1. /\ todo = {} /\ todo' = again /\ again' = {} /\ wave' = 2
        /\ UNCHANGED <<files, phase, variants, report, won, ran, dev, hold, accepted, rejected>>
    BY <1>4 DEF SecondWave
  <2>2. TypeOK'
    BY <2>1 DEF Inductive, TypeOK
  <2>3. JobInv'
    BY <2>1 DEF Inductive, JobInv
  <2>4. RetriesNeverRaiseRate' /\ GateInv'
    BY <2>1 DEF Inductive, RetriesNeverRaiseRate, GateInv
  <2> QED BY <2>2, <2>3, <2>4 DEF Inductive
<1>5. CASE Stop
  <2>1. /\ todo' = {} /\ again' \subseteq again
        /\ UNCHANGED <<files, phase, variants, wave, report, won, ran, dev, hold, accepted, rejected>>
    BY <1>5 DEF Stop
  <2>2. TypeOK'
    BY <2>1 DEF Inductive, TypeOK
  <2>3. JobInv'
    BY <2>1 DEF Inductive, JobInv
  <2>4. RetriesNeverRaiseRate' /\ GateInv'
    BY <2>1 DEF Inductive, RetriesNeverRaiseRate, GateInv
  <2> QED BY <2>2, <2>3, <2>4 DEF Inductive
<1>6. CASE Select
  <2>1. /\ Benchmark(Selected(Results(report)), Holdout) /\ phase = "dev" /\ phase' = "holdout"
        /\ dev' = Results(report) /\ UNCHANGED <<files, hold, accepted, rejected>>
    BY <1>6 DEF Select
  <2>2. Selected(Results(report)) \in SUBSET Variants /\ Holdout \in SUBSET Tasks
    BY DEF Selected, Tasks, Inductive, TypeOK
  <2> QED BY <2>1, <2>2, BenchmarkStep
<1>7. CASE Conclude
  <2>1. /\ hold' = Results(report) /\ phase' = "done"
        /\ accepted' = Accepted(dev, Results(report)) /\ rejected' = Rejected(dev, Results(report))
        /\ UNCHANGED <<files, variants, todo, again, wave, report, won, ran, dev>>
    BY <1>7 DEF Conclude
  <2>2. Results(report) \subseteq EvalResults /\ Unique(Results(report))
    BY ResultsType DEF Inductive, TypeOK
  <2>3. accepted' \subseteq Names /\ rejected' \subseteq Names
    <3>1. dev \in SUBSET EvalResults
      BY DEF Inductive, TypeOK
    <3> QED BY <2>1, <3>1, GateType
  <2>4. TypeOK'
    BY <2>1, <2>2, <2>3 DEF Inductive, TypeOK
  <2>5. JobInv' /\ RetriesNeverRaiseRate'
    BY <2>1 DEF Inductive, JobInv, RetriesNeverRaiseRate
  <2>6. GateInv'
    BY <2>1, <2>2 DEF Inductive, GateInv
  <2> QED BY <2>4, <2>5, <2>6 DEF Inductive
<1>8. CASE UNCHANGED vars
  BY <1>8 DEF vars, Inductive, TypeOK, JobInv, RetriesNeverRaiseRate, GateInv
<1> QED BY <1>1, <1>2, <1>3, <1>4, <1>5, <1>6, <1>7, <1>8 DEF Next

-----------------------------------------------------------------------------
(* The theorems *)

\* The invariant every theorem below rests on.
THEOREM InductiveInvariant == Spec => []Inductive
<1> QED BY InductiveInit, InductiveStep, PTL DEF Spec

\* Every variable keeps its type; no row counts more passes and errors than runs.
THEOREM TypeCorrect == Spec => []TypeOK
<1> QED BY InductiveInvariant, PTL DEF Inductive

\* A retry never raises a pass rate: the row of a harness counts the jobs it won,
\* over at least the jobs it ran (benchmark/report.go add).
THEOREM RatesAreOfJobs == Spec => []RetriesNeverRaiseRate
<1> QED BY InductiveInvariant, PTL DEF Inductive

\* What the holdout gate of Recommend does of every accepted candidate: one that did
\* not lose in development has reached the baseline's development rate on holdout, and
\* with it the baseline's holdout rate if the baseline is no better there than in
\* development; one that lost is on the front for its tokens or cost (optimize/eval.go).
THEOREM GateIsSound == Spec => []GateHolds
<1>1. Inductive => GateHolds
  <2> SUFFICES ASSUME Inductive, NEW n \in accepted
               PROVE  /\ HasResult(dev, n) /\ HasResult(hold, n)
                      /\ HasResult(dev, "baseline") =>
                           LET base == ResultOf(dev, "baseline")
                               wins == RateAtLeast(ResultOf(dev, n), base) IN
                           /\ wins => RateAtLeast(ResultOf(hold, n), base)
                           /\ ~wins => ~Dominates(base, ResultOf(dev, n))
                           /\ (wins /\ HasResult(hold, "baseline")
                               /\ RateAtLeast(base, ResultOf(hold, "baseline")))
                              => RateAtLeast(ResultOf(hold, n), ResultOf(hold, "baseline"))
    BY DEF GateHolds
  <2>1. PICK f \in Front(dev), h \in hold :
          /\ f.variant = n /\ h.variant = n /\ n # "baseline"
          /\ ~Rejects(BaselineOf(dev), f, BaselineOf(dev), h)
    BY DEF Inductive, GateInv, Accepted
  <2>2. f \in dev /\ HasResult(dev, n) /\ HasResult(hold, n)
    BY <2>1 DEF HasResult, Front
  <2>3. ResultOf(dev, n) = f /\ ResultOf(hold, n) = h
    BY <2>1, <2>2 DEF ResultOf, Inductive, GateInv, Unique
  <2> DEFINE b == ResultOf(dev, "baseline")
             c == ResultOf(hold, "baseline")
             Rate(r) == [passed |-> r.passed, total |-> r.total]
  <2>4. ASSUME HasResult(dev, "baseline")
        PROVE  b \in dev /\ b.variant = "baseline" /\ BaselineOf(dev) = Rate(b)
    BY <2>4 DEF BaselineOf, HasResult, ResultOf
  <2>5. ASSUME HasResult(dev, "baseline"), RateAtLeast(f, b)
        PROVE  RateAtLeast(h, b)
    <3>1. RateAtLeast(f, Rate(b))
      BY <2>5 DEF RateAtLeast
    <3>2. RateAtLeast(h, Rate(b))
      BY <2>1, <2>4, <2>5, <3>1 DEF Rejects
    <3> QED BY <3>2 DEF RateAtLeast
  <2>6. ASSUME HasResult(dev, "baseline")
        PROVE  ~Dominates(b, f)
    BY <2>1, <2>4, <2>6 DEF Front
  <2>7. ASSUME HasResult(dev, "baseline"), RateAtLeast(f, b),
               HasResult(hold, "baseline"), RateAtLeast(b, c)
        PROVE  RateAtLeast(h, c)
    <3>1. b \in EvalResults /\ c \in EvalResults /\ h \in EvalResults
      BY <2>1, <2>4, <2>7 DEF Inductive, TypeOK, HasResult, ResultOf
    <3>2. \A r \in {b, c, h} : Rate(r) \in [passed : Nat, total : Nat \ {0}]
      BY <3>1 DEF EvalResults
    <3>3. RateAtLeast(Rate(h), Rate(b)) /\ RateAtLeast(Rate(b), Rate(c))
      BY <2>5, <2>7 DEF RateAtLeast
    <3>4. RateAtLeast(Rate(h), Rate(c))
      <4> HIDE DEF Rate, b, c
      <4> QED BY <3>2, <3>3, RateTransitive
    <3> QED BY <3>4 DEF RateAtLeast
  <2> QED BY <2>2, <2>3, <2>5, <2>6, <2>7
<1> QED BY <1>1, InductiveInvariant, PTL

-----------------------------------------------------------------------------
(* The Pareto front *)

LEMMA CostTransitive ==
  ASSUME NEW a \in [cost : Nat, total : Nat \ {0}], NEW b \in [cost : Nat, total : Nat \ {0}],
         NEW c \in [cost : Nat, total : Nat \ {0}], CostAtMost(a, b), CostAtMost(b, c)
  PROVE  CostAtMost(a, c)
<1> DEFINE p == a.cost * c.total
           q == c.cost * a.total
<1>1. a.cost * b.total <= b.cost * a.total /\ b.cost * c.total <= c.cost * b.total
  BY DEF CostAtMost
<1>2. (a.cost * b.total) * c.total <= (b.cost * a.total) * c.total
  BY <1>1
<1>3. (b.cost * c.total) * a.total <= (c.cost * b.total) * a.total
  BY <1>1
<1>4. /\ (a.cost * b.total) * c.total = p * b.total
      /\ (b.cost * a.total) * c.total = (b.cost * c.total) * a.total
      /\ (c.cost * b.total) * a.total = q * b.total
  OBVIOUS
<1>5. p * b.total <= q * b.total
  BY <1>2, <1>3, <1>4
<1>6. p \in Nat /\ q \in Nat /\ b.total \in Nat \ {0}
  OBVIOUS
<1>7. p <= q
  <2> HIDE DEF p, q
  <2> QED BY <1>5, <1>6
<1> QED BY <1>7 DEF CostAtMost

\* Both comparisons of results, which have more fields than the two that count.
LEMMA ResultsOrdered ==
  ASSUME NEW a \in EvalResults, NEW b \in EvalResults, NEW c \in EvalResults
  PROVE  /\ RateAtLeast(a, a) /\ CostAtMost(a, a)
         /\ RateAtLeast(a, b) /\ RateAtLeast(b, c) => RateAtLeast(a, c)
         /\ CostAtMost(a, b) /\ CostAtMost(b, c) => CostAtMost(a, c)
<1> DEFINE R(x) == [passed |-> x.passed, total |-> x.total]
           C(x) == [cost |-> x.cost, total |-> x.total]
<1>1. \A x \in {a, b, c} : /\ R(x) \in [passed : Nat, total : Nat \ {0}]
                           /\ C(x) \in [cost : Nat, total : Nat \ {0}]
                           /\ x.passed * x.total \in Nat /\ x.cost * x.total \in Nat
  BY DEF EvalResults
<1>2. \A x, y \in {a, b, c} : /\ RateAtLeast(x, y) <=> RateAtLeast(R(x), R(y))
                              /\ CostAtMost(x, y) <=> CostAtMost(C(x), C(y))
  BY DEF RateAtLeast, CostAtMost
<1>3. RateAtLeast(a, a) /\ CostAtMost(a, a)
  BY <1>1 DEF RateAtLeast, CostAtMost
<1> HIDE DEF R, C
<1>4. RateAtLeast(a, b) /\ RateAtLeast(b, c) => RateAtLeast(a, c)
  BY <1>1, <1>2, RateTransitive
<1>5. CostAtMost(a, b) /\ CostAtMost(b, c) => CostAtMost(a, c)
  BY <1>1, <1>2, CostTransitive
<1> QED BY <1>3, <1>4, <1>5

\* The comparison of evalDominates is a strict order: it has no cycles.
LEMMA DominatesOrder ==
  ASSUME NEW a \in EvalResults, NEW b \in EvalResults, NEW c \in EvalResults
  PROVE  /\ ~Dominates(a, a)
         /\ Dominates(a, b) /\ Dominates(b, c) => Dominates(a, c)
<1>1. a.tokens \in Nat /\ b.tokens \in Nat /\ c.tokens \in Nat
  BY DEF EvalResults
<1>2. ~Dominates(a, a)
  <2>1. RateAtLeast(a, a) /\ CostAtMost(a, a)
    BY ResultsOrdered
  <2> QED BY <1>1, <2>1 DEF Dominates
<1>3. ASSUME Dominates(a, b), Dominates(b, c) PROVE Dominates(a, c)
  <2>1. /\ RateAtLeast(a, b) /\ a.tokens <= b.tokens /\ CostAtMost(a, b)
        /\ ~RateAtLeast(b, a) \/ a.tokens < b.tokens \/ ~CostAtMost(b, a)
        /\ RateAtLeast(b, c) /\ b.tokens <= c.tokens /\ CostAtMost(b, c)
    BY <1>3 DEF Dominates
  <2>2. RateAtLeast(a, c) /\ CostAtMost(a, c)
    BY <2>1, ResultsOrdered
  <2>3. a.tokens <= c.tokens /\ (a.tokens < b.tokens => a.tokens < c.tokens)
    BY <1>1, <2>1
  <2>4. RateAtLeast(c, a) => RateAtLeast(b, a)
    BY <2>1, ResultsOrdered
  <2>5. CostAtMost(c, a) => CostAtMost(b, a)
    BY <2>1, ResultsOrdered
  <2> QED BY <2>1, <2>2, <2>3, <2>4, <2>5 DEF Dominates
<1> QED BY <1>2, <1>3

\* Of finitely many results that dominate r, one is dominated by none of all: the one
\* with the least set of those that dominate it.
LEMMA FrontOfFinite ==
  ASSUME NEW D, IsFiniteSet(D), D \subseteq EvalResults, NEW r \in D, r \notin Front(D)
  PROVE  \E f \in Front(D) : Dominates(f, r)
<1> DEFINE Above(x) == {y \in D : Dominates(y, x)}
           R == StrictSubsetOrdering(D)
           T == {Above(x) : x \in Above(r)}
<1>1. T \subseteq FiniteSubsetsOf(D) /\ T # {}
  <2>1. \A x : Above(x) \in SUBSET D
    OBVIOUS
  <2>2. FiniteSubsetsOf(D) = SUBSET D
    BY FS_FiniteSubsetsOfFinite
  <2>3. PICK x0 : x0 \in Above(r)
    BY DEF Front
  <2> HIDE DEF Above
  <2>4. Above(x0) \in T
    BY <2>3
  <2>5. T \subseteq SUBSET D
    BY <2>1
  <2> HIDE DEF T
  <2> QED BY <2>2, <2>4, <2>5
<1>2. PICK u \in T : \A v \in T : <<v, u>> \notin R
  <2>1. IsWellFoundedOn(R, FiniteSubsetsOf(D))
    BY FS_StrictSubsetOrderingWellFounded
  <2> HIDE DEF R, T
  <2> QED BY <1>1, <2>1, WFMin
<1>3. PICK f \in Above(r) : u = Above(f)
  BY <1>2
<1>4. f \in D /\ Dominates(f, r)
  BY <1>3
<1>5. ASSUME NEW y \in D, Dominates(y, f) PROVE FALSE
  <2>1. y \in Above(r)
    BY <1>4, <1>5, DominatesOrder
  <2>2. Above(y) \subseteq Above(f)
    BY <1>4, <1>5, DominatesOrder
  <2>3. y \in Above(f) /\ y \notin Above(y)
    BY <1>5, DominatesOrder
  <2>4. Above(y) \in T /\ Above(y) \in SUBSET D /\ Above(f) \in SUBSET D
    BY <2>1
  <2>5. <<Above(y), u>> \in R
    <3> HIDE DEF Above
    <3> QED BY <1>3, <2>2, <2>3, <2>4 DEF StrictSubsetOrdering
  <2> QED BY <1>2, <2>4, <2>5
<1>6. f \in Front(D)
  BY <1>4, <1>5 DEF Front
<1> QED BY <1>4, <1>6

\* A row is of a harness with a job that was run, and those are finitely many.
RowsInv ==
  /\ \A n \in AllNames : report[n].total > 0 => \E j \in ran : j.variant.name = n
  /\ IsFiniteSet(dev)

LEMMA ResultsFinite ==
  ASSUME Inductive, RowsInv
  PROVE  IsFiniteSet(Results(report))
<1> DEFINE row(n) == [variant |-> n, passed |-> report[n].passed, total |-> report[n].total,
                      tokens |-> report[n].tokens \div report[n].total, cost |-> report[n].cost]
           f == [j \in ran |-> row(j.variant.name)]
           T == {f[j] : j \in ran}
<1>1. IsFiniteSet(ran)
  BY DEF Inductive, JobInv
<1>2. f \in Surjection(ran, T)
  BY DEF Surjection
<1>3. IsFiniteSet(T)
  <2> HIDE DEF f, T
  <2> QED BY <1>1, <1>2, FS_Surjection
<1>4. Results(report) \subseteq T
  <2>1. DOMAIN report = AllNames
    BY DEF Inductive, TypeOK
  <2>2. \A n \in DOMAIN report : report[n].total > 0 => row(n) \in T
    <3>1. SUFFICES ASSUME NEW n \in AllNames, report[n].total > 0 PROVE row(n) \in T
      BY <2>1
    <3>2. PICK j \in ran : j.variant.name = n
      BY <3>1 DEF RowsInv
    <3>3. f[j] = row(n)
      BY <3>2
    <3> QED BY <3>3
  <2> HIDE DEF T
  <2> QED BY <2>2 DEF Results
<1> HIDE DEF T
<1> QED BY <1>3, <1>4, FS_Subset

LEMMA RowsInit == Init => RowsInv
BY FS_EmptySet DEF Init, RowsInv, NoRow

LEMMA RowsStep == Inductive /\ RowsInv /\ [Next]_vars => RowsInv'
<1> SUFFICES ASSUME Inductive, RowsInv, [Next]_vars PROVE RowsInv'
  OBVIOUS
<1>1. ASSUME UNCHANGED <<report, ran, dev>> PROVE RowsInv'
  BY <1>1 DEF RowsInv
<1>2. ASSUME NEW vs, NEW tasks, Benchmark(vs, tasks), IsFiniteSet(dev') PROVE RowsInv'
  BY <1>2 DEF Benchmark, RowsInv, NoRow
<1>3. CASE Evaluate
  <2>1. Benchmark({[name |-> "baseline", spec |-> "base"]} \cup
                  {[name |-> n, spec |-> "candidate"] : n \in files}, Dev) /\ UNCHANGED dev
    BY <1>3 DEF Evaluate
  <2> QED BY <1>2, <2>1 DEF RowsInv
<1>4. CASE Select
  <2>1. Benchmark(Selected(Results(report)), Holdout) /\ dev' = Results(report)
    BY <1>4 DEF Select
  <2> QED BY <1>2, <2>1, ResultsFinite
<1>5. ASSUME NEW j \in todo, RunJob(j) PROVE RowsInv'
  <2>1. ran' = ran \cup {j} /\ UNCHANGED dev
    BY <1>5 DEF RunJob
  <2>2. PICK row : report' = [report EXCEPT ![j.variant.name] = row]
    BY <1>5 DEF RunJob, Count
  <2>3. \A n \in AllNames : report'[n] = report[n] \/ n = j.variant.name
    BY <2>2 DEF Inductive, TypeOK
  <2> QED BY <2>1, <2>3 DEF RowsInv
<1> QED BY <1>1, <1>3, <1>4, <1>5
     DEF Next, Generate, EditFile, SecondWave, Stop, Conclude, vars

\* Every harness with a development result is on the Pareto front or dominated by one
\* on it (optimize/eval.go SelectCandidates): evalDominates has no cycles, so leaving
\* out whatever is dominated leaves out nobody for good.
THEOREM FrontCoversAll == Spec => []FrontCovers
<1>1. Inductive /\ RowsInv => FrontCovers
  <2> SUFFICES ASSUME Inductive, RowsInv, NEW r \in dev, r \notin Front(dev)
               PROVE  \E f \in Front(dev) : Dominates(f, r)
    BY DEF FrontCovers
  <2>1. dev \subseteq EvalResults
    BY DEF Inductive, TypeOK
  <2> QED BY <2>1, FrontOfFinite DEF RowsInv
<1>2. Spec => []RowsInv
  BY InductiveInvariant, RowsInit, RowsStep, PTL DEF Spec
<1> QED BY <1>1, <1>2, InductiveInvariant, PTL
=============================================================================
