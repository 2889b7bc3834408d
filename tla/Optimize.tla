------------------------------- MODULE Optimize -------------------------------
(***************************************************************************)
(* The optimizer's two commands (internal/cli/optimize.go, optimize_llm.go *)
(* and internal/optimize): `optimize --llm` lets a model propose candidate *)
(* harnesses from the failures a report shows and writes them to files;    *)
(* `optimize --evaluate` benchmarks the files' harnesses and the base on   *)
(* the development tasks, selects the Pareto front, benchmarks that on the *)
(* holdout tasks and recommends.                                           *)
(*                                                                         *)
(* A benchmark is what module Scheduler promises of one: its jobs in any   *)
(* order, the errored ones once more in a second wave, and an end at any   *)
(* time when the timeout or the token budget stops it.  The commands are   *)
(* run one at a time.                                                      *)
(***************************************************************************)
EXTENDS Selection, FiniteSets

CONSTANTS
  Dev, Holdout,  \* the tasks of tasksets/dev.yaml and holdout.yaml
  Names,         \* names of candidate files
  Uses,          \* [tokens, cost] a run may take
  MaxCandidates  \* bound: candidates evaluated together

Tasks == Dev \cup Holdout
Idle  == [tokens |-> 0, cost |-> 0]

ASSUME OptimizeAssumption ==
  /\ Dev \cap Holdout = {}
  /\ Uses \subseteq [tokens : Nat, cost : Nat]

VARIABLES
  files,     \* .harness/candidates: the names whose file parses
  phase,     \* of the evaluation
  variants,  \* the harnesses under evaluation: [name, spec]
  todo,      \* the jobs of the current wave
  again,     \* the jobs that errored in the first wave
  wave,
  report,    \* the report of the current benchmark: its rows by name
  won, ran,  \* history: the jobs that passed and those that were run
  dev,       \* the development results
  accepted, rejected,
  hold       \* history: the holdout results

vars == <<files, phase, variants, todo, again, wave, report, won, ran, dev,
          accepted, rejected, hold>>

AllNames == Names \cup {"baseline"}
Variants == [name : {"baseline"}, spec : {"base"}] \cup [name : Names, spec : {"candidate"}]
Jobs(vs, tasks) == [variant : vs, task : tasks]
Rows == [total : Nat, passed : Nat, errored : Nat, tokens : Nat, cost : Nat,
         specs : SUBSET {"base", "candidate"}]
EvalResults == [variant : AllNames, passed : Nat, total : Nat \ {0}, tokens : Nat, cost : Nat]

TypeOK ==
  /\ files \subseteq Names
  /\ phase \in {"idle", "dev", "holdout", "done"}
  /\ variants \subseteq Variants
  /\ todo \subseteq Jobs(Variants, Tasks)
  /\ again \subseteq Jobs(Variants, Tasks)
  /\ wave \in {1, 2}
  /\ report \in [AllNames -> Rows]
  /\ \A n \in AllNames : report[n].passed + report[n].errored <= report[n].total
  /\ won \subseteq ran
  /\ ran \subseteq Jobs(Variants, Tasks)
  /\ \A r \in dev \cup hold : r \in EvalResults
  /\ accepted \subseteq Names
  /\ rejected \subseteq Names

Init ==
  /\ files = {}
  /\ phase = "idle"
  /\ variants = {}
  /\ todo = {} /\ again = {} /\ wave = 1
  /\ report = [n \in AllNames |-> NoRow]
  /\ won = {} /\ ran = {}
  /\ dev = {} /\ hold = {}
  /\ accepted = {} /\ rejected = {}

-----------------------------------------------------------------------------
(* optimize --llm *)

\* The rows of a report, from `bench` over any of the tasks or from an earlier
\* evaluation: a run that could not be built has no run id.
Reports == SUBSET [task : Tasks, built : BOOLEAN]

\* The command reads the rows with a run id ...
Analyzed(rows) == {r.task : r \in {r \in rows : r.built}}

\* ... and checkNoHoldoutLeakage refuses them if one is of a holdout task.
Leaks(rows) == Analyzed(rows) \cap Holdout # {}

\* GenerateCandidates drops a second proposal of a name and what does not parse;
\* writeCandidates overwrites the files of earlier generations.
Generate ==
  /\ phase = "idle"
  /\ \E rows \in Reports, names \in SUBSET Names \ {{}} :
        /\ ~Leaks(rows)
        /\ files' = files \cup names
  /\ UNCHANGED <<phase, variants, todo, again, wave, report, won, ran, dev, hold,
                 accepted, rejected>>

\* The user may write, break or remove a candidate file.
EditFile ==
  /\ phase = "idle"
  /\ \E n \in Names : files' \in {files \cup {n}, files \ {n}}
  /\ UNCHANGED <<phase, variants, todo, again, wave, report, won, ran, dev, hold,
                 accepted, rejected>>

-----------------------------------------------------------------------------
(* optimize --evaluate *)

\* runBenchTasks, up to the first job.
Benchmark(vs, tasks) ==
  /\ variants' = vs
  /\ todo' = Jobs(vs, tasks) /\ again' = {} /\ wave' = 1
  /\ report' = [n \in AllNames |-> NoRow]
  /\ won' = {} /\ ran' = {}

\* LoadCandidates skips the files it cannot parse; candidateVariants puts the
\* base harness before the candidates, under the name "baseline".
Evaluate ==
  /\ phase = "idle"
  /\ files # {} /\ Cardinality(files) <= MaxCandidates
  /\ Benchmark({[name |-> "baseline", spec |-> "base"]} \cup
               {[name |-> n, spec |-> "candidate"] : n \in files}, Dev)
  /\ phase' = "dev"
  /\ UNCHANGED <<files, dev, hold, accepted, rejected>>

\* Fault: a report is kept per harness name and wave; the retry starts it anew.
CountAnew(j, status, use) ==
  report' = [report EXCEPT ![j.variant.name] =
               Added(IF wave = 2 THEN NoRow ELSE @, j.variant.spec, status, use)]

Count(j, status, use) ==
  report' = [report EXCEPT ![j.variant.name] = Added(@, j.variant.spec, status, use)]

\* An attempt at a job; one that errors has used nothing.
RunJob(j) ==
  /\ j \in todo
  /\ todo' = todo \ {j}
  /\ ran' = ran \cup {j}
  /\ \/ \E use \in IF phase = "dev" THEN Uses ELSE {Idle} :
          \/ Count(j, "passed", use) /\ won' = won \cup {j}
          \/ Count(j, "failed", use) /\ UNCHANGED won
        /\ UNCHANGED again
     \/ /\ Count(j, "error", Idle) /\ UNCHANGED won
        /\ again' = IF wave = 1 THEN again \cup {j} ELSE again
  /\ UNCHANGED <<files, phase, variants, wave, dev, hold, accepted, rejected>>

SecondWave ==
  /\ todo = {} /\ again # {}
  /\ todo' = again /\ again' = {} /\ wave' = 2
  /\ UNCHANGED <<files, phase, variants, report, won, ran, dev, hold, accepted,
                 rejected>>

\* The timeout or the budget: no further job is started in this wave, nor, after
\* the timeout, in the next.
Stop ==
  /\ phase \in {"dev", "holdout"}
  /\ todo # {}
  /\ todo' = {} /\ again' \in {again, {}}
  /\ UNCHANGED <<files, phase, variants, wave, report, won, ran, dev, hold,
                 accepted, rejected>>

\* The selected variants of the second benchmark; the baseline always is one.
Selected(results) ==
  {v \in variants : v.name = "baseline" \/ \E f \in Front(results) : f.variant = v.name}

Select ==
  /\ phase = "dev" /\ todo = {} /\ again = {}
  /\ dev' = Results(report)
  /\ Benchmark(Selected(Results(report)), Holdout)
  /\ phase' = "holdout"
  /\ UNCHANGED <<files, hold, accepted, rejected>>

Conclude ==
  /\ phase = "holdout" /\ todo = {} /\ again = {}
  /\ hold' = Results(report)
  /\ accepted' = Accepted(dev, Results(report))
  /\ rejected' = Rejected(dev, Results(report))
  /\ phase' = "done"
  /\ UNCHANGED <<files, variants, todo, again, wave, report, won, ran, dev>>

Next ==
  \/ Generate \/ EditFile \/ Evaluate \/ SecondWave \/ Stop \/ Select \/ Conclude
  \/ \E j \in todo : RunJob(j)

Spec == Init /\ [][Next]_vars

-----------------------------------------------------------------------------
(* Properties *)

\* Every harness evaluated on the development tasks is on the Pareto front or
\* dominated by one that is: ties and cycles of the comparison lose nobody.
FrontCovers ==
  \A r \in dev : r \in Front(dev) \/ \E f \in Front(dev) : Dominates(f, r)

\* A retry never raises a harness' pass rate above the rate of its jobs: a job
\* passes at most once, however often it was tried, and every job that was run is
\* in the total.
RetriesNeverRaiseRate ==
  \A n \in AllNames :
     /\ report[n].passed = Cardinality({j \in won : j.variant.name = n})
     /\ report[n].total >= Cardinality({j \in ran : j.variant.name = n})

ResultOf(results, n) == CHOOSE r \in results : r.variant = n
HasResult(results, n) == \E r \in results : r.variant = n

\* An accepted candidate has a holdout result.  Where the baseline has a development
\* result, it either won or tied there and reaches the baseline's development rate on
\* holdout, or it lost there and is on the front for its tokens or cost, whatever its
\* holdout rate.  In the first case it is no worse than the baseline on holdout itself,
\* unless the baseline does better there than in development: Recommend (eval.go:91)
\* never looks at the baseline's holdout result.
GateHolds ==
  \A n \in accepted :
     /\ HasResult(dev, n) /\ HasResult(hold, n)
     /\ HasResult(dev, "baseline") =>
          LET base == ResultOf(dev, "baseline")
              wins == RateAtLeast(ResultOf(dev, n), base) IN
          /\ wins => RateAtLeast(ResultOf(hold, n), base)
          /\ ~wins => ~Dominates(base, ResultOf(dev, n))
          /\ (wins /\ HasResult(hold, "baseline")
              /\ RateAtLeast(base, ResultOf(hold, "baseline")))
             => RateAtLeast(ResultOf(hold, n), ResultOf(hold, "baseline"))
=============================================================================
