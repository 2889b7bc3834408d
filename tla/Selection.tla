------------------------------ MODULE Selection ------------------------------
(***************************************************************************)
(* The arithmetic of a harness comparison: the rows of a benchmark report  *)
(* (internal/benchmark/report.go), what the optimizer makes of them        *)
(* (cli/optimize_llm.go evalResults), the Pareto front over them and the   *)
(* holdout gate (internal/optimize/eval.go).                               *)
(*                                                                         *)
(* A pass rate is kept as the pair (passed, total) and compared by cross   *)
(* multiplication, the mean cost as (cost, total); the mean of the tokens  *)
(* is rounded down, as avg rounds it.                                      *)
(***************************************************************************)
EXTENDS Integers

\* A row of the report; specs, the harnesses whose runs it counts, is history.
NoRow == [total |-> 0, passed |-> 0, errored |-> 0, tokens |-> 0, cost |-> 0, specs |-> {}]

\* Report.add of one outcome: an attempt that errored counts in Total, too.
Added(row, spec, status, use) ==
  [total   |-> row.total + 1,
   passed  |-> row.passed + (IF status = "passed" THEN 1 ELSE 0),
   errored |-> row.errored + (IF status = "error" THEN 1 ELSE 0),
   tokens  |-> row.tokens + use.tokens,
   cost    |-> row.cost + use.cost,
   specs   |-> row.specs \cup {spec}]

\* evalResults: the variants with an outcome, and their means.
Results(report) ==
  {[variant |-> v, passed |-> report[v].passed, total |-> report[v].total,
    tokens |-> report[v].tokens \div report[v].total, cost |-> report[v].cost] :
     v \in {w \in DOMAIN report : report[w].total > 0}}

\* Pass rates and mean costs.
RateAtLeast(a, b) == a.passed * b.total >= b.passed * a.total
CostAtMost(a, b)  == a.cost * b.total <= b.cost * a.total

\* Fault: better in one objective is enough.
BetterSomewhere(a, b) ==
  ~RateAtLeast(b, a) \/ a.tokens < b.tokens \/ ~CostAtMost(b, a)

\* evalDominates
Dominates(a, b) ==
  /\ RateAtLeast(a, b) /\ a.tokens <= b.tokens /\ CostAtMost(a, b)
  /\ ~RateAtLeast(b, a) \/ a.tokens < b.tokens \/ ~CostAtMost(b, a)

\* SelectCandidates
Front(results) == {a \in results : ~\E b \in results : b # a /\ Dominates(b, a)}

\* RejectRule
Rejects(devBase, dev, holdBase, hold) ==
  RateAtLeast(dev, devBase) /\ ~RateAtLeast(hold, holdBase)

\* Recommend: the baseline's development result, and a zero result without one.
ZeroRate == [passed |-> 0, total |-> 1]
BaselineOf(dev) ==
  IF \E r \in dev : r.variant = "baseline"
  THEN LET r == CHOOSE r \in dev : r.variant = "baseline"
       IN [passed |-> r.passed, total |-> r.total]
  ELSE ZeroRate

\* Fault: a candidate that was not run on holdout passes the gate.
AcceptedUnvalidated(dev, holdout) ==
  {f.variant : f \in {f \in Front(dev) :
     /\ f.variant # "baseline"
     /\ ~\E h \in holdout : h.variant = f.variant
                            /\ Rejects(BaselineOf(dev), f, BaselineOf(dev), h)}}

\* The gate of Recommend: the holdout rate is held against the development rate
\* of the baseline.
Accepted(dev, holdout) ==
  {f.variant : f \in {f \in Front(dev) :
     /\ f.variant # "baseline"
     /\ \E h \in holdout : h.variant = f.variant
                           /\ ~Rejects(BaselineOf(dev), f, BaselineOf(dev), h)}}

Rejected(dev, holdout) ==
  {f.variant : f \in Front(dev)} \ ({"baseline"} \cup Accepted(dev, holdout))
=============================================================================
