------------------------------ MODULE TraceDiff ------------------------------
(* `harness diff`: Compare of internal/diff/diff.go, which aligns the steps  *)
(* of two runs up to their first divergence, and printTrajectory of          *)
(* internal/cli/diff.go, which lists them. The steps are those that          *)
(* BuildSteps made of the two traces (ToolSteps of EventStream).             *)
EXTENDS Naturals, Sequences

CONSTANTS
  Steps,      \* the steps a run may take: a set of records
  MaxSteps,   \* bound: steps of a run
  LongList,   \* a listing of more lines than this is cut (14)
  HeadLines,  \* to this many (12)
  NoStep      \* the end of a trajectory: a nil step

StepRecord == [type : {"model", "tool", "error"}, name : STRING, args : STRING,
               content : STRING, result : STRING]

ASSUME TraceDiffAssumption ==
  /\ Steps \subseteq StepRecord
  /\ MaxSteps \in Nat
  /\ LongList \in Nat
  /\ HeadLines \in 0..LongList
  /\ NoStep \notin StepRecord

(* What two steps have in common when they count as the same: the result   *)
(* of a tool is not compared, nor the name of the model.                   *)
KeyOf(s) ==
  CASE s.type = "tool"  -> <<"tool", s.name, s.args>>
    [] s.type = "model" -> <<"model", s.content, "">>
    [] OTHER            -> <<"error", s.result, "">>

VARIABLES
  stepsA, stepsB, \* the steps of the two runs
  posA, posB,       \* how many of them are aligned
  lines,      \* Lines: [a, b, divergence], with the step numbers (0: nil)
  first,      \* FirstDivergence: the StepA, StepB, A and B of a Divergence
  identical,
  phase,      \* "walk", "trail", "compared" or "listed"
  full,       \* the --full flag
  listing     \* what is printed: the numbers of the steps each line describes

compareVars == <<stepsA, stepsB, posA, posB, lines, first, identical, phase, full, listing>>

Line == [a : Nat, b : Nat, divergence : BOOLEAN]
NoDivergence == [stepA |-> 0, stepB |-> 0, A |-> NoStep, B |-> NoStep]

CompareInit ==
  /\ \E n, m \in 0..MaxSteps : stepsA \in [1..n -> Steps] /\ stepsB \in [1..m -> Steps]
  /\ posA = 0 /\ posB = 0
  /\ lines = <<>>
  /\ first = NoDivergence
  /\ identical = FALSE
  /\ phase = "walk"
  /\ full \in BOOLEAN
  /\ listing = <<>>

(* dp: the length of the longest common subsequence of the first n steps   *)
(* of A and the first m of B.                                              *)
Lcs ==
  LET dp[n \in 0..Len(stepsA), m \in 0..Len(stepsB)] ==
        IF n = 0 \/ m = 0 THEN 0
        ELSE IF KeyOf(stepsA[n]) = KeyOf(stepsB[m]) THEN dp[n - 1, m - 1] + 1
        ELSE IF dp[n - 1, m] > dp[n, m - 1] THEN dp[n - 1, m]
        ELSE dp[n, m - 1]
  IN  dp

(* Fault: the last divergence is kept. *)
MarkLast(d) == first' = d

(* markDivergence keeps the first. *)
MarkDivergence(d) == first' = IF first = NoDivergence THEN d ELSE first

Match ==
  /\ phase = "walk"
  /\ posA < Len(stepsA) /\ posB < Len(stepsB)
  /\ KeyOf(stepsA[posA + 1]) = KeyOf(stepsB[posB + 1])
  /\ lines' = Append(lines, [a |-> posA + 1, b |-> posB + 1, divergence |-> FALSE])
  /\ posA' = posA + 1
  /\ posB' = posB + 1
  /\ UNCHANGED <<stepsA, stepsB, first, identical, phase, full, listing>>

(* The first two steps that differ end the walk, and with it the           *)
(* comparison: which side the table prefers has no effect on the result.   *)
Diverge ==
  /\ phase = "walk"
  /\ posA < Len(stepsA) /\ posB < Len(stepsB)
  /\ KeyOf(stepsA[posA + 1]) # KeyOf(stepsB[posB + 1])
  /\ lines' = Append(lines, [a |-> posA + 1, b |-> posB + 1, divergence |-> TRUE])
  /\ MarkDivergence([stepA |-> posA + 1, stepB |-> posB + 1,
                     A |-> stepsA[posA + 1], B |-> stepsB[posB + 1]])
  /\ IF Lcs[posA + 1, posB] >= Lcs[posA, posB + 1]
     THEN posA' = posA + 1 /\ posB' = posB
     ELSE posA' = posA /\ posB' = posB + 1
  /\ phase' = "compared"
  /\ UNCHANGED <<stepsA, stepsB, identical, full, listing>>

(* The steps that one run took after the end of the other. *)
TrailA ==
  /\ phase \in {"walk", "trail"}
  /\ posA < Len(stepsA) /\ posB >= Len(stepsB)
  /\ lines' = Append(lines, [a |-> posA + 1, b |-> 0, divergence |-> first = NoDivergence])
  /\ MarkDivergence([stepA |-> posA + 1, stepB |-> posB + 1, A |-> stepsA[posA + 1], B |-> NoStep])
  /\ posA' = posA + 1
  /\ phase' = "trail"
  /\ UNCHANGED <<stepsA, stepsB, posB, identical, full, listing>>

TrailB ==
  /\ phase \in {"walk", "trail"}
  /\ posA >= Len(stepsA) /\ posB < Len(stepsB)
  /\ lines' = Append(lines, [a |-> 0, b |-> posB + 1, divergence |-> first = NoDivergence])
  /\ MarkDivergence([stepA |-> posA + 1, stepB |-> posB + 1, A |-> NoStep, B |-> stepsB[posB + 1]])
  /\ posB' = posB + 1
  /\ phase' = "trail"
  /\ UNCHANGED <<stepsA, stepsB, posA, identical, full, listing>>

Finish ==
  /\ phase \in {"walk", "trail"}
  /\ posA = Len(stepsA) /\ posB = Len(stepsB)
  /\ identical' = (Len(stepsA) = Len(stepsB))
  /\ phase' = "compared"
  /\ UNCHANGED <<stepsA, stepsB, posA, posB, lines, first, full, listing>>

(* A line that is not the divergence describes its step of A, which a step *)
(* of B alone has not.                                                     *)
Described(line) ==
  [a |-> line.a, b |-> IF line.divergence \/ line.a # 0 THEN line.b ELSE 0]

Limit == IF ~full /\ Len(lines) > LongList THEN HeadLines ELSE Len(lines)

(* Fault: the last step is left out. *)
RestAButLast ==
  IF full /\ first # NoDivergence /\ first.stepA < Len(stepsA)
  THEN [k \in 1..(Len(stepsA) - first.stepA - 1) |-> [a |-> first.stepA + k, b |-> 0]]
  ELSE <<>>

(* With --full: what each run did after the divergence. *)
RestA ==
  IF full /\ first # NoDivergence /\ first.stepA < Len(stepsA)
  THEN [k \in 1..(Len(stepsA) - first.stepA) |-> [a |-> first.stepA + k, b |-> 0]]
  ELSE <<>>

RestB ==
  IF full /\ first # NoDivergence /\ first.stepB < Len(stepsB)
  THEN [k \in 1..(Len(stepsB) - first.stepB) |-> [a |-> 0, b |-> first.stepB + k]]
  ELSE <<>>

PrintTrajectory ==
  /\ phase = "compared"
  /\ listing' = [k \in 1..Limit |-> Described(lines[k])] \o RestA \o RestB
  /\ phase' = "listed"
  /\ UNCHANGED <<stepsA, stepsB, posA, posB, lines, first, identical, full>>

CompareNext == Match \/ Diverge \/ TrailA \/ TrailB \/ Finish \/ PrintTrajectory

CompareSpec == CompareInit /\ [][CompareNext]_compareVars

-----------------------------------------------------------------------------

Compared == phase \in {"compared", "listed"}

(* The type invariant. *)
CompareTypeOK ==
  /\ stepsA \in Seq(Steps) /\ stepsB \in Seq(Steps)
  /\ posA \in 0..Len(stepsA) /\ posB \in 0..Len(stepsB)
  /\ lines \in Seq(Line)
  /\ first \in [stepA : Nat, stepB : Nat, A : Steps \cup {NoStep}, B : Steps \cup {NoStep}]
  /\ identical \in BOOLEAN
  /\ phase \in {"walk", "trail", "compared", "listed"}
  /\ full \in BOOLEAN
  /\ listing \in Seq([a : Nat, b : Nat])

(* Where the reported divergence is, by the number of a run that has a     *)
(* step there.                                                             *)
Place == IF first.A # NoStep THEN first.stepA ELSE first.stepB

(* The reported divergence is the first one: the runs agree on every step  *)
(* before it and not on it, which one of them may not have.  It has the    *)
(* number and the step of each run that has one there; of a run that has   *)
(* ended before, it has no step.                                           *)
FirstDivergenceIsFirst ==
  first # NoDivergence =>
    LET k == Place IN
      /\ \A n \in 1..(k - 1) :
           n \in DOMAIN stepsA \cap DOMAIN stepsB /\ KeyOf(stepsA[n]) = KeyOf(stepsB[n])
      /\ k \in DOMAIN stepsA \cup DOMAIN stepsB
      /\ k \in DOMAIN stepsA \cap DOMAIN stepsB => KeyOf(stepsA[k]) # KeyOf(stepsB[k])
      /\ IF k \in DOMAIN stepsA THEN first.stepA = k /\ first.A = stepsA[k] ELSE first.A = NoStep
      /\ IF k \in DOMAIN stepsB THEN first.stepB = k /\ first.B = stepsB[k] ELSE first.B = NoStep

(* Compare calls the runs identical, and reports no divergence, exactly if *)
(* they are of equal length and agree on every step.                       *)
IdenticalIffEqual ==
  Compared =>
    /\ identical <=> /\ Len(stepsA) = Len(stepsB)
                     /\ \A n \in DOMAIN stepsA : KeyOf(stepsA[n]) = KeyOf(stepsB[n])
    /\ identical <=> first = NoDivergence

(* One line at most is marked, the line of the reported divergence: the    *)
(* marks before it stand for common steps, and no later line names a step  *)
(* of each run.                                                            *)
OneLineIsMarked ==
  \A n \in DOMAIN lines :
    /\ lines[n].divergence <=> (first # NoDivergence /\ n = Place)
    /\ first = NoDivergence \/ n < Place => lines[n].a = n /\ lines[n].b = n
    /\ first # NoDivergence /\ n > Place => lines[n].a = 0 \/ lines[n].b = 0

(* The three together: what Compare returns.                               *)
ComparisonIsRight == FirstDivergenceIsFirst /\ IdenticalIffEqual /\ OneLineIsMarked

(* The full listing leaves no step of either run out.                      *)
FullListingIsComplete ==
  phase = "listed" /\ full =>
    /\ \A n \in DOMAIN stepsA : \E k \in DOMAIN listing : listing[k].a = n
    /\ \A n \in DOMAIN stepsB : \E k \in DOMAIN listing : listing[k].b = n

=============================================================================
