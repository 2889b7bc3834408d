---------------------------- MODULE SandboxProofs ----------------------------
(***************************************************************************)
(* The safety properties of Sandbox, for any number of commands and of     *)
(* processes, from one inductive invariant.                                *)
(***************************************************************************)
EXTENDS Sandbox, TLAPS

USE SandboxAssumption

\* A command nobody has started yet has neither processes nor a result.
Untouched(c) ==
  /\ shell[c] = "none" /\ c \notin killed /\ results[c].err
  /\ \A p \in Children : child[p].of # c

Ahead(c) == c > k \/ (c = k /\ call = "next")

FutureInv == \A c \in Commands : Ahead(c) => Untouched(c)

\* Where the caller is, and what the channel tells it: Wait has returned only when
\* nobody holds the pipe any more, and none can come to hold it again.
CallInv ==
  /\ call \in {"select", "reap"} => k \in Commands
  /\ call = "select" => k \notin killed
  /\ call = "reap" => k \in killed
  /\ call \in {"next", "over"} => done = "empty"
  /\ done # "empty" => ~Holds(k) /\ (done = "ok" <=> shell[k] = "ok")

Inductive ==
  /\ TypeOK
  /\ FutureInv
  /\ CallInv
  /\ KilledTreeIsGone
  /\ OutputIsComplete
  /\ ResultsHold

-----------------------------------------------------------------------------
(* What the processes may do *)

\* Nobody comes to hold the pipe of a command, or joins the group of a killed one,
\* after the last who could have given it away is gone; nor does a command ahead
\* get a process.
LEMMA ProcessesKeep ==
  ASSUME Inductive, UNCHANGED <<spec, ctx, k, call, timer, killed, results, verdict>>,
         done' = done,
         \/ \E p \in Children : Fork(p) \/ ChildExits(p)
         \/ \E c \in Commands : ShellExits(c)
  PROVE  Inductive'
<1> USE DEF Inductive, TypeOK
<1>1. ASSUME NEW p \in Children, Fork(p) PROVE Inductive'
  <2>1. PICK c \in Commands, grouped \in BOOLEAN, piped \in BOOLEAN :
          /\ \/ shell[c] = "alive"
             \/ \E q \in Children : /\ child[q].of = c
                                    /\ grouped => child[q].grouped
                                    /\ piped => child[q].piped
          /\ child' = [child EXCEPT ![p] = [of |-> c, grouped |-> grouped, piped |-> piped]]
    BY <1>1 DEF Fork
  <2>2. shell' = shell
    BY <1>1 DEF Fork
  <2>3. \A q \in Children :
          child'[q] = IF q = p THEN [of |-> c, grouped |-> grouped, piped |-> piped] ELSE child[q]
    BY <2>1
  <2>4. ASSUME NEW d \in Commands, ~Holds(d) PROVE ~Holds(d)'
    BY <2>1, <2>2, <2>3, <2>4 DEF Holds
  <2>5. TypeOK'
    BY <2>1, <2>2 DEF Processes
  <2>6. FutureInv'
    BY <2>1, <2>2, <2>3 DEF FutureInv, Untouched, Ahead
  <2>7. CallInv'
    BY <2>2, <2>4 DEF CallInv
  <2>8. KilledTreeIsGone'
    BY <2>1, <2>2, <2>3 DEF KilledTreeIsGone
  <2>9. OutputIsComplete'
    BY <2>4 DEF OutputIsComplete
  <2>10. ResultsHold'
    BY <2>2 DEF ResultsHold
  <2> QED BY <2>5, <2>6, <2>7, <2>8, <2>9, <2>10
<1>2. ASSUME NEW p \in Children, ChildExits(p) PROVE Inductive'
  <2>1. /\ shell' = shell
        /\ child' = [child EXCEPT ![p] = NoProcess]
    BY <1>2 DEF ChildExits
  <2>2. \A q \in Children : child'[q] = IF q = p THEN NoProcess ELSE child[q]
    BY <2>1
  <2>3. ASSUME NEW d \in Commands, ~Holds(d) PROVE ~Holds(d)'
    BY <2>1, <2>2, <2>3 DEF Holds, NoProcess
  <2>4. \A d \in Commands : d # 0
    BY DEF Commands
  <2>5. TypeOK'
    BY <2>1
  <2>6. FutureInv'
    BY <2>1, <2>2, <2>4 DEF FutureInv, Untouched, Ahead, NoProcess
  <2>7. CallInv'
    BY <2>1, <2>3 DEF CallInv
  <2>8. KilledTreeIsGone'
    BY <2>1, <2>2 DEF KilledTreeIsGone, NoProcess
  <2>9. OutputIsComplete'
    BY <2>3 DEF OutputIsComplete
  <2>10. ResultsHold'
    BY <2>1 DEF ResultsHold
  <2> QED BY <2>5, <2>6, <2>7, <2>8, <2>9, <2>10
<1>3. ASSUME NEW c \in Commands, ShellExits(c) PROVE Inductive'
  <2>1. PICK status \in {"ok", "failed"} : shell' = [shell EXCEPT ![c] = status]
    BY <1>3 DEF ShellExits
  <2>2. shell[c] = "alive" /\ child' = child
    BY <1>3 DEF ShellExits
  <2>3. \A d \in Commands : shell'[d] = IF d = c THEN status ELSE shell[d]
    BY <2>1
  <2>4. ASSUME NEW d \in Commands, ~Holds(d) PROVE ~Holds(d)' /\ d # c
    BY <2>2, <2>3, <2>4 DEF Holds
  <2>5. TypeOK'
    BY <2>1, <2>2
  <2>6. FutureInv'
    BY <2>2, <2>3 DEF FutureInv, Untouched, Ahead
  <2>7. CallInv'
    BY <2>3, <2>4 DEF CallInv
  <2>8. KilledTreeIsGone'
    BY <2>2, <2>3 DEF KilledTreeIsGone
  <2>9. OutputIsComplete'
    BY <2>4 DEF OutputIsComplete
  <2>10. ResultsHold'
    BY <2>3, <2>4 DEF ResultsHold, OutputIsComplete
  <2> QED BY <2>5, <2>6, <2>7, <2>8, <2>9, <2>10
<1> QED BY <1>1, <1>2, <1>3

-----------------------------------------------------------------------------
(* What the caller does *)

\* A command returns only without a holder of its pipe, and with the result it had.
LEMMA ReturnKeeps ==
  ASSUME Inductive, NEW err \in BOOLEAN, NEW code \in {-1, 0, 1}, Return(err, code),
         k \in Commands, UNCHANGED <<spec, ctx, shell, child, killed>>,
         ~Holds(k), ~err <=> shell[k] = "ok" /\ k \notin killed
  PROVE  Inductive'
<1> USE DEF Inductive, TypeOK, Return
<1>1. \A c \in Commands : results'[c].err = IF c = k THEN err ELSE results[c].err
  OBVIOUS
<1>2. k \in Int /\ Commands \subseteq Int /\ k' = k + 1
  BY DEF Commands
<1>3. TypeOK'
  <2>1. k' \in 1..(NumAgent + NumVerify + 1)
    BY DEF Commands
  <2>2. results' \in [Commands -> [err : BOOLEAN, code : {-1, 0, 1}]]
    OBVIOUS
  <2>3. verdict' \in BOOLEAN
    BY DEF VerdictAfter
  <2> QED BY <2>1, <2>2, <2>3
<1>4. FutureInv'
  BY <1>1, <1>2 DEF FutureInv, Untouched, Ahead
<1>5. CallInv'
  BY DEF CallInv
<1>6. KilledTreeIsGone'
  BY DEF KilledTreeIsGone
<1>7. OutputIsComplete'
  BY <1>2 DEF OutputIsComplete, Holds
<1>8. ResultsHold'
  <2>1. \A c \in Commands : c < k' => (~results'[c].err <=> shell[c] = "ok" /\ c \notin killed)
    BY <1>1, <1>2 DEF ResultsHold
  <2>2. verdict' <=> verdict /\ (k \in Verification => ~err)
    BY DEF VerdictAfter
  <2>3. Verification \subseteq Commands
    BY DEF Verification, Commands
  <2>4. verdict' <=> \A c \in Verification : c < k' => ~results'[c].err
    BY <1>1, <1>2, <2>2, <2>3 DEF ResultsHold
  <2> QED BY <2>1, <2>4 DEF ResultsHold
<1> QED BY <1>3, <1>4, <1>5, <1>6, <1>7, <1>8

LEMMA InductiveInit == Init => Inductive
<1> SUFFICES ASSUME Init PROVE Inductive
  OBVIOUS
<1> USE DEF Init
<1>1. \A c \in Commands : c > 0 /\ c # 0
  BY DEF Commands
<1>2. TypeOK
  BY DEF TypeOK, NoResult, NoProcess
<1>3. FutureInv
  BY <1>1 DEF FutureInv, Untouched, NoProcess, NoResult
<1>4. CallInv /\ KilledTreeIsGone
  BY DEF CallInv, KilledTreeIsGone
<1>5. OutputIsComplete
  BY <1>1 DEF OutputIsComplete, Holds, NoProcess
<1>6. ResultsHold
  BY DEF ResultsHold, Verification, NoResult
<1> QED BY <1>2, <1>3, <1>4, <1>5, <1>6 DEF Inductive

LEMMA InductiveStep == Inductive /\ [Next]_vars => Inductive'
<1> SUFFICES ASSUME Inductive, [Next]_vars PROVE Inductive'
  OBVIOUS
<1> USE DEF Inductive, TypeOK
<1>0. k \in Int /\ Commands \subseteq Int /\ \A c \in Commands : c # 0
  BY DEF Commands
<1>1. CASE Refuse
  <2>1. Return(TRUE, -1) /\ k \in Commands /\ call = "next"
    BY <1>1 DEF Refuse
  <2>2. UNCHANGED <<spec, ctx, shell, child, killed>>
    BY <1>1 DEF Refuse
  <2>3. Untouched(k)
    BY <2>1 DEF FutureInv, Ahead
  <2>4. ~Holds(k) /\ (~TRUE <=> shell[k] = "ok" /\ k \notin killed)
    BY <2>3 DEF Untouched, Holds
  <2> QED BY <2>1, <2>2, <2>4, ReturnKeeps
<1>2. CASE Start
  <2>1. /\ call = "next" /\ k \in Commands /\ call' = "select"
        /\ shell' = [shell EXCEPT ![k] = "alive"]
        /\ timer' = (IF spec.timed THEN "armed" ELSE "off")
        /\ UNCHANGED <<spec, ctx, k, done, child, killed, results, verdict>>
    BY <1>2 DEF Start
  <2>2. Untouched(k)
    BY <2>1 DEF FutureInv, Ahead
  <2>3. \A c \in Commands : shell'[c] = IF c = k THEN "alive" ELSE shell[c]
    BY <2>1
  <2>4. TypeOK'
    BY <2>1
  <2>5. FutureInv'
    BY <1>0, <2>1, <2>3 DEF FutureInv, Untouched, Ahead
  <2>6. CallInv'
    BY <2>1, <2>2 DEF CallInv, Untouched
  <2>7. KilledTreeIsGone'
    BY <2>1, <2>2, <2>3 DEF KilledTreeIsGone, Untouched
  <2>8. OutputIsComplete'
    BY <1>0, <2>1, <2>3 DEF OutputIsComplete, Holds
  <2>9. ResultsHold'
    BY <1>0, <2>1, <2>3 DEF ResultsHold
  <2> QED BY <2>4, <2>5, <2>6, <2>7, <2>8, <2>9
<1>3. CASE AgentEnds
  <2>1. /\ call = "next" /\ k \in Commands \ Verification /\ k' = NumAgent + 1
        /\ UNCHANGED <<spec, ctx, call, timer, done, shell, child, killed, results, verdict>>
    BY <1>3 DEF AgentEnds
  <2>2. k < k'
    BY <2>1 DEF Commands, Verification
  <2>3. \A c \in Commands : c < k' => c < k \/ Untouched(c)
    BY <1>0, <2>1 DEF FutureInv, Ahead
  <2>4. TypeOK'
    BY <2>1 DEF Commands
  <2>5. FutureInv'
    <3>1. ASSUME NEW c \in Commands, Ahead(c)' PROVE Ahead(c)
      BY <1>0, <2>1, <2>2, <3>1 DEF Ahead
    <3> QED BY <2>1, <3>1 DEF FutureInv, Untouched
  <2>6. CallInv'
    BY <2>1 DEF CallInv
  <2>7. KilledTreeIsGone'
    BY <2>1 DEF KilledTreeIsGone
  <2>8. OutputIsComplete'
    <3>1. \A c \in Commands : Untouched(c) => ~Holds(c)
      BY DEF Untouched, Holds
    <3> QED BY <2>1, <2>3, <3>1 DEF OutputIsComplete, Holds
  <2>9. ResultsHold'
    <3>1. \A c \in Commands : c < k' => (~results[c].err <=> shell[c] = "ok" /\ c \notin killed)
      BY <2>3 DEF ResultsHold, Untouched
    <3>2. \A c \in Verification : ~(c < k') /\ ~(c < k)
      BY <2>1, <2>2 DEF Verification
    <3> QED BY <2>1, <3>1, <3>2 DEF ResultsHold
  <2> QED BY <2>4, <2>5, <2>6, <2>7, <2>8, <2>9
<1>4. CASE VerifyEnds
  <2>1. /\ call = "next" /\ k \notin Commands /\ call' = "over"
        /\ UNCHANGED <<spec, ctx, k, timer, done, shell, child, killed, results, verdict>>
    BY <1>4 DEF VerifyEnds
  <2>2. TypeOK' /\ KilledTreeIsGone' /\ OutputIsComplete' /\ ResultsHold'
    BY <2>1 DEF KilledTreeIsGone, OutputIsComplete, Holds, ResultsHold
  <2>3. FutureInv' /\ CallInv'
    BY <2>1 DEF FutureInv, Ahead, Untouched, CallInv
  <2> QED BY <2>2, <2>3
<1>5. CASE TakeDone
  <2>1. /\ call = "select" /\ done # "empty"
        /\ Return(done = "failed", IF done = "ok" THEN 0 ELSE 1)
    BY <1>5 DEF TakeDone
  <2>2. UNCHANGED <<spec, ctx, shell, child, killed>>
    BY <1>5 DEF TakeDone
  <2>3. k \in Commands /\ ~Holds(k) /\ (~(done = "failed") <=> shell[k] = "ok" /\ k \notin killed)
    BY <2>1 DEF CallInv
  <2> QED BY <2>1, <2>2, <2>3, ReturnKeeps
<1>6. CASE TakeContext
  <2>1. /\ call = "select" /\ call' = "reap" /\ killed' = killed \cup {k}
        /\ KillGroup(k)
        /\ UNCHANGED <<spec, ctx, k, timer, done, results, verdict>>
    BY <1>6 DEF TakeContext
  <2>2. k \in Commands
    BY <2>1 DEF CallInv
  <2>3. \A c \in Commands :
          shell'[c] = IF c = k /\ shell[c] = "alive" THEN "dead" ELSE shell[c]
    BY <2>1 DEF KillGroup
  <2>4. \A p \in Children :
          child'[p] = IF child[p].of = k /\ child[p].grouped THEN NoProcess ELSE child[p]
    BY <2>1 DEF KillGroup
  <2>5. ASSUME NEW d \in Commands, ~Holds(d) PROVE ~Holds(d)'
    BY <2>3, <2>4, <2>5 DEF Holds, NoProcess
  <2>6. TypeOK'
    <3>1. shell' \in [Commands -> {"none", "alive", "ok", "failed", "dead"}]
      BY <2>1 DEF KillGroup
    <3>2. child' \in [Children -> Processes \cup {NoProcess}]
      BY <2>1 DEF KillGroup
    <3> QED BY <2>1, <2>2, <3>1, <3>2
  <2>7. FutureInv'
    BY <1>0, <2>1, <2>3, <2>4 DEF FutureInv, Untouched, Ahead, NoProcess
  <2>8. CallInv'
    <3>1. shell'[k] = "ok" <=> shell[k] = "ok"
      BY <2>2, <2>3
    <3> QED BY <2>1, <2>2, <2>5, <3>1 DEF CallInv
  <2>9. KilledTreeIsGone'
    <3>1. ASSUME NEW c \in killed'
          PROVE  shell'[c] # "alive" /\ \A p \in Children : child'[p].of = c => ~child'[p].grouped
      <4>1. c \in Commands /\ (c = k \/ c \in killed)
        BY <2>1, <2>2, <3>1
      <4>2. shell'[c] # "alive"
        BY <2>3, <4>1 DEF KilledTreeIsGone
      <4>3. ASSUME NEW p \in Children, child'[p].of = c PROVE ~child'[p].grouped
        <5>1. NoProcess.of = 0 /\ c # 0
          BY <1>0, <4>1 DEF NoProcess
        <5> QED BY <2>4, <4>1, <4>3, <5>1 DEF KilledTreeIsGone
      <4> QED BY <4>2, <4>3
    <3> QED BY <3>1 DEF KilledTreeIsGone
  <2>10. OutputIsComplete'
    BY <2>1, <2>5 DEF OutputIsComplete
  <2>11. ResultsHold'
    BY <1>0, <2>1, <2>3 DEF ResultsHold
  <2> QED BY <2>6, <2>7, <2>8, <2>9, <2>10, <2>11
<1>7. CASE Reap
  <2>1. call = "reap" /\ done # "empty" /\ Return(TRUE, -1)
    BY <1>7 DEF Reap
  <2>2. UNCHANGED <<spec, ctx, shell, child, killed>>
    BY <1>7 DEF Reap
  <2>3. k \in Commands /\ ~Holds(k) /\ (~TRUE <=> shell[k] = "ok" /\ k \notin killed)
    BY <2>1 DEF CallInv
  <2> QED BY <2>1, <2>2, <2>3, ReturnKeeps
<1>8. CASE Waits
  <2>1. /\ call \in {"select", "reap"} /\ ~Holds(k)
        /\ done' = (IF shell[k] = "ok" THEN "ok" ELSE "failed")
        /\ UNCHANGED <<spec, ctx, k, call, timer, shell, child, killed, results, verdict>>
    BY <1>8 DEF Waits
  <2>2. TypeOK' /\ FutureInv' /\ KilledTreeIsGone' /\ OutputIsComplete' /\ ResultsHold'
    BY <2>1 DEF FutureInv, Ahead, Untouched, KilledTreeIsGone, OutputIsComplete, Holds, ResultsHold
  <2>3. CallInv'
    BY <2>1 DEF CallInv, Holds
  <2> QED BY <2>2, <2>3
<1>9. CASE ContextEnds \/ TimerFires \/ Over \/ UNCHANGED vars
  <2>1. /\ UNCHANGED <<spec, k, call, done, shell, child, killed, results, verdict>>
        /\ timer' = timer \/ (timer = "armed" /\ timer' = "fired")
        /\ ctx' \in {"live", "done"}
    BY <1>9 DEF ContextEnds, TimerFires, Over, vars
  <2>2. TypeOK' /\ FutureInv' /\ KilledTreeIsGone' /\ OutputIsComplete' /\ ResultsHold'
    BY <2>1 DEF FutureInv, Ahead, Untouched, KilledTreeIsGone, OutputIsComplete, Holds, ResultsHold
  <2>3. CallInv'
    BY <2>1 DEF CallInv, Holds
  <2> QED BY <2>2, <2>3
<1>10. CASE \/ \E p \in Children : Fork(p) \/ ChildExits(p)
            \/ \E c \in Commands : ShellExits(c)
  <2>1. UNCHANGED <<spec, ctx, k, call, timer, killed, results, verdict>> /\ done' = done
    BY <1>10 DEF Fork, ChildExits, ShellExits
  <2> QED BY <1>10, <2>1, ProcessesKeep
<1> QED
  BY <1>1, <1>2, <1>3, <1>4, <1>5, <1>6, <1>7, <1>8, <1>9, <1>10 DEF Next

\* The invariant every theorem below rests on.
THEOREM InductiveInvariant == Spec => []Inductive
<1> QED BY InductiveInit, InductiveStep, PTL DEF Spec

\* Every variable keeps its type, and a timer is only ever armed for a command that
\* runs under a timeout.
THEOREM TypeCorrect == Spec => []TypeOK
<1> QED BY InductiveInvariant, PTL DEF Inductive

\* Of a command killed by its timeout or by the end of its run no member of the
\* process group is left (exec_unix.go runCommandTree).
THEOREM KillLeavesNoMember == Spec => []KilledTreeIsGone
<1> QED BY InductiveInvariant, PTL DEF Inductive

\* Nobody writes to the buffer of a command that has returned (sandbox.go waitFor
\* reads it after Wait only).
THEOREM ReturnedOutputIsComplete == Spec => []OutputIsComplete
<1> QED BY InductiveInvariant, PTL DEF Inductive

\* A killed command never reports success, and the verdict of the verification is
\* that of its commands.
THEOREM KilledNeverSucceeds == Spec => []ResultsHold
<1> QED BY InductiveInvariant, PTL DEF Inductive
=============================================================================
