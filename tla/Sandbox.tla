------------------------------- MODULE Sandbox -------------------------------
(***************************************************************************)
(* The shell commands of one run in the sandbox (internal/sandbox, the     *)
(* backends none and process on unix): the agent's exec_command calls,     *)
(* then the verification commands of builder.go verifyResult.  A command   *)
(* is a shell with a process group of its own; it and its children hold    *)
(* the pipe its output is read from until they exit or redirect it.  Wait  *)
(* returns when the shell has exited and nobody holds the pipe.            *)
(*                                                                         *)
(* Processes are the operating system's: they may fork, leave the group    *)
(* (setsid), redirect their output, exit, or run for ever.  A kill of a    *)
(* group ends every member in one step, as the kernel does it.             *)
(***************************************************************************)
EXTENDS Integers

CONSTANTS
  NumAgent,   \* bound: commands of the agent
  NumVerify,  \* verification commands
  Children    \* bound: the processes the shells may fork in all

ASSUME SandboxAssumption == NumAgent \in Nat /\ NumVerify \in Nat

Commands == 1..(NumAgent + NumVerify)
Verification == (NumAgent + 1)..(NumAgent + NumVerify)

VARIABLES
  spec,     \* [backend, timed]: the harness' sandbox section
  ctx,      \* the run's context: "live" or "done"
  k,        \* the command at hand
  call,     \* of it: "next", "select" (waitFor), "reap" (<-done), "over"
  timer,    \* its timeout: "off", "armed" or "fired"
  done,     \* the channel Wait's goroutine fills: "empty", "ok" or "failed"
  shell,    \* the shell of every command
  child,    \* the forked processes: [of, grouped, piped], or no process
  killed,   \* history: the commands whose group was killed
  results,  \* by command: [err, code]
  verdict   \* ver.Passed

vars == <<spec, ctx, k, call, timer, done, shell, child, killed, results, verdict>>

NoProcess == [of |-> 0, grouped |-> FALSE, piped |-> FALSE]
NoResult  == [err |-> TRUE, code |-> -1]
Processes == [of : Commands, grouped : BOOLEAN, piped : BOOLEAN]

TypeOK ==
  /\ spec \in [backend : {"none", "process"}, timed : BOOLEAN]
  /\ ctx \in {"live", "done"}
  /\ k \in 1..(NumAgent + NumVerify + 1)
  /\ call \in {"next", "select", "reap", "over"}
  /\ timer \in {"off", "armed", "fired"} /\ (timer # "off" => spec.timed /\ call # "next")
  /\ done \in {"empty", "ok", "failed"}
  /\ shell \in [Commands -> {"none", "alive", "ok", "failed", "dead"}]
  /\ child \in [Children -> Processes \cup {NoProcess}]
  /\ killed \subseteq Commands
  /\ results \in [Commands -> [err : BOOLEAN, code : {-1, 0, 1}]]
  /\ verdict \in BOOLEAN

\* A harness without a sandbox gives the agent the framework's own exec tool.
Init ==
  /\ spec \in [backend : {"none", "process"}, timed : BOOLEAN]
  /\ ctx = "live"
  /\ k = (IF spec.backend = "none" THEN NumAgent + 1 ELSE 1)
  /\ call = "next" /\ timer = "off" /\ done = "empty"
  /\ shell = [c \in Commands |-> "none"]
  /\ child = [p \in Children |-> NoProcess]
  /\ killed = {}
  /\ results = [c \in Commands |-> NoResult]
  /\ verdict = TRUE

Live(p)  == child[p] # NoProcess
Holds(c) == shell[c] = "alive" \/ \E p \in Children : child[p].of = c /\ child[p].piped
\* The command's context: the run's, with the command's timeout.
Expired  == ctx = "done" \/ timer = "fired"

-----------------------------------------------------------------------------
(* The processes *)

\* A child takes from its parent the group and the pipe, or gives them up.
Fork(p) ==
  /\ ~Live(p)
  /\ \E c \in Commands, grouped, piped \in BOOLEAN :
       /\ \/ shell[c] = "alive"
          \/ \E q \in Children : /\ child[q].of = c
                                 /\ grouped => child[q].grouped
                                 /\ piped => child[q].piped
       /\ child' = [child EXCEPT ![p] = [of |-> c, grouped |-> grouped, piped |-> piped]]
  /\ UNCHANGED <<spec, ctx, k, call, timer, done, shell, killed, results, verdict>>

ChildExits(p) ==
  /\ Live(p)
  /\ child' = [child EXCEPT ![p] = NoProcess]
  /\ UNCHANGED <<spec, ctx, k, call, timer, done, shell, killed, results, verdict>>

ShellExits(c) ==
  /\ shell[c] = "alive"
  /\ \E status \in {"ok", "failed"} : shell' = [shell EXCEPT ![c] = status]
  /\ UNCHANGED <<spec, ctx, k, call, timer, done, child, killed, results, verdict>>

\* The goroutine of waitFor.
Waits ==
  /\ call \in {"select", "reap"} /\ done = "empty"
  /\ ~Holds(k)
  /\ done' = (IF shell[k] = "ok" THEN "ok" ELSE "failed")
  /\ UNCHANGED <<spec, ctx, k, call, timer, shell, child, killed, results, verdict>>

\* The run is cancelled, or its timeout ends it.
ContextEnds ==
  /\ ctx = "live" /\ ctx' = "done"
  /\ UNCHANGED <<spec, k, call, timer, done, shell, child, killed, results, verdict>>

TimerFires ==
  /\ timer = "armed" /\ timer' = "fired"
  /\ UNCHANGED <<spec, ctx, k, call, done, shell, child, killed, results, verdict>>

-----------------------------------------------------------------------------
(* The caller *)

\* verifyResult: one command that did not pass fails the verification.
VerdictAfter(c, err) == verdict /\ (c \in Verification => ~err)

\* Sandbox.Run returns, and with it the exec_command call or the turn of
\* verifyResult's loop.  The process backend reports -1 once the run is over.
Return(err, code) ==
  /\ results' = [results EXCEPT ![k] =
       [err |-> err,
        code |-> IF spec.backend = "process" /\ ctx = "done" THEN -1 ELSE code]]
  /\ verdict' = VerdictAfter(k, err)
  /\ k' = k + 1
  /\ call' = "next" /\ timer' = "off" /\ done' = "empty"

\* The command line is empty or the policy refuses it (only the process backend
\* has one), or the shell cannot be started.
Refuse ==
  /\ call = "next" /\ k \in Commands
  /\ Return(TRUE, -1)
  /\ UNCHANGED <<spec, ctx, shell, child, killed>>

\* runCommandTree: started even when the context has already ended.
Start ==
  /\ call = "next" /\ k \in Commands
  /\ shell' = [shell EXCEPT ![k] = "alive"]
  /\ timer' = (IF spec.timed THEN "armed" ELSE "off")
  /\ call' = "select"
  /\ UNCHANGED <<spec, ctx, k, done, child, killed, results, verdict>>

\* The agent needs no further command.
AgentEnds ==
  /\ call = "next" /\ k \in Commands \ Verification
  /\ k' = NumAgent + 1
  /\ UNCHANGED <<spec, ctx, call, timer, done, shell, child, killed, results, verdict>>

VerifyEnds ==
  /\ call = "next" /\ k \notin Commands
  /\ call' = "over"
  /\ UNCHANGED <<spec, ctx, k, timer, done, shell, child, killed, results, verdict>>

\* select: the command is done ...
TakeDone ==
  /\ call = "select" /\ done # "empty"
  /\ Return(done = "failed", IF done = "ok" THEN 0 ELSE 1)
  /\ UNCHANGED <<spec, ctx, shell, child, killed>>

KillGroup(c) ==
  /\ shell' = [shell EXCEPT ![c] = IF @ = "alive" THEN "dead" ELSE @]
  /\ child' = [p \in Children |->
                 IF child[p].of = c /\ child[p].grouped THEN NoProcess ELSE child[p]]

\* Fault: only the shell is killed, as exec.CommandContext does.
KillShellOnly ==
  /\ call = "select" /\ Expired
  /\ killed' = killed \cup {k}
  /\ shell' = [shell EXCEPT ![k] = IF @ = "alive" THEN "dead" ELSE @]
  /\ call' = "reap"
  /\ UNCHANGED <<spec, ctx, k, timer, done, child, results, verdict>>

\* Fault: the result is returned without waiting for Wait.
KillAndReturn ==
  /\ call = "select" /\ Expired
  /\ killed' = killed \cup {k}
  /\ KillGroup(k)
  /\ Return(TRUE, -1)
  /\ UNCHANGED <<spec, ctx>>

\* ... or its context has ended, even if the command is done as well.
TakeContext ==
  /\ call = "select" /\ Expired
  /\ killed' = killed \cup {k}
  /\ KillGroup(k)
  /\ call' = "reap"
  /\ UNCHANGED <<spec, ctx, k, timer, done, results, verdict>>

\* Fault: what Wait returned is reported after a kill, too.
ReapAsUsual ==
  /\ call = "reap" /\ done # "empty"
  /\ Return(done = "failed", IF done = "ok" THEN 0 ELSE -1)
  /\ UNCHANGED <<spec, ctx, shell, child, killed>>

\* <-done, after the kill.
Reap ==
  /\ call = "reap" /\ done # "empty"
  /\ Return(TRUE, -1)
  /\ UNCHANGED <<spec, ctx, shell, child, killed>>

Over == call = "over" /\ UNCHANGED vars

Caller == Refuse \/ Start \/ AgentEnds \/ VerifyEnds \/ TakeDone \/ TakeContext \/ Reap

Next ==
  \/ Refuse \/ Start \/ AgentEnds \/ VerifyEnds \/ TakeDone \/ TakeContext \/ Reap
  \/ Waits \/ ContextEnds \/ TimerFires
  \/ \E p \in Children : Fork(p) \/ ChildExits(p)
  \/ \E c \in Commands : ShellExits(c)
  \/ Over

Spec == Init /\ [][Next]_vars

\* Goroutines are scheduled and timers fire; no process need ever exit, and the
\* run need not be cancelled.
FairSpec == Spec /\ WF_vars(Caller) /\ WF_vars(Waits) /\ WF_vars(TimerFires)

-----------------------------------------------------------------------------
(* Properties *)

\* When a command killed has returned, nothing of its process group is left to
\* change the workspace; a process that left the group may be.
KilledTreeIsGone ==
  \A c \in killed :
     shell[c] # "alive" /\ \A p \in Children : child[p].of = c => ~child[p].grouped

\* Nobody writes to the output of a command whose result has been returned: the
\* buffer is read without a lock.
OutputIsComplete == \A c \in Commands : c < k => ~Holds(c)

\* A command succeeds exactly if its shell was started, exited with 0 and was not
\* killed ("A command killed by the timeout must never report success", process.go),
\* even if the shell had exited before a child that held the pipe made it run into
\* the timeout; and the verdict is that of all verification commands so far.
ResultsHold ==
  /\ \A c \in Commands :
       c < k => (~results[c].err <=> shell[c] = "ok" /\ c \notin killed)
  /\ verdict <=> \A c \in Verification : c < k => ~results[c].err

\* With a timeout every command returns although its processes may run for ever,
\* unless one of them has left the group and holds the pipe.
CommandReturns ==
  \A c \in Commands :
    (spec.timed /\ k = c /\ call = "select") ~>
      (k > c \/ \E p \in Children : child[p].of = c /\ child[p].piped /\ ~child[p].grouped)
=============================================================================
