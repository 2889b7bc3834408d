------------------------------ MODULE RunLifecycle ------------------------------
(***************************************************************************)
(* The life of a run in internal/harness/builder/builder.go: Build, which  *)
(* acquires what the run needs, Run, which drives the agent, verifies,     *)
(* takes the diff and settles the record, and Close, which releases.  The  *)
(* callers (benchmark.runJob, the CLI) call Run and Close after a Build    *)
(* that succeeded, and neither after one that failed.                      *)
(*                                                                         *)
(* Each run's context may end, and the process may be killed, between any  *)
(* two steps.  The record is kept by one of two drivers: JSON files        *)
(* written in place, whatever the context says, or SQLite rows written at  *)
(* once, unless the context has ended.  What the agent does is abstracted  *)
(* to whether it edits the workspace and whether it reports an error, and  *)
(* a verification to its outcome and whether it writes to the workspace.   *)
(***************************************************************************)
EXTENDS Integers, FiniteSets

CONSTANTS
  Runs,               \* run ids
  Sqlite,             \* the runs recorded in SQLite; the others are JSON files
  Repo,               \* the runs with a workspace (Options.Repo or Commit)
  Patched,            \* the runs with a recorded patch to apply (ReplayPatch)
  Verifies,           \* the runs with verification commands
  NeedsVerification,  \* Spec.Success.RequireVerification
  NeedsChange,        \* Spec.Success.RequireChange
  MayFail,            \* can an operation fail on its own?
  MaxCrashes          \* bound: how often the processes may be killed

ASSUME RunSetsAssumption ==
  /\ Sqlite \subseteq Runs
  /\ Repo \subseteq Runs
  /\ Patched \subseteq Runs
  /\ Verifies \subseteq Runs
  /\ NeedsVerification \subseteq Runs
  /\ NeedsChange \subseteq Runs
  /\ MayFail \in BOOLEAN
  /\ MaxCrashes \in Nat

VARIABLES
  pc,         \* each run's place
  ended,      \* the runs whose context has ended
  disk,       \* the store: [value, torn] of each run's record
  status,     \* RunRecord.Status in memory
  workspace,  \* the runs that hold a workspace
  trace,      \* each run's trace file: "none", "open" or "closed"
  agent,      \* what has happened in Run: [errored, edited, littered, verified, changed]
  returned,   \* what Build or Run returned: "none", "error" or a status
  crashes,    \* crashes so far
  blame,      \* history: what went wrong in a run whose context was alive
  lost        \* history: the runs one of whose record writes failed

vars == <<pc, ended, disk, status, workspace, trace, agent, returned, crashes, blame, lost>>

Final    == {"passed", "failed", "error", "cancelled"}
Statuses == {"running"} \cup Final

Building == {"store", "workspace", "assemble", "recorder", "insert", "replay"}
Running  == {"task", "start", "events", "patch", "verify", "diff", "judge", "finish"}
Writes   == {"insert", "task", "finish"}
Live     == Building \cup Running \cup {"close"}
Over     == {"unbuilt", "orphaned", "closed", "dead"}

\* A JSON record is being written: the file has been truncated.
Writing(r) == pc[r] \in Writes /\ disk[r].torn

\* An error event came; the agent or the recorded patch edited the workspace; the
\* verification's commands wrote to it; the diff shows a change; their outcome.
AgentData == [errored : BOOLEAN, edited : BOOLEAN, littered : BOOLEAN, changed : BOOLEAN,
              verified : {"none", "passed", "failed"}]
Causes    == {"agent", "verification", "change"}

TypeOK ==
  /\ pc \in [Runs -> {"idle"} \cup Live \cup Over]
  /\ ended \subseteq Runs
  /\ disk \in [Runs -> [value : {"absent"} \cup Statuses, torn : BOOLEAN]]
  /\ status \in [Runs -> Statuses]
  /\ workspace \subseteq Repo
  /\ trace \in [Runs -> {"none", "open", "closed"}]
  /\ agent \in [Runs -> AgentData]
  /\ returned \in [Runs -> {"none", "error"} \cup Final]
  /\ crashes \in 0..MaxCrashes
  /\ blame \in [Runs -> SUBSET Causes]
  /\ lost \subseteq Runs

Init ==
  /\ pc = [r \in Runs |-> "idle"]
  /\ ended = {}
  /\ disk = [r \in Runs |-> [value |-> "absent", torn |-> FALSE]]
  /\ status = [r \in Runs |-> "running"]
  /\ workspace = {}
  /\ trace = [r \in Runs |-> "none"]
  /\ agent = [r \in Runs |-> [errored |-> FALSE, edited |-> FALSE, littered |-> FALSE,
                              changed |-> FALSE, verified |-> "none"]]
  /\ returned = [r \in Runs |-> "none"]
  /\ crashes = 0
  /\ blame = [r \in Runs |-> {}]
  /\ lost = {}

Goto(r, place) == pc' = [pc EXCEPT ![r] = place]

\* A cause of failure counts against the run unless its context has ended.
Blame(r, cause) ==
  blame' = IF r \in ended THEN blame ELSE [blame EXCEPT ![r] = @ \cup {cause}]

-----------------------------------------------------------------------------
(* Build.  An error returns at once: nothing acquired so far is released. *)

BuildFails(r) ==
  /\ Goto(r, "unbuilt")
  /\ returned' = [returned EXCEPT ![r] = "error"]

Begin(r) ==
  /\ pc[r] = "idle"
  /\ Goto(r, "store")
  /\ UNCHANGED <<ended, disk, status, workspace, trace, agent, returned, crashes, blame, lost>>

OpenStore(r) ==
  /\ pc[r] = "store"
  /\ \/ Goto(r, "workspace") /\ UNCHANGED returned
     \/ MayFail /\ BuildFails(r)
  /\ UNCHANGED <<ended, disk, status, workspace, trace, agent, crashes, blame, lost>>

\* workspaceMgr.Create, which a context that has ended makes fail.
CreateWorkspace(r) ==
  /\ pc[r] = "workspace"
  /\ \/ /\ r \in Repo => r \notin ended
        /\ workspace' = workspace \cup ({r} \cap Repo)
        /\ Goto(r, "assemble")
        /\ UNCHANGED returned
     \/ /\ r \in Repo /\ (MayFail \/ r \in ended)
        /\ BuildFails(r)
        /\ UNCHANGED workspace
  /\ UNCHANGED <<ended, disk, status, trace, agent, crashes, blame, lost>>

\* The sandbox, the tools and the runtime: objects in memory, refused when the
\* spec asks for something unsupported.
Assemble(r) ==
  /\ pc[r] = "assemble"
  /\ \/ Goto(r, "recorder") /\ UNCHANGED returned
     \/ MayFail /\ BuildFails(r)
  /\ UNCHANGED <<ended, disk, status, workspace, trace, agent, crashes, blame, lost>>

OpenTrace(r) ==
  /\ pc[r] = "recorder"
  /\ \/ /\ trace' = [trace EXCEPT ![r] = "open"]
        /\ Goto(r, "insert")
        /\ UNCHANGED returned
     \/ MayFail /\ BuildFails(r) /\ UNCHANGED trace
  /\ UNCHANGED <<ended, disk, status, workspace, agent, crashes, blame, lost>>

\* buildReplay, the last step: by now the record says "running", and when the
\* recorded traces cannot be read Build's error leaves it so.
OpenReplay(r) ==
  /\ pc[r] = "replay"
  /\ \/ Goto(r, "task") /\ UNCHANGED returned
     \/ MayFail /\ Goto(r, "orphaned") /\ returned' = [returned EXCEPT ![r] = "error"]
  /\ UNCHANGED <<ended, disk, status, workspace, trace, agent, crashes, blame, lost>>

-----------------------------------------------------------------------------
(* The three writes of the record: CreateRun at the end of Build, UpdateRun  *)
(* with the task at the head of Run, UpdateRun with the final status.        *)

\* os.WriteFile truncates the file first.
TruncateFile(r) ==
  /\ pc[r] \in Writes
  /\ r \notin Sqlite /\ ~Writing(r)
  /\ disk' = [disk EXCEPT ![r].torn = TRUE]
  /\ UNCHANGED <<pc, ended, status, workspace, trace, agent, returned, crashes, blame, lost>>

\* A SQLite row is written as a whole, and not at all once the context ended.
WriteDone(r) ==
  /\ pc[r] \in Writes
  /\ IF r \in Sqlite THEN r \notin ended ELSE Writing(r)
  /\ disk' = [disk EXCEPT ![r] = [value |-> status[r], torn |-> FALSE]]
  /\ Goto(r, CASE pc[r] = "insert" -> "replay"
               [] pc[r] = "task"   -> "start"
               [] pc[r] = "finish" -> "close")
  /\ UNCHANGED <<ended, status, workspace, trace, agent, returned, crashes, blame, lost>>

\* The first write's error is Build's, the second's is Run's; the third's is
\* only logged.
WriteFails(r) ==
  /\ pc[r] \in Writes
  /\ IF r \in Sqlite THEN MayFail \/ r \in ended ELSE MayFail /\ Writing(r)
  /\ Goto(r, IF pc[r] = "insert" THEN "unbuilt" ELSE "close")
  /\ returned' = IF pc[r] = "finish" THEN returned ELSE [returned EXCEPT ![r] = "error"]
  /\ lost' = lost \cup {r}
  /\ UNCHANGED <<ended, disk, status, workspace, trace, agent, crashes, blame>>

-----------------------------------------------------------------------------
(* Run *)

\* Fault: Runtime.Run's error is returned without finish.
StartAgentUnfinished(r) ==
  /\ pc[r] = "start"
  /\ \/ Goto(r, "events") /\ UNCHANGED returned
     \/ /\ MayFail
        /\ returned' = [returned EXCEPT ![r] = "error"]
        /\ Goto(r, "close")
  /\ UNCHANGED <<ended, disk, status, workspace, trace, agent, crashes, blame, lost>>

\* Runtime.Run: its error settles the record as "error".
StartAgent(r) ==
  /\ pc[r] = "start"
  /\ \/ Goto(r, "events") /\ UNCHANGED <<status, returned>>
     \/ /\ MayFail
        /\ status' = [status EXCEPT ![r] = "error"]
        /\ returned' = [returned EXCEPT ![r] = "error"]
        /\ Goto(r, "finish")
  /\ UNCHANGED <<ended, disk, workspace, trace, agent, crashes, blame, lost>>

\* The agent at work, while Run drains the event channel.
AgentEdits(r) ==
  /\ pc[r] = "events"
  /\ r \in Repo
  /\ agent' = [agent EXCEPT ![r].edited = TRUE]
  /\ UNCHANGED <<pc, ended, disk, status, workspace, trace, returned, crashes, blame, lost>>

AgentErrs(r) ==
  /\ pc[r] = "events"
  /\ MayFail \/ r \in ended
  /\ agent' = [agent EXCEPT ![r].errored = TRUE]
  /\ Blame(r, "agent")
  /\ UNCHANGED <<pc, ended, disk, status, workspace, trace, returned, crashes, lost>>

\* The runtime closes the channel, after an error or without one.
AgentEnds(r) ==
  /\ pc[r] = "events"
  /\ Goto(r, "patch")
  /\ UNCHANGED <<ended, disk, status, workspace, trace, agent, returned, crashes, blame, lost>>

\* A patch that does not apply is only a warning.
ApplyPatch(r) ==
  /\ pc[r] = "patch"
  /\ \/ /\ r \in (Patched \cap Repo) \ ended
        /\ agent' = [agent EXCEPT ![r].edited = TRUE]
     \/ /\ r \in Patched \cap Repo => MayFail \/ r \in ended
        /\ UNCHANGED agent
  /\ Goto(r, "verify")
  /\ UNCHANGED <<ended, disk, status, workspace, trace, returned, crashes, blame, lost>>

\* The commands fail by themselves, or are killed when the context ends; one
\* that completes just then may still pass.  They run in the workspace, and what
\* they leave there (a build's output, a coverage file) the diff will show.
Verify(r) ==
  /\ pc[r] = "verify"
  /\ \E v \in IF r \in Verifies THEN {"passed", "failed"} ELSE {"none"},
        wrote \in IF r \in Verifies \cap Repo THEN BOOLEAN ELSE {FALSE} :
       /\ agent' = [agent EXCEPT ![r].verified = v, ![r].littered = wrote]
       /\ IF v = "failed" /\ r \in NeedsVerification
          THEN Blame(r, "verification") ELSE UNCHANGED blame
  /\ Goto(r, "diff")
  /\ UNCHANGED <<ended, disk, status, workspace, trace, returned, crashes, lost>>

\* Somebody changed the run's workspace in this run.
Touched(r) == agent[r].edited \/ agent[r].littered

\* Fault: a diff that cannot be taken counts as a change.
DiffAnswersTrusting(r) ==
  IF r \notin Repo \ ended THEN {FALSE}
  ELSE IF MayFail THEN {Touched(r), TRUE} ELSE {Touched(r)}

\* workspaceMgr.Diff: without a workspace there is none, and one that cannot be
\* taken counts as no change.
DiffAnswers(r) ==
  IF r \notin Repo \ ended THEN {FALSE}
  ELSE IF MayFail THEN {Touched(r), FALSE} ELSE {Touched(r)}

TakeDiff(r) ==
  /\ pc[r] = "diff"
  /\ \E change \in DiffAnswers(r) :
       /\ agent' = [agent EXCEPT ![r].changed = change]
       /\ IF ~change /\ r \in NeedsChange THEN Blame(r, "change") ELSE UNCHANGED blame
  /\ Goto(r, "judge")
  /\ UNCHANGED <<ended, disk, status, workspace, trace, returned, crashes, lost>>

FailsVerification(r) == r \in NeedsVerification /\ agent[r].verified = "failed"
FailsChange(r)       == r \in NeedsChange /\ ~agent[r].changed

\* Fault: the agent's errors are looked at before the cancellation.
ComputeStatusErrorsFirst(r) ==
  CASE agent[r].errored -> "failed"
    [] ~agent[r].errored /\ r \in ended -> "cancelled"
    [] ~agent[r].errored /\ r \notin ended ->
         IF FailsVerification(r) \/ FailsChange(r) THEN "failed" ELSE "passed"

ComputeStatus(r) ==
  CASE r \in ended -> "cancelled"
    [] r \notin ended -> IF agent[r].errored \/ FailsVerification(r) \/ FailsChange(r)
                         THEN "failed" ELSE "passed"

Judge(r) ==
  /\ pc[r] = "judge"
  /\ status' = [status EXCEPT ![r] = ComputeStatus(r)]
  /\ returned' = [returned EXCEPT ![r] = ComputeStatus(r)]
  /\ Goto(r, "finish")
  /\ UNCHANGED <<ended, disk, workspace, trace, agent, crashes, blame, lost>>

-----------------------------------------------------------------------------
(* Close, on a context of its own, by a defer of Build's caller. *)

\* Fault: Close marks the record cancelled when the context has ended by then.
CloseStamps(r) ==
  /\ pc[r] = "close"
  /\ trace' = [trace EXCEPT ![r] = "closed"]
  /\ workspace' = workspace \ {r} \/ (MayFail /\ UNCHANGED workspace)
  /\ disk' = IF r \in ended THEN [disk EXCEPT ![r].value = "cancelled"] ELSE disk
  /\ Goto(r, "closed")
  /\ UNCHANGED <<ended, status, agent, returned, crashes, blame, lost>>

Close(r) ==
  /\ pc[r] = "close"
  /\ trace' = [trace EXCEPT ![r] = "closed"]
  /\ workspace' = workspace \ {r} \/ (MayFail /\ UNCHANGED workspace)
  /\ Goto(r, "closed")
  /\ UNCHANGED <<ended, disk, status, agent, returned, crashes, blame, lost>>

-----------------------------------------------------------------------------
(* The environment *)

\* Ctrl-C, SIGTERM or the benchmark's timeout.
Cancel(r) ==
  /\ pc[r] \in Live
  /\ r \notin ended
  /\ ended' = ended \cup {r}
  /\ UNCHANGED <<pc, disk, status, workspace, trace, agent, returned, crashes, blame, lost>>

\* The processes are killed; what is on disk stays as it is.
Crash ==
  /\ crashes < MaxCrashes
  /\ \E r \in Runs : pc[r] \in Live
  /\ crashes' = crashes + 1
  /\ pc' = [r \in Runs |-> IF pc[r] \in Live THEN "dead" ELSE pc[r]]
  /\ UNCHANGED <<ended, disk, status, workspace, trace, agent, returned, blame, lost>>

Build(r) == Begin(r) \/ OpenStore(r) \/ CreateWorkspace(r) \/ Assemble(r)
              \/ OpenTrace(r) \/ OpenReplay(r)
Write(r) == TruncateFile(r) \/ WriteDone(r) \/ WriteFails(r)
Drive(r) == StartAgent(r) \/ AgentEdits(r) \/ AgentErrs(r) \/ AgentEnds(r)
               \/ ApplyPatch(r) \/ Verify(r) \/ TakeDiff(r) \/ Judge(r)

Next == (\E r \in Runs : Build(r) \/ Write(r) \/ Drive(r) \/ Close(r) \/ Cancel(r)) \/ Crash

Spec == Init /\ [][Next]_vars
-----------------------------------------------------------------------------
(* Properties. *)

\* "No fake PASS" (builder.go:345), as far as the code keeps it: a run recorded
\* as passed had no agent error, its required commands passed, and a required
\* change was really made, by the agent, by the recorded patch or, in a run that
\* verifies, by the verification's own commands, which the diff cannot tell apart.
NoFakePass ==
  \A r \in Runs : disk[r].value = "passed" =>
    /\ ~agent[r].errored
    /\ r \in Verifies \cap NeedsVerification => agent[r].verified = "passed"
    /\ r \in NeedsChange => /\ r \in Repo
                            /\ agent[r].edited \/ (r \in Verifies /\ agent[r].littered)

\* An interruption is not held against the run: one recorded as failed had a
\* cause of failure of its own before its context ended (computeStatus looks at
\* the context first, and every step after the end may fail because of it).
FailureHasCause ==
  \A r \in Runs : disk[r].value = "failed" => blame[r] # {}

\* Unless a write of the record failed, the store tells what the caller was told:
\* the status or the error Run returned, and nothing of a run that was not built.
\* One case differs, and only that one: a Build that fails on its replay sources
\* leaves "running" for a run that never started.  A killed process leaves what
\* was there before a write or after it, and only its JSON file half-written.
TellsOutcome(r) ==
  /\ r \notin lost =>
       /\ pc[r] = "closed" => disk[r] = [value |-> returned[r], torn |-> FALSE]
       /\ pc[r] = "unbuilt" => disk[r] = [value |-> "absent", torn |-> FALSE]
  /\ pc[r] = "orphaned" => disk[r] = [value |-> "running", torn |-> FALSE]
  /\ pc[r] = "dead" => disk[r].value \in {"absent", "running", returned[r]}
  /\ disk[r].torn => r \notin Sqlite /\ (r \in lost \/ pc[r] \in Writes \cup {"dead"})

RecordTellsOutcome == \A r \in Runs : TellsOutcome(r)

\* The inductive invariant behind these: what each place says about the record,
\* and what may count against the run by then.
Unwritten == {"idle", "store", "workspace", "assemble", "recorder", "insert"}
Unjudged  == Unwritten \cup {"replay"} \cup (Running \ {"finish"})

RecordInv(r) ==
  /\ pc[r] \in Unwritten => disk[r].value = "absent"
  /\ pc[r] \in {"replay"} \cup Running => disk[r].value = "running"
  /\ pc[r] = "close" => disk[r].value # "absent"
  /\ pc[r] \in (Unwritten \cup {"replay"} \cup Running) \ Writes => ~disk[r].torn
  /\ pc[r] \in {"idle", "store", "workspace"} => r \notin workspace
  /\ pc[r] \in Unjudged => status[r] = "running"
  /\ pc[r] = "finish" => status[r] \in Final /\ returned[r] = status[r]
  /\ disk[r].value \in {"absent", "running", returned[r]}
  /\ pc[r] = "close" /\ r \notin lost
       => disk[r] = [value |-> returned[r], torn |-> FALSE]

\* s is a status the run can be given, as far as it has gone.
Earned(r, s) ==
  /\ s = "passed" => /\ ~agent[r].errored
                     /\ r \in Verifies \cap NeedsVerification => agent[r].verified = "passed"
                     /\ r \in NeedsChange => r \in Repo /\ Touched(r)
  /\ s = "failed" => blame[r] # {}

JudgeInv(r) ==
  LET excused == r \in ended \/ blame[r] # {} IN
  /\ agent[r].errored => excused
  /\ agent[r].littered => r \in Verifies
  /\ pc[r] \in {"diff", "judge"} =>
       /\ r \in Verifies => agent[r].verified # "none"
       /\ FailsVerification(r) => excused
  /\ pc[r] = "judge" => /\ FailsChange(r) => excused
                        /\ agent[r].changed => r \in Repo /\ Touched(r)
  /\ pc[r] = "finish" => Earned(r, status[r])
  /\ Earned(r, disk[r].value)

RunInv(r) == TellsOutcome(r) /\ RecordInv(r) /\ JudgeInv(r)

Inductive == TypeOK /\ \A r \in Runs : RunInv(r)

\* The builder implements the contract on records and workspaces; a JSON record
\* counts as written when its file is complete.
Contract == INSTANCE RunContract WITH
  Run       <- Runs,
  record    <- [r \in Runs |-> disk[r].value],
  workspace <- workspace

ImplementsContract == Contract!Spec

=============================================================================
