--------------------------- MODULE RunLifecycleProofs ---------------------------
(***************************************************************************)
(* Proofs about RunLifecycle, for any set of runs, any mix of drivers and  *)
(* any number of crashes.  A run's invariant RunInv(r) mentions nothing of *)
(* the other runs: a step of one run keeps it for the others (OthersStep), *)
(* and the three groups of its own steps keep it for the run itself.       *)
(***************************************************************************)
EXTENDS RunLifecycle, TLAPS

StepOf(r) == Build(r) \/ Write(r) \/ Drive(r) \/ Close(r) \/ Cancel(r)

\* Every run starts unwritten, unblamed and with nothing in its hands.
LEMMA InitInductive == Init => Inductive
<1> SUFFICES ASSUME Init PROVE Inductive
  OBVIOUS
<1>1. TypeOK
  BY RunSetsAssumption DEF Init, TypeOK, Live, Building, Running, Over, Statuses, Final,
                            AgentData, Causes
<1>2. ASSUME NEW r \in Runs PROVE RunInv(r)
  BY DEF Init, RunInv, TellsOutcome, RecordInv, JudgeInv, Earned,
         Unwritten, Unjudged, Running, Writes, FailsVerification, FailsChange, Touched
<1> QED BY <1>1, <1>2 DEF Inductive

\* A step of one run leaves all that belongs to another as it is.
LEMMA OthersStep ==
  ASSUME TypeOK, NEW r \in Runs, StepOf(r), NEW s \in Runs, s # r
  PROVE  /\ pc'[s] = pc[s] /\ disk'[s] = disk[s] /\ status'[s] = status[s]
         /\ trace'[s] = trace[s] /\ agent'[s] = agent[s]
         /\ returned'[s] = returned[s] /\ blame'[s] = blame[s]
         /\ s \in ended' <=> s \in ended
         /\ s \in workspace' <=> s \in workspace
         /\ s \in lost' <=> s \in lost
<1> USE DEF TypeOK, Goto, BuildFails, Blame
<1>1. CASE Build(r)
  BY <1>1 DEF Build, Begin, OpenStore, CreateWorkspace, Assemble, OpenTrace, OpenReplay
<1>2. CASE Write(r)
  BY <1>2 DEF Write, TruncateFile, WriteDone, WriteFails
<1>3. CASE StartAgent(r) \/ AgentEdits(r) \/ AgentErrs(r) \/ AgentEnds(r)
  BY <1>3 DEF StartAgent, AgentEdits, AgentErrs, AgentEnds
<1>4. CASE ApplyPatch(r) \/ Verify(r)
  BY <1>4 DEF ApplyPatch, Verify
<1>5. CASE TakeDiff(r) \/ Judge(r)
  BY <1>5 DEF TakeDiff, Judge
<1>6. CASE Close(r) \/ Cancel(r)
  BY <1>6 DEF Close, Cancel
<1> QED BY <1>1, <1>2, <1>3, <1>4, <1>5, <1>6 DEF StepOf, Drive

LEMMA InvariantOfOthers ==
  ASSUME Inductive, NEW r \in Runs, StepOf(r), NEW s \in Runs, s # r
  PROVE  RunInv(s)'
BY OthersStep DEF Inductive, RunInv, TellsOutcome, RecordInv, JudgeInv, Earned,
                  FailsVerification, FailsChange, Touched

\* What the steps do to the agent's data and to the causes keeps their types.
LEMMA AgentUpdate ==
  ASSUME NEW r \in Runs, agent \in [Runs -> AgentData],
         NEW b \in BOOLEAN, NEW v \in {"none", "passed", "failed"},
         \/ UNCHANGED agent
         \/ agent' = [agent EXCEPT ![r].errored = b]
         \/ agent' = [agent EXCEPT ![r].edited = b]
         \/ agent' = [agent EXCEPT ![r].changed = b]
         \/ agent' = [agent EXCEPT ![r].verified = v, ![r].littered = b]
  PROVE  agent' \in [Runs -> AgentData]
<1> DEFINE a == agent[r]
<1>1. a \in AgentData
  OBVIOUS
<1>2. /\ [a EXCEPT !.errored = b] \in AgentData /\ [a EXCEPT !.edited = b] \in AgentData
      /\ [a EXCEPT !.changed = b] \in AgentData /\ [a EXCEPT !.verified = v, !.littered = b] \in AgentData
  BY <1>1, Zenon DEF AgentData
<1> QED BY <1>2

LEMMA BlameUpdate ==
  ASSUME TypeOK, NEW r \in Runs, NEW cause \in Causes,
         Blame(r, cause) \/ UNCHANGED blame
  PROVE  blame' \in [Runs -> SUBSET Causes]
BY DEF TypeOK, Blame

LEMMA TypeStep == Inductive /\ [Next]_vars => TypeOK'
<1> SUFFICES ASSUME Inductive, [Next]_vars PROVE TypeOK'
  OBVIOUS
<1> USE RunSetsAssumption
<1> USE DEF Inductive, TypeOK, Goto, BuildFails, Live, Building, Running, Over,
            Statuses, Final
<1>1. CASE UNCHANGED vars
  BY <1>1 DEF vars
<1>2. CASE Crash
  BY <1>2 DEF Crash
<1>3. ASSUME NEW r \in Runs, StepOf(r) PROVE TypeOK'
  <2>1. CASE Build(r)
    BY <2>1 DEF Build, Begin, OpenStore, CreateWorkspace, Assemble, OpenTrace, OpenReplay
  <2>2. CASE TruncateFile(r)
    BY <2>2 DEF TruncateFile
  <2>3. CASE WriteDone(r)
    BY <2>3 DEF WriteDone, Writes
  <2>4. CASE WriteFails(r)
    BY <2>4 DEF WriteFails, Writes
  <2>5. CASE StartAgent(r) \/ AgentEnds(r)
    BY <2>5 DEF StartAgent, AgentEnds
  <2>6. CASE AgentEdits(r) \/ AgentErrs(r)
    <3>1. agent' \in [Runs -> AgentData]
      BY <2>6, AgentUpdate, Zenon DEF AgentEdits, AgentErrs
    <3>2. blame' \in [Runs -> SUBSET Causes]
      BY <2>6, BlameUpdate DEF AgentEdits, AgentErrs, Causes
    <3> QED BY <2>6, <3>1, <3>2 DEF AgentEdits, AgentErrs
  <2>7. CASE ApplyPatch(r)
    <3>1. agent' \in [Runs -> AgentData]
      BY <2>7, AgentUpdate, Zenon DEF ApplyPatch
    <3> QED BY <2>7, <3>1 DEF ApplyPatch
  <2>8. CASE Verify(r)
    <3>1. agent' \in [Runs -> AgentData]
      BY <2>8, AgentUpdate, Zenon DEF Verify
    <3>2. blame' \in [Runs -> SUBSET Causes]
      BY <2>8, BlameUpdate DEF Verify, Causes
    <3> QED BY <2>8, <3>1, <3>2 DEF Verify
  <2>9. CASE TakeDiff(r)
    <3>1. Touched(r) \in BOOLEAN
      BY Zenon DEF Touched
    <3>2. DiffAnswers(r) \subseteq BOOLEAN
      BY <3>1, Zenon DEF DiffAnswers
    <3>3. agent' \in [Runs -> AgentData]
      BY <2>9, <3>2, AgentUpdate, Zenon DEF TakeDiff
    <3>4. blame' \in [Runs -> SUBSET Causes]
      BY <2>9, BlameUpdate, Zenon DEF TakeDiff, Causes
    <3> QED BY <2>9, <3>3, <3>4 DEF TakeDiff
  <2>10. CASE Judge(r)
    <3>1. ComputeStatus(r) \in Final
      BY DEF ComputeStatus
    <3> QED BY <2>10, <3>1 DEF Judge
  <2>11. CASE Close(r) \/ Cancel(r)
    BY <2>11 DEF Close, Cancel
  <2> QED BY <1>3, <2>1, <2>2, <2>3, <2>4, <2>5, <2>6, <2>7, <2>8, <2>9, <2>10, <2>11
          DEF StepOf, Write, Drive
<1> QED BY <1>1, <1>2, <1>3 DEF Next, StepOf

\* A step that touches neither what Run has seen nor the statuses, and does not
\* come to a place where they matter, leaves the judgement as it is.
LEMMA JudgementStands ==
  ASSUME NEW r \in Runs, JudgeInv(r), UNCHANGED <<ended, disk, status, agent, blame>>,
         pc'[r] \notin {"diff", "judge", "finish"}
  PROVE  JudgeInv(r)'
BY DEF JudgeInv, Earned, FailsVerification, FailsChange, Touched

\* Build: nothing is on record before the insert, and the workspace comes before it.
LEMMA BuildKeeps ==
  ASSUME TypeOK, NEW r \in Runs, RunInv(r), Build(r)
  PROVE  RunInv(r)'
<1> USE DEF TypeOK, Goto, BuildFails
<1>1. /\ UNCHANGED <<ended, disk, status, agent, blame, lost>>
      /\ pc'[r] \notin {"diff", "judge", "finish"}
  BY DEF Build, Begin, OpenStore, CreateWorkspace, Assemble, OpenTrace, OpenReplay
<1>2. JudgeInv(r)'
  BY <1>1, JudgementStands DEF RunInv
<1> USE DEF TellsOutcome, RecordInv, Unwritten, Unjudged, Running, Writes
<1>3. CASE Begin(r) \/ OpenStore(r)
  BY <1>1, <1>2, <1>3 DEF Begin, OpenStore, RunInv
<1>4. CASE CreateWorkspace(r)
  BY <1>1, <1>2, <1>4 DEF CreateWorkspace, RunInv
<1>5. CASE Assemble(r) \/ OpenTrace(r)
  BY <1>1, <1>2, <1>5 DEF Assemble, OpenTrace, RunInv
<1>6. CASE OpenReplay(r)
  BY <1>1, <1>2, <1>6 DEF OpenReplay, RunInv
<1> QED BY <1>3, <1>4, <1>5, <1>6 DEF Build

\* The writes: "running" twice, then the status the run has earned.
LEMMA WriteKeeps ==
  ASSUME TypeOK, NEW r \in Runs, RunInv(r), Write(r)
  PROVE  RunInv(r)'
<1> USE DEF TypeOK, Goto, Writing, RunInv, TellsOutcome, RecordInv, JudgeInv,
            Earned, Unwritten, Unjudged, Running, Writes, FailsVerification, FailsChange, Touched
<1>1. CASE TruncateFile(r)
  BY <1>1 DEF TruncateFile
<1>2. CASE WriteDone(r)
  BY <1>2 DEF WriteDone, Statuses, Final
<1>3. CASE WriteFails(r)
  BY <1>3 DEF WriteFails
<1> QED BY <1>1, <1>2, <1>3 DEF Write

\* A cause that comes before the end of the context is held against the run.
LEMMA BlameLands ==
  ASSUME TypeOK, NEW r \in Runs, NEW cause, Blame(r, cause)
  PROVE  r \in ended \/ blame'[r] # {}
<1>1. r \notin ended => cause \in blame'[r]
  BY DEF TypeOK, Blame
<1> QED BY <1>1

\* Run's own steps: whatever goes wrong while the context is alive is a cause.
LEMMA DriveKeeps ==
  ASSUME TypeOK, NEW r \in Runs, RunInv(r), Drive(r)
  PROVE  RunInv(r)'
<1> USE DEF TypeOK, AgentData, Causes, Goto, Blame, RunInv, TellsOutcome, RecordInv,
            JudgeInv, Earned, Unwritten, Unjudged, Running, Writes, FailsVerification, FailsChange, Touched
<1>1. CASE StartAgent(r)
  BY <1>1 DEF StartAgent, Final
<1>2. CASE AgentEdits(r) \/ AgentErrs(r)
  <2>1. CASE AgentEdits(r)
    <3>1. /\ agent'[r].errored = agent[r].errored
          /\ UNCHANGED <<pc, ended, disk, status, workspace, trace, returned, blame, lost>>
      BY <2>1 DEF AgentEdits
    <3> QED BY <2>1, <3>1 DEF AgentEdits
  <2>2. CASE AgentErrs(r)
    <3>1. r \in ended' \/ blame'[r] # {}
      BY <2>2 DEF AgentErrs
    <3> QED BY <2>2, <3>1 DEF AgentErrs
  <2> QED BY <1>2, <2>1, <2>2
<1>3. CASE AgentEnds(r)
  BY <1>3 DEF AgentEnds
<1>4. CASE ApplyPatch(r)
  <2>1. /\ pc[r] = "patch" /\ pc'[r] = "verify"
        /\ UNCHANGED <<ended, disk, status, workspace, trace, returned, blame, lost>>
    BY <1>4 DEF ApplyPatch
  <2>2. /\ agent'[r].errored = agent[r].errored /\ agent'[r].littered = agent[r].littered
        /\ agent'[r].verified = agent[r].verified
    BY <1>4 DEF ApplyPatch
  <2>3. disk[r].value = "running"
    BY <2>1
  <2> QED BY <2>1, <2>2, <2>3
<1>5. CASE Verify(r)
  <2>1. PICK v \in IF r \in Verifies THEN {"passed", "failed"} ELSE {"none"},
              wrote \in IF r \in Verifies \cap Repo THEN BOOLEAN ELSE {FALSE} :
          /\ agent' = [agent EXCEPT ![r].verified = v, ![r].littered = wrote]
          /\ IF v = "failed" /\ r \in NeedsVerification
             THEN Blame(r, "verification") ELSE UNCHANGED blame
    BY <1>5 DEF Verify
  <2>2. /\ agent'[r].verified = v /\ agent'[r].errored = agent[r].errored
        /\ agent'[r].littered = wrote
    BY <2>1
  <2>2a. wrote => r \in Verifies
    OBVIOUS
  <2>3. r \in Verifies => v # "none"
    OBVIOUS
  <2>4. v = "failed" /\ r \in NeedsVerification => r \in ended \/ blame'[r] # {}
    BY <2>1, BlameLands, Zenon
  <2>5. blame[r] # {} => blame'[r] # {}
    BY <2>1
  <2>6. /\ pc[r] = "verify" /\ pc'[r] = "diff"
        /\ UNCHANGED <<ended, disk, status, workspace, trace, returned, lost>>
    BY <1>5 DEF Verify
  <2> QED BY <2>2, <2>2a, <2>3, <2>4, <2>5, <2>6
<1>6. CASE TakeDiff(r)
  <2>1. PICK c \in DiffAnswers(r) :
          /\ agent' = [agent EXCEPT ![r].changed = c]
          /\ IF ~c /\ r \in NeedsChange THEN Blame(r, "change") ELSE UNCHANGED blame
    BY <1>6 DEF TakeDiff
  <2>2. /\ agent'[r].changed = c /\ agent'[r].errored = agent[r].errored
        /\ agent'[r].edited = agent[r].edited /\ agent'[r].verified = agent[r].verified
        /\ agent'[r].littered = agent[r].littered
    BY <2>1
  <2>3. c => r \in Repo /\ Touched(r)
    BY <2>1 DEF DiffAnswers
  <2>4. ~c /\ r \in NeedsChange => r \in ended \/ blame'[r] # {}
    BY <2>1, BlameLands, Zenon
  <2>5. blame[r] # {} => blame'[r] # {}
    BY <2>1
  <2>6. /\ pc[r] = "diff" /\ pc'[r] = "judge"
        /\ UNCHANGED <<ended, disk, status, workspace, trace, returned, lost>>
    BY <1>6 DEF TakeDiff
  <2> QED BY <2>2, <2>3, <2>4, <2>5, <2>6
<1>7. CASE Judge(r)
  BY <1>7 DEF Judge, ComputeStatus, Final
<1> QED BY <1>1, <1>2, <1>3, <1>4, <1>5, <1>6, <1>7 DEF Drive

\* The end of a run, of its context, or of its process.
LEMMA EndKeeps ==
  ASSUME TypeOK, NEW r \in Runs, RunInv(r), Close(r) \/ Cancel(r) \/ Crash
  PROVE  RunInv(r)'
<1> USE DEF TypeOK, Goto, RunInv, TellsOutcome, RecordInv, JudgeInv, Earned,
            Unwritten, Unjudged, Running, Writes, FailsVerification, FailsChange, Touched
<1>1. CASE Close(r)
  BY <1>1 DEF Close
<1>2. CASE Cancel(r)
  BY <1>2 DEF Cancel, Live, Building
<1>3. CASE Crash
  BY <1>3 DEF Crash, Live, Building
<1> QED BY <1>1, <1>2, <1>3

LEMMA InductiveInvariant == Spec => []Inductive
<1>1. Inductive /\ [Next]_vars => Inductive'
  <2> SUFFICES ASSUME Inductive, [Next]_vars PROVE \A s \in Runs : RunInv(s)'
    BY TypeStep DEF Inductive
  <2>1. CASE UNCHANGED vars
    BY <2>1 DEF Inductive, vars, RunInv, TellsOutcome, RecordInv, JudgeInv, Earned,
                FailsVerification, FailsChange, Touched
  <2>2. CASE Crash
    BY <2>2, EndKeeps DEF Inductive
  <2>3. ASSUME NEW r \in Runs, StepOf(r), NEW s \in Runs PROVE RunInv(s)'
    <3>1. CASE s # r
      BY <2>3, <3>1, InvariantOfOthers
    <3>2. CASE s = r
      BY <2>3, <3>2, BuildKeeps, WriteKeeps, DriveKeeps, EndKeeps DEF Inductive, StepOf
    <3> QED BY <3>1, <3>2
  <2> QED BY <2>1, <2>2, <2>3 DEF Next, StepOf
<1> QED BY <1>1, InitInductive, PTL DEF Spec

\* Every variable keeps its type (the state of builder.go's Harness and of the
\* two store drivers), whatever fails and whenever the processes are killed.
THEOREM TypeCorrect == Spec => []TypeOK
<1>1. Inductive => TypeOK
  BY DEF Inductive
<1> QED BY <1>1, InductiveInvariant, PTL

\* A record says "passed" only of a run without an agent error whose required
\* commands passed and whose required change somebody made (builder.go 345-398).
THEOREM PassIsEarned == Spec => []NoFakePass
<1>1. Inductive => NoFakePass
  BY DEF Inductive, RunInv, JudgeInv, Earned, Touched, NoFakePass
<1> QED BY <1>1, InductiveInvariant, PTL

\* A record says "failed" only of a run that failed while its context was alive.
THEOREM FailureIsOwn == Spec => []FailureHasCause
<1>1. Inductive => FailureHasCause
  BY DEF Inductive, RunInv, JudgeInv, Earned, FailureHasCause
<1> QED BY <1>1, InductiveInvariant, PTL

\* Unless one of its writes failed, a run's record is what its caller was told;
\* what a Build that failed on its replay, and a killed process, leave is named.
THEOREM RecordIsTruthful == Spec => []RecordTellsOutcome
<1>1. Inductive => RecordTellsOutcome
  BY DEF Inductive, RunInv, RecordTellsOutcome
<1> QED BY <1>1, InductiveInvariant, PTL

-----------------------------------------------------------------------------
(* The builder implements RunContract. *)

Record == [r \in Runs |-> disk[r].value]

\* Only the final write and the insert change a record's complete value.
LEMMA RecordStep ==
  ASSUME Inductive, NEW r \in Runs, StepOf(r)
  PROVE  \/ Record' = Record
         \/ /\ Record' = [Record EXCEPT ![r] = "running"]
            /\ Record[r] = "absent" /\ UNCHANGED workspace
         \/ /\ \E s \in Final : Record' = [Record EXCEPT ![r] = s]
            /\ Record[r] = "running" /\ UNCHANGED workspace
<1> USE DEF Inductive, TypeOK, RunInv, RecordInv, Record
<1>1. CASE TruncateFile(r)
  BY <1>1 DEF TruncateFile
<1>2. CASE WriteDone(r)
  <2>1. /\ disk' = [disk EXCEPT ![r] = [value |-> status[r], torn |-> FALSE]]
        /\ UNCHANGED workspace
    BY <1>2 DEF WriteDone
  <2>2. Record' = [Record EXCEPT ![r] = status[r]]
    BY <2>1
  <2>3. CASE pc[r] = "insert"
    <3>1. status[r] = "running" /\ Record[r] = "absent"
      BY <2>3 DEF Unjudged, Unwritten
    <3> QED BY <2>1, <2>2, <3>1
  <2>4. CASE pc[r] = "task"
    <3>1. status[r] = "running" /\ Record[r] = "running"
      BY <2>4 DEF Unjudged, Running
    <3>2. \A s \in Runs : disk'[s].value = disk[s].value
      BY <2>1, <3>1
    <3> QED BY <3>2
  <2>5. CASE pc[r] = "finish"
    <3>1. status[r] \in Final /\ Record[r] = "running"
      BY <2>5 DEF Running
    <3> QED BY <2>1, <2>2, <3>1
  <2> QED BY <1>2, <2>3, <2>4, <2>5 DEF WriteDone, Writes
<1>3. CASE WriteFails(r)
  BY <1>3 DEF WriteFails
<1>4. CASE Build(r)
  BY <1>4 DEF Build, Begin, OpenStore, CreateWorkspace, Assemble, OpenTrace, OpenReplay
<1>5. CASE Drive(r)
  BY <1>5 DEF Drive, StartAgent, AgentEdits, AgentErrs, AgentEnds, ApplyPatch, Verify,
              TakeDiff, Judge
<1>6. CASE Close(r) \/ Cancel(r)
  BY <1>6 DEF Close, Cancel
<1> QED BY <1>1, <1>2, <1>3, <1>4, <1>5, <1>6 DEF StepOf, Write

\* Only CreateWorkspace and Close change the workspaces, and neither a record.
LEMMA WorkspaceStep ==
  ASSUME Inductive, NEW r \in Runs, StepOf(r), workspace' # workspace
  PROVE  /\ Record' = Record
         /\ \/ /\ Record[r] = "absent" /\ r \notin workspace
               /\ workspace' = workspace \cup {r}
            \/ /\ Record[r] # "absent" /\ r \in workspace
               /\ workspace' = workspace \ {r}
<1>a. /\ disk \in [Runs -> [value : {"absent"} \cup Statuses, torn : BOOLEAN]]
      /\ pc[r] = "workspace" => disk[r].value = "absent" /\ r \notin workspace
      /\ pc[r] = "close" => disk[r].value # "absent"
  BY DEF Inductive, TypeOK, RunInv, RecordInv, Unwritten
<1>b. UNCHANGED disk => Record' = Record
  BY DEF Record
<1>c. Record[r] = disk[r].value
  BY DEF Record
<1>1. CASE CreateWorkspace(r)
  <2>1. workspace' = workspace \cup ({r} \cap Repo) /\ UNCHANGED disk /\ pc[r] = "workspace"
    BY <1>1 DEF CreateWorkspace
  <2>2. workspace' = workspace \cup {r}
    BY <2>1
  <2> QED BY <1>a, <1>b, <1>c, <2>1, <2>2
<1>2. CASE Close(r)
  <2>1. workspace' = workspace \ {r} /\ UNCHANGED disk /\ pc[r] = "close"
    BY <1>2 DEF Close
  <2> QED BY <1>a, <1>b, <1>c, <2>1
<1>3. CASE Build(r) /\ ~CreateWorkspace(r)
  BY <1>3 DEF Build, Begin, OpenStore, Assemble, OpenTrace, OpenReplay
<1>4. CASE Write(r)
  BY <1>4 DEF Write, TruncateFile, WriteDone, WriteFails
<1>5. CASE Drive(r)
  BY <1>5 DEF Drive, StartAgent, AgentEdits, AgentErrs, AgentEnds, ApplyPatch, Verify,
              TakeDiff, Judge
<1>6. CASE Cancel(r)
  BY <1>6 DEF Cancel
<1> QED BY <1>1, <1>2, <1>3, <1>4, <1>5, <1>6 DEF StepOf

\* The builder, its stores and its workspaces implement the contract: a record
\* is settled once, from "running", and its workspace follows the record.
THEOREM Refinement == Spec => ImplementsContract
<1> USE DEF Record
<1>1. Init => Contract!Init
  BY DEF Init, Contract!Init
<1>2. Inductive /\ [Next]_vars => [Contract!Next]_(Contract!contract)
  <2> SUFFICES ASSUME Inductive, [Next]_vars
               PROVE  Contract!Next \/ (Record' = Record /\ workspace' = workspace)
    BY DEF Contract!contract
  <2>1. CASE UNCHANGED vars \/ Crash
    BY <2>1 DEF vars, Crash
  <2>2. ASSUME NEW r \in Runs, StepOf(r)
        PROVE  Contract!Next \/ (Record' = Record /\ workspace' = workspace)
    <3>1. CASE workspace' # workspace
      <4>1. Contract!Acquire(r) \/ Contract!Release(r)
        BY <2>2, <3>1, WorkspaceStep DEF Contract!Acquire, Contract!Release
      <4> QED BY <4>1 DEF Contract!Next
    <3>2. CASE workspace' = workspace /\ Record' # Record
      <4>1. Contract!Register(r) \/ Contract!Settle(r)
        BY <2>2, <3>2, RecordStep DEF Contract!Register, Contract!Settle
      <4> QED BY <4>1 DEF Contract!Next
    <3> QED BY <3>1, <3>2
  <2> QED BY <2>1, <2>2 DEF Next, StepOf
<1> QED BY <1>1, <1>2, InductiveInvariant, PTL DEF Spec, ImplementsContract, Contract!Spec
=============================================================================
