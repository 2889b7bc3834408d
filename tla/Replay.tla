-------------------------------- MODULE Replay --------------------------------
(***************************************************************************)
(* A run that is recorded, and the sessions that replay it: the callbacks  *)
(* and the model wrapper of internal/runtime/trpc/replay.go over the store *)
(* of ReplayStore, wired by builder.buildReplay, and the commands that     *)
(* start a session: replay, run --replay, reproduce and reproduce of an    *)
(* exported bundle (internal/cli/trace.go, root.go, reproduce.go,          *)
(* internal/reproduce).                                                    *)
(*                                                                         *)
(* The live model and the live tools may answer anything.  While the run   *)
(* is recorded a stream may break, a tool may fail, a line of the file may *)
(* not be written, and the process may be killed; between recording and    *)
(* replay the user may edit harness.yaml and upgrade the toolchain.        *)
(***************************************************************************)
EXTENDS ReplayStore, FiniteSets

CONSTANTS
  Args,      \* arguments of tool calls
  Results,   \* what a tool that succeeds may answer
  Pathful,   \* those that mention the run's worktree, if it has one
  Machines,  \* [spec, env]: what harness.yaml holds, and the toolchain Capture sees
  Recorders, \* may the run be recorded with its model, without (bench, --replay-model=false)?
  Restores,  \* may the recorded patch hold all the run changed, may it miss some?
  Worktree,  \* the recorded run's worktree
  Fresh,     \* a session's worktree
  MaxFaults, \* bound: tools that fail, streams that break, failed writes and reads, crashes
  MaxCalls   \* bound: model calls of one conversation

ASSUME ReplayAssumption ==
  /\ Recorders \subseteq BOOLEAN
  /\ Restores \subseteq BOOLEAN
  /\ MaxFaults \in Nat
  /\ MaxCalls \in Nat
  /\ {Done, Partial, Failed, Missed} \cap (Args \cup Results) = {}
  /\ Worktree \notin {NoPath, NoRoot, Marker}
  /\ Fresh \notin {NoPath, NoRoot, Marker, Worktree}

VARIABLES
  machine,   \* the machine as it is now
  entries,   \* the entries file of the recorded run
  rec,       \* the recorded run
  bundle,    \* the exported bundle, once there is one: {} or {bundle}
  ses,       \* the replay session
  faults     \* faults so far

vars == <<machine, entries, rec, bundle, ses, faults>>

Specs == {m.spec : m \in Machines}
Envs  == {m.env : m \in Machines}
Paths == {Worktree, Fresh, NoPath, Marker}
Messages ==
  [from : {"model"}, body : Args \cup {Done, Partial}, path : Paths] \cup
  [from : {"tool"}, body : Results \cup {Failed, Missed}, path : Paths]
Talks == Seq(Messages)

Requests == [spec : Specs, talk : Talks]
Entries  == [kind : {"model"}, key : Requests, out : Messages] \cup
            [kind : {"tool"}, key : Messages, out : Messages] \cup {Torn}

Recording == [phase : {"none", "model", "tool", "closing", "ended"}, spec : Specs,
              models : BOOLEAN, env : Envs, root : {Worktree, NoRoot}, talk : Talks,
              status : {"running", "passed", "failed"}, verifies : SUBSET BOOLEAN,
              restores : BOOLEAN, pend : SUBSET Entries]
Sessions  == [phase : {"idle", "model", "tool", "passed", "unverified", "failed", "refused"},
              how : {"replay", "run", "reproduce", "bundle"}, strict : BOOLEAN,
              models : BOOLEAN, spec : Specs, root : {Fresh, NoRoot}, talk : Talks,
              live : SUBSET {"model", "tool"}, unread : BOOLEAN]
Bundles   == [entries : Seq(Entries), spec : Specs, env : Envs]

TypeOK ==
  /\ machine \in Machines
  /\ entries \in Seq(Entries)
  /\ rec \in Recording
  /\ bundle \in SUBSET Bundles
  /\ ses \in Sessions
  /\ faults \in 0..MaxFaults

NoSession(spec) == [phase |-> "idle", how |-> "replay", strict |-> TRUE,
                    models |-> TRUE, spec |-> spec, root |-> NoRoot, talk |-> <<>>,
                    live |-> {}, unread |-> FALSE]

\* buildReplay without ReplayFrom: record mode, in a store of the run's own.
\* A bench job leaves Options.ReplayModel unset.
Init ==
  /\ machine \in Machines
  /\ entries = <<>>
  /\ \E models \in Recorders, root \in {Worktree, NoRoot} :
        rec = [phase |-> "model", spec |-> machine.spec, models |-> models, env |-> machine.env,
               root |-> root, talk |-> <<>>, status |-> "running",
               verifies |-> BOOLEAN, restores |-> FALSE, pend |-> {}]
  /\ bundle = {}
  /\ ses = NoSession(machine.spec)
  /\ faults = 0

-----------------------------------------------------------------------------
(* The agent loop *)

IsCall(m)   == m.from = "model" /\ m.body \in Args
LastCall(t) == t[Len(t)]
Calls(t)    == Cardinality({i \in DOMAIN t : t[i].from = "model"})

\* The path an answer mentions: the instruction names the run's own root.
Mention(root, b) == IF b \in Pathful /\ root # NoRoot THEN root ELSE NoPath

LiveAnswers(root) == {Message("model", b, Mention(root, b)) : b \in Args \cup {Done}}
LiveResults(root) == {Message("tool", b, Mention(root, b)) : b \in Results}
ToolError         == Message("tool", Failed, NoPath)

Fault == faults < MaxFaults /\ faults' = faults + 1

AfterAnswer(a, last) == IF IsCall(a) THEN "tool" ELSE last

-----------------------------------------------------------------------------
(* Recording *)

\* replayModel.recordCall: the aggregated answer is stored as it is, once the
\* stream has closed; the framework may run the tool before that.
ToStore(a) ==
  IF rec.models THEN {Entry("model", Request(rec.spec, rec.root, rec.talk), a)} ELSE {}

RecordAnswer ==
  /\ rec.phase = "model" /\ rec.pend = {}
  /\ Calls(rec.talk) < MaxCalls
  /\ \E a \in LiveAnswers(rec.root) :
        rec' = [rec EXCEPT !.talk = Append(@, a), !.phase = AfterAnswer(a, "closing"),
                           !.pend = ToStore(a)]
  /\ UNCHANGED <<machine, entries, bundle, ses, faults>>

\* A stream that breaks: an error event fails the run, and what came before it
\* is aggregated and stored like a whole answer, unless nothing came.
RecordBrokenStream ==
  LET a == Message("model", Partial, NoPath) IN
  /\ rec.phase = "model" /\ rec.pend = {}
  /\ Fault
  /\ \E pend \in {{}, ToStore(a)} :
        rec' = [rec EXCEPT !.talk = Append(@, a), !.phase = "closing",
                           !.status = "failed", !.pend = pend]
  /\ UNCHANGED <<machine, entries, bundle, ses>>

\* JSONStore.Put, whose errors are ignored.
Puts(e) ==
  \/ entries' = Put(entries, e) /\ UNCHANGED faults
  \/ Fault /\ entries' = Put(entries, Torn)

StoreAnswer ==
  /\ rec.phase # "ended"
  /\ \E e \in rec.pend : Puts(e)
  /\ rec' = [rec EXCEPT !.pend = {}]
  /\ UNCHANGED <<machine, bundle, ses>>

\* Fault: the result is stored with the run's own paths in it.
ToolEntryRaw(r) == Entry("tool", CallKey(rec.root, LastCall(rec.talk)), r)

\* AfterTool: a result is stored, normalized; an error is not.
ToolEntry(r) == Entry("tool", CallKey(rec.root, LastCall(rec.talk)), Normalize(rec.root, r))

RecordTool ==
  /\ rec.phase = "tool"
  /\ \E r \in LiveResults(rec.root) :
        /\ rec' = [rec EXCEPT !.talk = Append(@, r), !.phase = "model"]
        /\ Puts(ToolEntry(r))
  /\ UNCHANGED <<machine, bundle, ses>>

RecordToolError ==
  /\ rec.phase = "tool"
  /\ Fault
  /\ rec' = [rec EXCEPT !.talk = Append(@, ToolError), !.phase = "model"]
  /\ UNCHANGED <<machine, entries, bundle, ses>>

\* The run ends: Harness.Run verifies the workspace and takes its patch, which misses
\* what is not tracked and all beyond its first 512 bytes (git.go Diff, trim).
EndRecording ==
  /\ rec.phase = "closing" /\ rec.pend = {}
  /\ \E ok \in BOOLEAN, restores \in Restores :
        rec' = [rec EXCEPT !.phase = "ended", !.verifies = {ok}, !.restores = restores,
                           !.status = IF @ = "running" /\ ok THEN "passed" ELSE "failed"]
  /\ UNCHANGED <<machine, entries, bundle, ses, faults>>

\* The process is killed.  A line it was writing may be torn; the record stays
\* "running", without a patch.
Crash ==
  /\ rec.phase # "ended"
  /\ Fault
  /\ rec' = [rec EXCEPT !.phase = "ended", !.pend = {}]
  /\ \/ UNCHANGED entries
     \/ (rec.pend # {} \/ rec.phase = "tool") /\ entries' = Put(entries, Torn)
  /\ UNCHANGED <<machine, bundle, ses>>

-----------------------------------------------------------------------------
(* The user, between recording and replay *)

Change ==
  /\ ses.phase = "idle"
  /\ rec.phase = "ended"
  /\ machine' \in Machines \ {machine}
  /\ UNCHANGED <<entries, rec, bundle, ses, faults>>

\* Export: the record, the entries file as it is now, and the environment of now.
Export ==
  /\ ses.phase = "idle"
  /\ rec.phase = "ended"
  /\ bundle = {}
  /\ bundle' = {[entries |-> entries, spec |-> rec.spec, env |-> machine.env]}
  /\ UNCHANGED <<machine, entries, rec, ses, faults>>

\* What a session reads: the run's own file, or the bundle's copy.
Tape == IF ses.how = "bundle" THEN (CHOOSE b \in bundle : TRUE).entries ELSE entries

\* CompareEnv: a dimension that is unknown on either side is skipped.
Drift(recorded, current) ==
  \E d \in DOMAIN recorded \cap DOMAIN current : recorded[d] # current[d]

\* The worktree is fresh.
\* Bound: once a bundle was exported, only sessions from the bundle are followed;
\* Export touches nothing the other sessions read.
StartSession(how, strict, models, spec) ==
  /\ ses.phase = "idle"
  /\ rec.phase = "ended"
  /\ how # "bundle" => bundle = {}
  /\ ses' = [NoSession(spec) EXCEPT
                !.phase = "model", !.how = how, !.strict = strict, !.models = models,
                !.root = IF rec.root = NoRoot THEN NoRoot ELSE Fresh]
  /\ UNCHANGED <<machine, entries, rec, bundle, faults>>

\* `replay` takes the spec of today's harness.yaml.
StartReplay ==
  \E strict \in BOOLEAN : StartSession("replay", strict, TRUE, machine.spec)

\* `run --replay` also lets the user keep the model live, and re-applies no patch.
\* A new task makes other requests, as an edited harness.yaml does.
StartRun ==
  \E strict, models \in BOOLEAN : StartSession("run", strict, models, machine.spec)

\* `reproduce` takes the recorded spec.
StartReproduce == StartSession("reproduce", TRUE, TRUE, rec.spec)
StartFromBundle == \E b \in bundle : StartSession("bundle", TRUE, TRUE, b.spec)

RecordedEnvs == IF bundle = {} THEN {rec.env} ELSE {b.env : b \in bundle}

\* checkEnvironment under --env-mode strict; the other modes let the session start.
RefuseDrift ==
  /\ ses.phase = "idle"
  /\ rec.phase = "ended"
  /\ \E recorded \in RecordedEnvs : Drift(recorded, machine.env)
  /\ ses' = [ses EXCEPT !.phase = "refused"]
  /\ UNCHANGED <<machine, entries, rec, bundle, faults>>

-----------------------------------------------------------------------------
(* A session *)

\* Harness.Run re-applies the recorded patch, where the session has one, and verifies.
\* The outcome is the recorded one, if that is known, when the patch restores what the
\* run was verified on, no tool of the session changed it, and what verifies is the same.
Verdicts(s) ==
  IF /\ rec.restores /\ s.how # "run" /\ "tool" \notin s.live
     /\ s.spec = rec.spec /\ machine.env = rec.env
  THEN rec.verifies ELSE BOOLEAN

\* The sessions that follow s when it hears m, from the tape or live.
Hears(s, m, live) ==
  {[s EXCEPT !.talk = Append(@, m), !.live = @ \cup live,
             !.phase = IF m.from = "tool" THEN "model"
                       ELSE AfterAnswer(m, IF ok THEN "passed" ELSE "unverified")] :
     ok \in Verdicts(s)}

Fails(s) == {[s EXCEPT !.phase = "failed"]}

\* Live, the model and the tools may also fail.
LiveModel(s) == Fails(s) \cup UNION {Hears(s, a, {"model"}) : a \in LiveAnswers(s.root)}
LiveTool(s)  ==
  UNION {Hears(s, r, {"tool"}) : r \in LiveResults(s.root) \cup {ToolError}}

\* replayModel.replayCall after a miss.
ModelMiss(s) == IF s.strict THEN Fails(s) ELSE LiveModel(s)

\* Fault: a missing tool call is run, whatever the mode.
ToolMissRuns(s) == LiveTool(s)

\* BeforeTool after a miss.  Whether the framework tells the model of the
\* callback's error or ends the run is its own business.
ToolMiss(s) ==
  IF s.strict THEN Hears(s, Message("tool", Missed, NoPath), {}) \cup Fails(s)
  ELSE LiveTool(s)

AskModel ==
  LET key == Request(ses.spec, ses.root, ses.talk) IN
  /\ ses.phase = "model" /\ ses.models
  /\ Calls(ses.talk) < MaxCalls
  /\ ses' \in IF Found(Tape, "model", key)
               THEN Hears(ses, Lookup(Tape, "model", key), {})
               ELSE ModelMiss(ses)
  /\ UNCHANGED <<machine, entries, rec, bundle, faults>>

\* Without ReplayModel the model is not wrapped, whatever the mode.
AskLiveModel ==
  /\ ses.phase = "model" /\ ~ses.models
  /\ Calls(ses.talk) < MaxCalls
  /\ ses' \in LiveModel(ses)
  /\ UNCHANGED <<machine, entries, rec, bundle, faults>>

CallTool ==
  LET key == CallKey(ses.root, LastCall(ses.talk)) IN
  /\ ses.phase = "tool"
  /\ ses' \in IF Found(Tape, "tool", key)
               THEN Hears(ses, Lookup(Tape, "tool", key), {})
               ELSE ToolMiss(ses)
  /\ UNCHANGED <<machine, entries, rec, bundle, faults>>

\* A Lookup whose Sync or Seek fails: the model wrapper takes it for a miss, the
\* tool callback lets the tool run, in strict mode too.
ReadFails ==
  LET s == [ses EXCEPT !.unread = TRUE] IN
  /\ Fault
  /\ \/ ses.phase = "model" /\ ses.models /\ Calls(ses.talk) < MaxCalls /\ ses' \in ModelMiss(s)
     \/ ses.phase = "tool" /\ ses' \in LiveTool(s)
  /\ UNCHANGED <<machine, entries, rec, bundle>>

Next ==
  \/ RecordAnswer \/ RecordBrokenStream \/ StoreAnswer \/ RecordTool \/ RecordToolError
  \/ EndRecording \/ Crash
  \/ Change \/ Export
  \/ StartReplay \/ StartRun \/ StartReproduce \/ StartFromBundle \/ RefuseDrift
  \/ AskModel \/ AskLiveModel \/ CallTool \/ ReadFails

Spec == Init /\ [][Next]_vars

-----------------------------------------------------------------------------
(* Properties *)

Normalized(root, talk, n) == [i \in 1..n |-> Normalize(root, talk[i])]

\* A strict session that replays the model never asks it, and any strict session runs
\* a tool only when the store could not be read.
StrictStaysOffline ==
  ses.strict => ses.live \subseteq (IF ses.models THEN {} ELSE {"model"}) \cup
                                   (IF ses.unread THEN {"tool"} ELSE {})

\* Whatever was torn, lost, left out or repeated in the recording, and whatever a
\* tool answers now, a strict replay of the model never leaves the recorded conversation
\* unnoticed: each answer the model gives in it is the recorded run's answer, to
\* the same conversation up to each run's own paths.
ReplayFollowsRecord ==
  (ses.strict /\ ses.models) =>
    \A i \in DOMAIN ses.talk :
       ses.talk[i].from = "model" =>
         /\ i \in DOMAIN rec.talk
         /\ ses.talk[i] = rec.talk[i]
         /\ Normalized(ses.root, ses.talk, i - 1) = Normalized(rec.root, rec.talk, i - 1)

\* The recorded call at i and its answer.
CallAt(i)   == Normalize(rec.root, rec.talk[i])
AnswerAt(i) == Normalize(rec.root, rec.talk[i + 1])
CallPlaces  == {i \in DOMAIN rec.talk : IsCall(rec.talk[i])}

\* What a recorded run needs for its replay to succeed: no tool failed, the model
\* named no path of the worktree in a call, no call was answered in two ways, and every
\* entry was written.
Clean ==
  /\ rec.status = "passed" /\ rec.models /\ ~Cut(entries)
  /\ \A i \in DOMAIN rec.talk :
        /\ rec.talk[i].body # Failed
        /\ IsCall(rec.talk[i]) => rec.talk[i].path = NoPath
  /\ \A i, j \in CallPlaces : CallAt(i) = CallAt(j) => AnswerAt(i) = AnswerAt(j)

\* A replay of such a run, with its spec and a store that can be read, never
\* misses: nothing is called live and the agent ends as it did, in strict mode and with
\* fallback, from the run's own store and from a bundle.  The session passes where its
\* patch restores what was verified and the toolchain is the recorded one.
CleanRunReplays ==
  (Clean /\ ses.models /\ ses.spec = rec.spec /\ ~ses.unread) =>
    /\ ses.phase # "failed" /\ ses.live = {}
    /\ ses.phase = "unverified" => ~rec.restores \/ ses.how = "run" \/ machine.env # rec.env

\* What a strict session tells the agent that a tool has answered is what the recorded
\* run's tool answered to the same call, up to each run's paths, whatever the model
\* asks now, recorded or live, and whatever was torn, failed or repeated in the recording.
ToolsAnswerAsRecorded ==
  (ses.strict /\ ~ses.unread) =>
    \A i \in DOMAIN ses.talk :
       (ses.talk[i].from = "tool" /\ ses.talk[i].body # Missed) =>
         \E j \in CallPlaces :
            /\ j < Len(rec.talk)
            /\ CallAt(j) = Normalize(ses.root, ses.talk[i - 1])
            /\ AnswerAt(j) = ses.talk[i]

\* docs/replay.md:32: "a successfully recorded run replays as PASSED with its file
\* changes re-materialized".
SuccessfulRunReplays ==
  (rec.status = "passed" /\ ses.how = "replay" /\ ses.strict /\ ses.spec = rec.spec) =>
    ses.phase \notin {"failed", "unverified"}
=============================================================================
