# HarnessLab in TLA+

HarnessLab runs coding agents under a declared harness (`harness.yaml`), records
every run, benchmarks variants of a harness on task sets, replays recorded runs
offline and searches for better harnesses. This directory holds TLA+ models of
the parts of it in which order, concurrency, failure and interruption matter,
the TLC configurations that check them on small instances, and TLAPS proofs of
what they guarantee for every value of the constants. `PROJECT.json` lists every
component, run, property and theorem and maps each definition to the lines of
code it stands for. Paths below are relative to `src/internal/`.

## The system

| Component | State | Operations | Works with |
|---|---|---|---|
| Benchmark scheduler (`benchmark/scheduler.go`) | waves of jobs, a channel, a token counter, a stop flag, the report | `Run`, `runBatch`, `runJob` | builds and runs a harness for each job, from several goroutines |
| Report, statistics (`benchmark/report.go`, `stats.go`) | counters for each variant and task | `add`, `Finalize`, `computeStat` | filled by the scheduler, read by the optimizer |
| Matrix, tasks (`benchmark/matrix.go`, `task.go`) | none | `Variants`, `LoadTasks`, `Validate` | input of the scheduler |
| Git workspaces (`workspace/git`) | one bare mirror, a lock file, a worktree for each run; all on disk, shared between goroutines and processes | `Create`, `ensureMirror`, `Diff`, `Destroy` | called by the builder |
| Builder, run lifecycle (`harness/builder`) | the harness of one run: record, workspace, trace, sandbox, replay configuration | `Build`, `Run`, `Close` | owns all that a run uses; called by the scheduler and the CLI |
| Run stores (`store/*`) | a record for each run, JSON files or SQLite rows; events | `New`, `migrate`, `CreateRun`, `UpdateRun`, `GetRun`, `ListRuns`, `AppendEvent` | opened by each run for itself, written by the builder, read by the CLI and the optimizer |
| Trace recorder (`trace/recorder`) | one append-only file for each run | `Record`, `Flush`, `Close` | written by the builder |
| Runtimes (`runtime/trpc`, `runtime/codex`) | the framework's event channel, a normalizer | `Run`, `RunFrameworkAgent`, `normalize` | feed events to the builder |
| Replay (`replay`, `runtime/trpc/replay.go`) | an append-only recording of calls and answers | `Put`, `Lookup`, the tool callbacks, the replay model | wraps the model and the tools of a runtime |
| Sandbox (`sandbox`) | processes being waited for | `Run`, `Close` | used by the tools and the verification |
| Diff (`diff`) | none | `BuildSteps`, `Compare` | reads traces |
| Optimizer (`optimize`, `cli/optimize*.go`) | candidates and their evaluations | `Analyze`, `SelectCandidates`, `Recommend`, `Front` | reads reports and records, runs benchmarks |
| Reproduce (`reproduce`) | none | `Export`, `GenerateLock`, `CompareEnv` | reads records and traces |
| Spec, cost, CLI | none | parsing, pricing, wiring | |

Hard behaviour, and the property that makes each component correct:

- *Scheduler.* A producer and several workers meet at an unbuffered channel, under a
  budget that is read and enforced in different steps and a context that may end at
  any time; failed jobs form the next wave. No job may run twice at once, be
  lost, or run again once it has a verdict; the budget may overshoot by a bounded
  amount only; the benchmark has to end.
- *Git workspaces.* Goroutines and processes race for one lock file, clones fail and are
  retried, contexts end in the middle, a killed process leaves its files. One
  cloner at a time, a mirror that is whole when it is used, no lock left behind, and
  no run that hurts another.
- *Run lifecycle.* Every step of `Build` and `Run` may fail, the context may end before
  any of them, the process may die; the record, the caller and the workspace must
  still agree, and the status must be earned.
- *Normalizer, recorder, event sink.* Chunks, aggregated frames and tool answers arrive in
  several shapes and orders; events must pair up, calls be counted once, no event
  overwrite another.
- *Replay.* Tools fail, streams break, lines are torn, the recording process dies, patches are incomplete, the user
  edits the harness in between or keeps the model live: a strict session must stay offline as far as it replays, a replayed
  model must stay on the recorded conversation, a replayed tool must answer what the recorded one did, and a clean run
  must replay without a miss.
- *Sandbox.* A command ends, times out and is cancelled at the same moment, and its children outlive
  it: a killed command must not pass, leave its process group behind or write on, and must return.
- *Optimizer.* Jobs error and are retried, benchmarks are stopped early: rates must stay those of the
  jobs, no harness may be lost by the selection, and the holdout gate must hold.
- *SQLite store.* Processes and goroutines open, create and migrate one file at once, are killed between two
  statements and may draw the same run id: whoever is admitted must find the whole schema, and its own row
  at every write.
- *Diff.* One trajectory may end before the other, or repeat steps: the divergence must be the first, and the listing
  complete.

`PROJECT.json` lists the hazards one by one, with the line where each bites and the
properties that would catch it.

## Modules

| Module | Models | Checked by | Proved in |
|---|---|---|---|
| `Scheduler` | `Scheduler.Run`, `runBatch` | `scheduler`, `scheduler_timeout` | `SchedulerProofs` |
| `JobLedger` | what a benchmark promises of its jobs | `ImplementsLedger` of `Scheduler` | |
| `GitMirror`, `MCGitMirror` | `Create`, `ensureMirror`, `Destroy` | `mirror`, `mirror_isolation` | `GitMirrorProofs` |
| `RunLifecycle` | `Build`, `Run`, `Close`, both stores' writes, the trace file | `lifecycle` | `RunLifecycleProofs` |
| `RunContract` | what store and workspaces promise of a run | `ImplementsContract` of `RunLifecycle` | `RunLifecycleProofs!Refinement` |
| `EventStream` | `RunFrameworkAgent`, the normalizer, the event loop of `Run`, the recorder, `BuildSteps` | `stream` | `EventStreamProofs` |
| `ReplayStore` | the canonicalizer, `JSONStore.Put` and `Lookup` | through `Replay` | through `ReplayProofs` |
| `Replay`, `MCReplay` | the interceptors in record, strict and fallback mode, `replay`, `run --replay`, `reproduce`, `export` | `replay`, `replay_passed` | `ReplayProofs` |
| `Sandbox` | `runCommandTree`, `waitFor`, the two process backends, `verifyResult`'s loop | `sandbox` | `SandboxProofs` |
| `Selection` | report rows, `evalResults`, the Pareto front, `RejectRule`, `Recommend` | through `Optimize` | through `OptimizeProofs` |
| `Optimize`, `MCOptimize` | `optimize --llm`, `optimize --evaluate` | `optimize` | `OptimizeProofs` |
| `SqliteStore`, `MCSqliteStore` | one database file under several sessions: `New` with schema and migration, `CreateRun`, `UpdateRun`, `AppendEvent` | `sqlite` | `SqliteStoreProofs` |
| `TraceDiff`, `MCTraceDiff` | `Compare`, and the listing of `harness diff` | `trace_diff` | `EventStreamProofs` |

How they fit: a worker of `Scheduler` in place "running" stands for one run of
`RunLifecycle` from `Build` to `Close` (`runJob`), of which it sees only whether it
errored, passed or failed: `returned` of `RunLifecycle`. `CreateWorkspace` and the
workspace part of `Close` in `RunLifecycle` stand for the whole of `Create` and
`Destroy` in `GitMirror`. `StartAgent` to `AgentEnds` of `RunLifecycle`
stand for a whole run of `EventStream`, from `RunFrameworkAgent` to the end of the builder's loop;
of its events `RunLifecycle` sees only the errors. `Verify` of `RunLifecycle` is the second half of `Sandbox`: its
outcome is `verdict`. A benchmark of `Optimize` is one run of `Scheduler`, of which it keeps what `JobLedger`
promises and the two ways it may end early. `Replay` follows the conversation of one recorded run, whose
outcome is that of a `RunLifecycle`, and of the sessions that replay it. A session of `SqliteStore` that was admitted is a
`RunLifecycle` with the SQLite driver, of which it keeps the three writes and the events. `TraceDiff` compares what
`ToolSteps` of `EventStream` made of two traces.

Operators whose comment begins with "Fault:" are deliberately wrong variants of the
definition that follows them. No specification uses them: each stands for a
plausible bug, with which a property is seen to fail.

### Scheduler

`main` is `Run`'s goroutine, `producer` and `pc[w]` the goroutines of `runBatch`;
`wave`, `failed`, `tokens`, `stopFlag` and `closed` are the variables of the same
names (the last is whether `close(jobCh)` was called). `report[j]` is what
`Report.add` has counted for job `j`. A job is its index. Each action is one step between
two points where another goroutine may act: the channel hand-over, the read of the
context and flag, the token add, the budget check, the locked section with the
report and the failed list. `earlier` is history.

Bounds: three jobs and two workers, so that a worker waits, another works and a job is
still to be sent; `JobTokens = 1` and `MaxTokens = 1`, the least that trips the budget
and overshoots it; two retry waves, so that a job can err once, err again and settle.

### GitMirror

`mirror` and `locked` are `mirror.git` and `mirror.git.lock`; `pc[r]` is the place of a
run in `Create`. A clone is three steps (removed, begun, finished or failed), because
the fast path of another run may look at it in between: `mirrorValid` may take a
half-cloned repository for valid, so the model lets it answer either way; and since it says "no" whenever
its git fails, a complete one may look invalid too (`MirrorValidAnswers`). Every other call may fail as well: the two
`MkdirAll`, the open of the lock file (any error of which is taken for another run's lock), `RemoveAll`, whose error is
ignored, the clone and the worktree. The wait's two-minute deadline may come at any time. `Crash` kills all
running processes and leaves the files. `doubted` (runs that found no complete mirror when they looked) and
`misled` (runs that took a complete one for none) are history.

Bounds: three runs (one that works, one that clones, one that waits), one crash, three
clone attempts as in the code.

### RunLifecycle

`pc[r]` walks through `Build`, `Run` and `Close`; `disk[r]` is the record in the store:
the last value written completely, and whether the JSON file is truncated at the
moment; `status[r]` is the status in memory, `returned[r]` what the caller got.
`agent[r]` is what happens in `Run`: an error event, edits by the agent or the recorded patch, files that the
verification's commands leave in the workspace (`littered`: they run before the diff is taken), the outcome of the
commands, the diff. The three writes (`CreateRun`, `UpdateRun` with the task,
`UpdateRun` in `finish`) share their actions, since the drivers treat them alike: a
JSON file is truncated and rewritten whatever the context says, a SQLite row is
written at once, or refused when the context has ended. Metrics, cost and the text of
commands and patches are left out. A `Build` that fails in `buildReplay`, after the record was inserted, ends in a
place of its own, "orphaned". `blame` and `lost` (runs of which a record write failed) are history.

Bounds: one JSON and one SQLite run with different requirements, one crash. Runs share
nothing but crashes in this module, so a second run of each kind would add none of
the interesting cases; the proofs hold for any set of runs.

### EventStream

`fw` is what the agent framework has done, `frame` the event of its that the goroutine of
`RunFrameworkAgent` is normalizing; `norm` holds the normalizer's fields under their own names;
`out` is the buffered channel; `trace` and `metrics` are what the builder's loop has recorded and
counted. `seen` is history. The framework is external, so its actions (`BeginCall`, `Chunk`,
`LastChunk`, `Completion`, `ToolResponds`, `FrameworkError`, `StreamClosed`) are as free as the
comments and tests of `normalize.go` describe it: a call streamed, streamed and repeated by an
aggregated frame, or answered at once; a delta may carry a tool call's id without its name (`NamelessChunk`), of which the
normalizer remembers the id and no more (`SkipTool`). `OpenCall`, `StartTool`, `SkipTool`, `EndChunk` and
`EndCall` are the parts of `handleChunk` and `handleCompletion` in their order; `handleToolResponse`
and `errorEvent` are part of `ToolResponds` and `FrameworkError`. The code makes a list of events
and then sends it; the model sends each event when it is made, which no other goroutine can tell.

Assumed of the framework: a delta with a tool call's name has its id too, if there is one, the aggregated frame
of a streamed call repeats its text, and each event carries one tool's response. A tool call
stands for its name, arguments and result; that the start of a streamed call has no arguments is in the event
(`args`) and in the steps, but no property judges it. A model call's usage is its number, a text is one unit.
Left out: the normalizer's own metrics, clipping and wording, an error while recording (it is only
logged) and the table of events that some stores keep, which is in `SqliteStore`.

Bounds: a channel of one place, so that the goroutine blocks (128 in the code); two model calls,
so that what one leaves behind meets the next; three tool calls, one of them without an id; two
in one answer; one delta without a name; one error.

### Replay

`rec` is the recorded run: its phase, the conversation so far (`talk`), the root of its worktree,
and the answer that is not stored yet (`pend`); `entries` is its file. `ses` is one session over it. The
conversation is the whole state of an agent loop: with the last message from the tool or none the
model is asked, with a tool call last the tool is run. A message is who said it, its body and the
absolute path it names; `Normalize` replaces the path of the run's own root and nothing else, which is what the
canonicalizer's string replacement does to a message that names one path. `RecordAnswer` and `StoreAnswer` are two steps,
because the answer is stored when the stream has closed and the framework may run the tool before that;
`RecordBrokenStream` is a stream that ends with an error; `RecordToolError` a tool whose error is not recorded;
a line may be torn in `Puts` and in `Crash`, and `Put` then appends nothing more, since a JSON encoder keeps its
first error. `Change` and `Export` are the user's. A session is started by `StartReplay` (`replay`), `StartRun` (`run --replay`,
which may keep the model live and has no patch), `StartReproduce` or `StartFromBundle`; `RefuseDrift` is `reproduce` under
`--env-mode strict`, where `Drift` compares only what both sides know, as `CompareEnv` does. `AskModel` and `CallTool`
are the interceptors with a hit or a miss, `AskLiveModel` a model that is not wrapped, `ReadFails` a lookup whose sync or
seek fails. SHA-256 is taken as injective.

Assumed of the framework: it asks the model and runs tools one after the other, and after an error of
the tool callback it either tells the model or ends the run; the model allows both. How a replayed run verifies
is free (`Verdicts`), unless its patch restores all that the run was verified on, nothing live has changed the
workspace, and the commands and the toolchain are the recorded ones: then it has the recorded outcome. Whether the recorded
patch does restore all of it is chosen when the recording ends (`restores`), because `Diff` leaves out untracked files and
cuts the patch at 512 bytes.

Bounds: two arguments and two results, one of each naming the worktree, so that a path goes out and comes back;
conversations of three model calls, so that a call can be repeated with another answer; one fault anywhere. With
`Machines` the harness and the toolchain change at once. `replay` has patches of both kinds, `replay_passed` complete
ones only, so that its counterexample is the path and nothing else. A second fault was tried once, before the sessions with a live
model were added, and added nothing.

### Sandbox

One caller runs commands one after the other: the agent's `exec_command` calls, then those of `verifyResult`.
`call` is its place in `waitFor`: in the select, or after the kill in `<-done`; `done` the channel that
`Wait`'s goroutine fills; `timer` and `ctx` the two ends of the command's context. `shell` and `child` are the
operating system's: who lives, in whose group, with whose pipe. A process may at any time fork, leave its group,
redirect its output or exit, and none ever has to. `KillGroup` is one step, as the kernel's kill of a
group is. Both branches of the select are enabled when both are ready. The outcome of a command is
whether its result carries an error, and its exit code; text, redaction and the policy's patterns
are left out. The process backend reports -1 when the run is over, also for a command that passed: `Return`.

Bounds: one command of the agent, two of the verification (so that one can pass and another fail),
two children, so that a child can fork a child.

### Optimize

`files` is the directory of candidates; a `report` is a row for each name, where one candidate may be called
`baseline` like the base harness. `todo`, `again` and `wave` are a benchmark as `JobLedger` sees
it, and `Stop` what the timeout or the budget does to one. `won` and `ran` are history, as is `hold`. `Selection`
holds the arithmetic: a pass rate is a pair of counts, compared by cross multiplication where the code
compares floats, and the mean of the tokens is rounded down, as `avg` does. Which candidate texts the model
proposes is free; the failures it is shown only have to come from development tasks (`Leaks`).

Bounds: two candidates and the base (or a candidate that calls itself baseline), one task of each kind, two
kinds of use that trade tokens for cost, so that fronts of one, two and three harnesses, ties, and losses by each
objective occur. The uses of holdout runs are read by nothing and set to zero.

### SqliteStore

A session is one `*Store` from `New` to the end of its run; `pc[s]` is where it is, `at[s]` the statement of the schema or of
the migration it is about to run. Every statement is one step and its own transaction. `objects`, `columns`, `rows` and
`events` are the file, which is new or made by an older version that had the first few of the migrated columns. A row is its
owner and the last of the three writes; what the columns hold is left out. `Refuse` is a statement that fails: another
connection has the lock (no busy timeout is set), or the context has ended. `appended` is history.

Bounds: three sessions, so that two race and a third comes later; two run ids, so that one can be drawn twice; two readings
of the clock for two events, so that they can have the same one or not; one refusal or kill.

### TraceDiff

`stepsA` and `stepsB` are the two trajectories, `posA` and `posB` the `i` and `j` of `Compare`, `lines`, `first` and
`identical` the fields of its result. `Match` and `Diverge` are the two branches of the walk, `TrailA` and `TrailB` one turn of
the two loops after it, `PrintTrajectory` the listing, of which only the numbers of the printed steps are kept. SHA-256 is taken
as injective, and the token counts of a model step, which are only printed, are left out.

Bounds: trajectories of up to three steps from an answer, two calls of a tool that differ in their results only, and an error,
so that every shape (equal, differing at each place, each a prefix of the other, empty) occurs; a listing of more than
two lines is cut to one (14 and 12 in the code), so that it is cut both before and behind the divergence.

## Runs

| Run | Shows |
|---|---|
| `scheduler` | no job held twice; exactly the errored jobs are retried and verdicts are final; the overshoot is bounded; no job is lost; every step is one of `JobLedger`; a benchmark that neither context nor budget disturbs ends |
| `scheduler_timeout` | violation: after the context ended the benchmark need not end |
| `mirror` | one cloner; the clone is whole when it is handed over; no stray lock; a whole mirror is replaced only by a run that looked before it was whole, whose git failed on it, or whose context has ended; every `Create` ends |
| `mirror_isolation` | violation: a run deletes the mirror under another run's worktree |
| `lifecycle` | passes are earned; failures are the run's own; the record tells what the caller was told; records and workspaces follow `RunContract` |
| `stream` | `run_start` and `run_end` frame the stream and its numbers go up by one; model events alternate; answers, usage and text are counted once; tool calls start once and their ends are named right; sequential calls become steps; both goroutines end |
| `replay` | whatever went wrong in the recording, a strict session asks no live model that it replays and runs no tool it can look up, a replayed model keeps to the recorded conversation, a replayed tool answers what the recorded one answered to that call; a clean run replays without a miss, also from a bundle and with fallback, and verifies as recorded where its patch is complete and its toolchain the same |
| `replay_passed` | violation: a passed run whose model named a path of its worktree does not replay |
| `optimize` | every harness is on the front or dominated by one that is; a row counts each job won once and each job run at least once; a candidate is accepted only with a holdout result; one that did not lose in development has the baseline's development rate there, and its holdout rate unless the baseline does better on holdout; one that did lose is not dominated by the baseline |
| `sandbox` | a command passes exactly if its shell exited with 0 and was not killed, and the verification exactly if its commands do; a kill leaves nothing of the group; nobody writes to returned output; with a timeout every command returns, unless a process has left the group with the pipe |
| `sqlite` | an admitted session finds the whole schema; of sessions that race, one is admitted; a session finds its own row at every update; records only advance; an event is lost only to a later one with its timestamp |
| `trace_diff` | the reported divergence is the first; identical means equal; one line is marked; the full listing has every step |

Deadlock is checked in `stream` and `sandbox`, whose specifications stutter at the end. It is not checked
where the system really stops: after the last run of `GitMirror`, `RunLifecycle` and `SqliteStore`, after a session of
`Replay`, an evaluation of `Optimize`, a listing of `TraceDiff`, and in the scheduler's runs, where the stuck benchmark is the
finding of `scheduler_timeout`.

### What the code does and its documents do not say

1. *The benchmark can hang.* When the context ends while jobs are left, the producer returns
   without closing the channel (`scheduler.go:146`); a worker waiting in the range
   (115) waits for ever, and `wg.Wait` (158) with it. `scheduler.go:26` says that the timeout
   bounds the whole benchmark.
2. *The mirror may be deleted under a run.* The mirror is looked for before the lock is
   taken and not again after (`git.go:67-102`); `git.go:3-4` promises isolation.
3. *A passed run need not replay.* The model's answers are stored as they came (`runtime/trpc/replay.go:126`), with
   the recorded worktree's paths in their tool calls, and the lookup of such a call in a fresh worktree misses;
   `docs/replay.md:32` says that a successfully recorded run replays as PASSED.

Also seen, without a run of its own; where a property is about such a case, it excepts that case and no other:

- *An interrupted run stays "running" in SQLite.* `finish` writes with the context that has
  just ended (`builder.go:444`, `sqlitestore.go:164`); `builder.go:279` says that `Run`
  persists the final record. `RecordTellsOutcome` excuses failed writes.
- *A failed `Build` keeps what it has.* Its workspace and its trace file are not released, and when the replay
  sources cannot be read (`builder.go:163`) the record, inserted before, says "running" of a run that never
  started: the "orphaned" case of `RecordTellsOutcome`.
- *Verification can make the required change.* Its commands run in the workspace before the diff is taken
  (`builder.go:348`, `353`), and untracked files count (`git.go:150`): a build's output is a change, against
  `builder.go:345-347`, which says that the workspace must have been modified for a coding task to pass. `NoFakePass` counts
  it as one.
- *A complete mirror can be deleted because a git command failed.* `mirrorValid` answers no whenever git fails
  (`git.go:125`), and the run then clones anew. `ReplacedOnlyOnStaleCheck` tells it from the early look.
- *A streamed tool call has no arguments in the trace.* The start announced by a delta leaves them out
  (`normalize.go:117-119`, against 187-191), so the steps that `diff` compares lack them. And a delta without a name
  marks its id as seen (108-113), so that a completion with the whole call does not start it, against the
  comment at `normalize.go:147-151`; the properties of `stream` except such calls.
- *Parallel tool calls are paired wrongly.* `BuildSteps` keeps one pending start (`diff.go:104`),
  which the second start of an answer replaces; the first result becomes a step with the second
  call, and the second result one with its own name and no arguments. `diff.go:81-83` says that pairs of
  start and end become steps. `SequentialSteps` speaks of runs without such an answer.
- *Two sessions cannot migrate one database at once.* `migrate` lists the columns and then adds the missing ones
  (`sqlitestore.go:91-106`); the second of two sessions fails on a duplicate column, and its run is not built.
  `CHANGELOG.md:215` says that SQLite auto-migrates old schemas. `SomeoneIsAdmitted` says what holds all the same.
- *Events can overwrite each other.* The key of an event is its run and timestamp, and the insert replaces
  (`sqlitestore.go:231-234`); `sqlitestore.go:2` says that raw events are persisted. `LostEventsShareTime` says which are not.
- *Diff.* When one run ends first, its side of the divergence has the index after its last step (`diff.go:192`, `199`),
  where `diff.go:67` says 0 for a run that ended there (`FirstDivergenceIsFirst` claims a number only for the side that has the
  step); and the full listing prints the other's remaining steps twice (`cli/diff.go:115-120`), once as
  lines.
- *Report.* `statsOf` looks for a run id (`report.go:230`), which a job whose `Run` failed has too
  (`scheduler.go:193`); `report.go:225-226` says that scheduler-level errors are not counted as zeros.
- `run_start` and the normalizer's first event have the same number, hence the same id:
  `RunFrameworkAgent` numbers the former 1 and the normalizer begins at 1 as well. `Framed` therefore
  speaks of the numbers from the second event on.
- A model call without usage is counted with the usage of the call before it, since `endModel` does
  not reset it (`normalize.go`): `AnswersCounted` claims exact sums only when every answer reports
  its usage.
- `Options.KeepWorkspace` (`builder.go:49-50`) is read by nothing, `Close` always destroys the
  workspace.
- The token counter is local to `runBatch` (`scheduler.go:105`), so each wave may spend the budget again;
  `scheduler.go:24` calls it cumulative across all runs. All repositories share one mirror path (`git.go:45`),
  against `workspace.go:17`.
- *Replay.* Failed tools and nil results are not recorded, a repeated call is replayed with its first answer, a broken stream is
  recorded as a whole answer: each condition of `Clean` is needed for `CleanRunReplays`. Bench jobs leave
  `ReplayModel` unset, though `docs/replay.md:17` speaks of every run. When the store cannot be read, a strict replay
  runs the tool. `run --replay X --replay-model=false` is a strict session that asks the live model (`runtime/trpc/runtime.go:57`).
- *What a replay verifies.* The recorded patch is `git diff`, without untracked files (`git.go:141`) and cut at 512 bytes
  (`git.go:193-198`), and a patch that does not apply is a warning (`builder.go:340`), so that a replay of a passed run may
  fail its verification although `docs/replay.md:30-32` and `docs/reproducibility.md:42-45` say that the file changes are
  re-materialized. `CleanRunReplays` claims the outcome only where the patch restores what was verified.
- *Strict environments.* `docs/reproducibility.md:27` says that strict aborts on any mismatch; `CompareEnv` passes over
  dimensions that one side does not know (`envcheck.go:53`), a bundle's missing `environment.json` is no mismatch
  (`cli/reproduce.go:145`), and a bundle carries the environment of its export (`export.go:60`), not of its run.
- *Sandbox.* A child that left the group survives the kill (`sandbox.go:79` speaks of the whole process tree) and, if it
  holds the pipe, blocks `<-done` for good, the case `CommandReturns` excepts. A command that ends by itself leaves its redirected
  background children. Commands are started under a context that has already ended. Without a timeout, a background child
  with the pipe blocks the caller.
- *Optimizer.* The gate holds the holdout rate of a candidate against the baseline's development rate (`eval.go:91`), where
  `docs/optimizer.md:52` speaks of holdout: with a baseline that does better on holdout, a candidate that is worse
  there may be accepted. Without a development result of the baseline everything with a holdout result is accepted. A candidate
  on the front for its tokens alone is accepted with any holdout rate. Attempts that errored dilute a rate and flatter the means.

## Fairness

`Scheduler!FairSpec`: weak fairness for each goroutine. The Go runtime schedules every runnable
goroutine, and a run ends, since its model calls and commands have limits of their own.
A goroutine blocked at the channel is not enabled, so fairness does not help it: that is why
the hang is a real counterexample. `GitMirror!FairSpec`: weak fairness for each run; git
commands end, sleeps end, and the deadline of the wait comes. A crash is never forced, and
neither is the end of a context. `EventStream!FairSpec`: weak fairness for the goroutine and for the
builder's loop, which the Go runtime schedules, and strong fairness for the end of the framework's
stream: an agent's calls are limited and its context ends, so it cannot send frames for ever, but
it can close its channel only between two frames, when it is not held up. `Sandbox!FairSpec`: weak fairness for the
caller, for `Wait`'s goroutine and for the timer; no process need ever exit and no run be cancelled.
`Replay`, `Optimize`, `SqliteStore` and `TraceDiff` state safety only: a conversation, an evaluation, a run and
a comparison end by their own bounds.

## Proofs

Every theorem is `Spec => []P` (or `[][A]_vars`, or a refinement) for every value of the
constants that the module's named assumption admits, by an inductive invariant that TLC has
checked first. Where a proof needs an induction over data it goes by a least counterexample: the library's order of
finite subsets is well founded (`FS_StrictSubsetOrderingWellFounded`, `WFMin`), from which `LeastNatural` has the least
element of a set of naturals, and `FrontOfFinite` a greatest element of a finite order.

- `SchedulerProofs`. `TypeOK` alone is not inductive: that `next` stays in range needs the
  place of the producer, and that a report is about a real job needs what a worker holds.
  `Inductive` adds where each job of the wave stands (`WaveInv`: the wave has no duplicates and,
  between waves, its jobs have errored `attempt` times; `WorkerInv`: who holds what; `JobInv`: a
  job pending or held has neither failed nor settled in this wave). `NoSharedJob`,
  `VerdictIsFinal` and `OnlyErrorsAreRetried` follow. The proof has a lemma for each kind of step
  (`StartWaveStep`, `JoinWaveStep`, `QuietStep`, `HandoffStep`, `WorkStep`, `RecordStep`).
  `EveryJobAccountedFor` needs `KeepInv`: as long as nothing
  cuts the benchmark short, each job is settled or is in the wave, with a worker or in the next wave (`KeptStep`), and the
  producer leaves nothing behind. Being cut short is for good (`CutStaysCut`), so that the step may assume that it has not
  happened. `OvershootBounded` counts `MayAdd`, the workers that may still add tokens once the budget is reached:
  tokens plus a run for each of them never reach the ceiling, because a run that ends leaves the count as its
  tokens come in (`ReserveStep`, `RunCounted`). `Refinement` maps `StartJob` to `Begin` (`StartBegins`, with `FreeSlot`: the running jobs
  are the image of the busy workers, one of which is not busy), `Record` to `Err` or `Settle` (`RecordEnds`), and all else to a
  stutter.
- `GitMirrorProofs`. Mutual exclusion is not inductive without "a cloner implies the lock", nor is
  the ownership of the clone without what each place says of the mirror: `PlaceInv`. `CloneStep`
  and `OtherStep` separate the steps under the lock from all others. `StaleCheckOnly` is an
  action property from the same invariant, which has to know of each run on its way to the lock
  why it saw no mirror (`doubted`, `misled` or the end of its context).
- `RunLifecycleProofs`. The invariant of a run, `RunInv(r)`, says for each place what the record
  must hold, which status may be in memory, and that whatever could turn the status to "failed" is
  excused by the end of the context or has a cause. It mentions one run only, so a step of
  another run keeps it (`OthersStep`). `Refinement` shows that each step is one of `RunContract` or
  a stutter (`RecordStep`, `WorkspaceStep`).
- `EventStreamProofs`. `StepShape` says of every step that it leaves the stream alone (a receive only
  moves an event from the channel to the trace, `ReceiveKeeps`) or appends one event, the
  normalizer's or one of the goroutine's own. `Framed` is not inductive without `NumberInv`, which ties the
  length and the last number of the stream to the stage of the run, nor that without `FrameInv`: a
  frame is handled only while the framework is served. `AlternatesAppended` is a lemma
  about any sequence of events and what one more does to it. `AnswersAreCounted` says of the builder's counters that a function of
  the places of the stream (`Chain`) leads from them, over the events still in the channel, to a total that agrees with what
  the model has answered, but for the call whose last frame is in hand (`CountInv`); `UsageInv` and `TextInv` say what the
  normalizer then knows of that call's usage and text. `StepsAreSequential` is about the recursive function of `ToolSteps`: its
  walk of a stream is unique (`WalkUnique`, by `LeastNatural`), so that the walk of a trace is the beginning of that of the stream
  (`StepsOfPrefix`) and can be extended by an event (`WalkExtended`). `StepsInv` adds to what the walk has found whose start is
  pending. `ToolEventsPaired` needs `AskInv`, where the calls of the answer stand
  (hidden, to do, started: only a completion announces a call that is started already), and `NameInv`, what the
  normalizer then knows of their names; each has a lemma for each frame that announces calls (`BeginStep`, `ChunkStep`,
  `AnswerStep`) and for the steps that look at them (`StartToolStep`, `SkipStep`).
- `ReplayProofs`. What makes a strict replay follow the record is an invariant of the tape, `TapeInv`: every model entry, stored, pending or
  exported, is filed under the normalized conversation before some answer of the recorded run and holds that answer. It
  survives the growth of the conversation (`RecordedStays`, `AppendKeepsPrefix`), torn lines and crashes. A hit then fixes the
  length of the replayed conversation, hence the place of the answer (`HearingFollows`). `CleanRunsReplay` needs the converse,
  that the tape is complete: `TapeComplete` says that unless a line was torn every answer of a run that did not fail is on it
  or about to be stored, and every result of a tool that did not fail is on it; `ResultsRecorded`, that no other tool entry
  is. `Conversation` says who speaks when. `ToolsAnswerFromTape` rests on `ResultsRecorded` alone: what `Lookup` finds for a call
  is the normalized result of an equal recorded call, in a clean run or not; `AnswersInv` keeps that for the conversation. A session with the recorded spec that can read its store then `Tracks` the
  recorded run: its conversation is a normalized prefix of the recorded one. The first entry with the hash of a request, which
  is the one `Lookup` returns (`FoundOnTape`, by `LeastNatural`), gives the recorded answer (`CleanAnswer`) or, since a
  clean run never got two results for one call, the recorded result (`CleanResult`). `Clean` is a condition on the run as it is now,
  so that a step that makes a run unclean has nothing to show.
- `EventStreamProofs` also has the theorems of `TraceDiff`, whose names do not meet those of `EventStream`. `CompareInv`
  describes the result by the number `c` of steps the two runs have in common (`Common`), and what follows them: nothing yet
  (`Walking`), two steps that differ (`Diverged`), the rest of one of them (`LongerA`, `LongerB`) or nothing at all (`Equal`). The
  four properties are read off it, and the listing is a concatenation of which each step has a place (`ConcatParts`). That
  the table of common subsequences has no part in it is a result: whichever side it prefers, the walk ends there.
- `SandboxProofs`. `CallInv` says what the channel tells the caller: when it is filled nobody holds the pipe, and nobody can
  come to hold it, since a process takes the pipe from one that has it (`ProcessesKeep`). `FutureInv` says that a command
  not started has no process. The three actions with which a command returns share `ReturnKeeps`.
- `OptimizeProofs`. That a job is won once needs that a wave only retries what has not passed: `JobInv`. The counts are
  cardinalities of the history, one element more a step (`RunJobStep`). `GateIsSound` rests on the uniqueness of results by
  name and, for the comparison with the baseline's holdout rate, on the transitivity of rates by cross multiplication
  (`RateTransitive`); that comparison needs that the candidate did not lose in development and that the baseline is no better
  on holdout than in development. The theorem says what is left of the gate in the other cases. `FrontCoversAll` needs that dominance is
  a strict order (`DominatesOrder`) and that the results are finitely many (`RowsInv`, because every row is of a job that ran); of
  the results that dominate one that is not on the front, one with the least set above it is dominated by none (`FrontOfFinite`).
- `SqliteStoreProofs`. `SchemaInv` says what a session may rely on at each statement of `New`: the objects it has created or
  found, and, in the migration, the columns before the next and all that it saw, since the file only grows (`FileGrows`).
  `RaceHasWinner` is not inductive: that a session is still opening does not say that it will get through. `RaceInv` says that
  if one has been beaten (rejected, or a column was added behind its back) then one is `Unbeaten`: what it has
  yet to add is not there. The session that adds a column is itself unbeaten, because columns are added in their order,
  whoever adds them (`PrefixInv`). `HolderInv` ties the row of a session to its place and needs that no two sessions hold one run
  (`WriterInv`); `EventInv`, that events are numbered in the order in which they were accepted.

The type invariants (`TypeOK`, `CompareTypeOK`) are theorems of every module with a specification, for every value
of its constants, and are therefore not repeated by the runs, which go to the properties.

Only model-checked: the liveness properties `UndisturbedBenchmarkEnds`, `CreateEnds`, `StreamEnds` and `CommandReturns`, which
are out of the prover's reach. Every invariant and action property of the passing runs, and both refinements, are theorems.

## Plan

1. Done: `Scheduler`, `JobLedger`, `GitMirror`, `RunLifecycle`, `RunContract`, their runs and proofs.
2. Done: `EventStream`, `ReplayStore`, `Replay`, `Sandbox`, `Selection`, `Optimize`, their runs and proofs.
3. Done: `SqliteStore` and `TraceDiff` with their proofs; the completeness of the tape, the front of the optimizer, the
   counts and the steps of the stream.
4. Then: an abstract contract of the replay, which `Replay` implements; the rows of a report as the abstract state of
   which `Selection` reads the rates.

## Not modelled

The harness specification's parsing and defaults, the task files and the matrix, the statistics of a report, the cost table, the archive of
a bundle and the optimizer's prompts are sequential computations on their inputs. Of the sandbox, docker and bwrap hand a
command to programs outside this code, and Windows' job objects are another operating system's. The policy and the
redaction match text. The agent framework, git and the operating system are external: they appear as what
their callers can observe.
