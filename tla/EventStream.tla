------------------------------ MODULE EventStream ------------------------------
(***************************************************************************)
(* The events of one run: RunFrameworkAgent in                             *)
(* internal/runtime/trpc/runtime.go, whose goroutine turns the agent       *)
(* framework's events into run events with the normalizer (normalize.go)   *)
(* and sends them through a buffered channel; the loop of Harness.Run in   *)
(* harness/builder/builder.go that receives, records and counts them; and  *)
(* diff.BuildSteps, which reads the trace.                                 *)
(*                                                                         *)
(* The framework is external.  A model call reaches the normalizer as      *)
(* streamed chunks of which the last is done, as chunks and an aggregated  *)
(* completion that repeats them, or as a completion alone.  The tool calls *)
(* of its answer are announced by chunks, one delta each with id and name, *)
(* or by the completion only; deltas with an id and no name may come       *)
(* before.  Every tool answers once, in any order.  An error may come at   *)
(* any time, with or without more calls after it, and the framework's      *)
(* channel may be closed at any time.                                      *)
(*                                                                         *)
(* The code normalizes an event into a list and then sends the list; here  *)
(* each run event is sent when it is made.  Only the goroutine sees the    *)
(* normalizer, so nobody can tell.  A tool call stands for its own name    *)
(* and result; whether its arguments are there is a flag; a model call's   *)
(* usage is its number.                                                    *)
(***************************************************************************)
EXTENDS Integers, FiniteSets, SequencesExt

CONSTANTS
  Tool,        \* the tool calls of the run
  Identified,  \* those to which the provider gives an id
  None,        \* no tool call, and the empty id
  Capacity,    \* buffer of the channel (128 in the code)
  MaxCalls,    \* bound: model calls
  MaxTools,    \* bound: tool calls in one answer
  MaxNameless, \* bound: calls of which a delta comes without the name
  MaxErrors    \* bound: errors the framework reports

ASSUME StreamAssumption ==
  /\ Identified \subseteq Tool
  /\ None \notin Tool
  /\ Capacity \in Nat \ {0}
  /\ MaxCalls \in Nat
  /\ MaxTools \in Nat
  /\ MaxNameless \in Nat
  /\ MaxErrors \in Nat

VARIABLES
  fw,       \* the framework: see FrameworkType
  frame,    \* the framework event that the goroutine is normalizing: see FrameType
  norm,     \* the normalizer: see NormalizerType
  out,      \* the channel between the goroutine and the builder
  trace,    \* the events the builder has recorded
  metrics,  \* what the builder has counted
  builder,  \* "loop" or "done"
  seen      \* history: see HistoryType

vars == <<fw, frame, norm, out, trace, metrics, builder, seen>>

Ids == Identified \cup {None}

IdOf(t) == IF t \in Identified THEN t ELSE None

ModelMarks == {"model_start", "model_end"}

(* A run event; call is the tool's name in it, of the call that its result is from, and args *)
(* tells whether a tool's start carries the arguments.                                       *)
Event ==
  [type: {"run_start", "run_end", "tool_start", "tool_end", "error"} \cup ModelMarks,
   id: Nat, call: Tool \cup {None}, of: Tool \cup {None}, args: BOOLEAN,
   tokens: Nat, text: Nat]

FrameworkType ==
  [stage: {"new", "starting", "refused", "idle", "calling", "streaming", "tools", "closed",
           "over", "ended"},
   calls: 0 .. MaxCalls,             \* model calls begun
   asked: Seq(Tool),                 \* tool calls in the current answer
   shown: Nat,                       \* how many of them chunks have announced
   spoken: BOOLEAN,                  \* has a chunk brought the answer's text?
   reported: BOOLEAN,                \* has the current call's usage been reported?
   waiting: SUBSET Tool,             \* tool calls without a response
   used: SUBSET Tool,                \* tool calls of all answers so far
   errors: 0 .. MaxErrors]

FrameType ==
  [kind: {"none", "chunk", "done", "completion"},
   todo: Seq(Tool),                  \* tool calls it announces that are still to be looked at
   named: BOOLEAN,                   \* with their names?
   text: {0, 1},                     \* does it add the answer's text to content?
   usage: Nat]                       \* 0: none

NormalizerType ==
  [seq: Nat,
   inModel: BOOLEAN,
   tokens: Nat,                      \* tokensIn and tokensOut
   content: Nat,                     \* how often it holds an answer's text
   toolNames: [Ids -> Tool \cup {None}],
   seenToolIDs: SUBSET Identified,
   lastToolName: Tool \cup {None}]

HistoryType ==
  [answered: Nat,                    \* model calls answered in full
   settled: SUBSET Tool,             \* the tool calls in their answers
   usage: Nat,                       \* sum of the usage reported by these
   silent: BOOLEAN,                  \* has one of them reported no usage?
   parallel: BOOLEAN,                \* has an answer asked for several tools?
   nameless: SUBSET Tool]            \* the calls of which a delta had no name

TypeOK ==
  /\ fw \in FrameworkType
  /\ frame \in FrameType
  /\ norm \in NormalizerType
  /\ out \in Seq(Event) /\ Len(out) =< Capacity
  /\ trace \in Seq(Event)
  /\ metrics \in [modelCalls: Nat, toolCalls: Nat, tokens: Nat]
  /\ builder \in {"loop", "done"}
  /\ seen \in HistoryType

NoFrame == [kind |-> "none", todo |-> <<>>, named |-> TRUE, text |-> 0, usage |-> 0]

Init ==
  /\ fw = [stage |-> "new", calls |-> 0, asked |-> <<>>, shown |-> 0, spoken |-> FALSE,
           reported |-> FALSE, waiting |-> {}, used |-> {}, errors |-> 0]
  /\ frame = NoFrame
  /\ norm = [seq |-> 0, inModel |-> FALSE, tokens |-> 0, content |-> 0,
             toolNames |-> [id \in Ids |-> None], seenToolIDs |-> {}, lastToolName |-> None]
  /\ out = <<>>
  /\ trace = <<>>
  /\ metrics = [modelCalls |-> 0, toolCalls |-> 0, tokens |-> 0]
  /\ builder = "loop"
  /\ seen = [answered |-> 0, settled |-> {}, usage |-> 0, silent |-> FALSE, parallel |-> FALSE,
             nameless |-> {}]

(* runEvent: an event with this number. *)
RunEvent(type, step) ==
  [type |-> type, id |-> step, call |-> None, of |-> None, args |-> FALSE,
   tokens |-> 0, text |-> 0]

(* emit: an event with the normalizer's next number. *)
Numbered(type) == RunEvent(type, norm.seq + 1)

(* out <- e: blocks while the buffer is full, whatever the context says. *)
Send(e) ==
  /\ Len(out) < Capacity
  /\ out' = Append(out, e)

-----------------------------------------------------------------------------
(* The goroutine                                                           *)

Start ==
  /\ fw.stage = "new"
  /\ Send(RunEvent("run_start", 1))
  /\ fw' = [fw EXCEPT !.stage = "starting"]
  /\ UNCHANGED <<frame, norm, trace, metrics, builder, seen>>

(* The first frame of a call, chunk or completion, opens it. *)
OpenCall ==
  /\ frame.kind # "none" /\ ~norm.inModel
  /\ Send(Numbered("model_start"))
  /\ norm' = [norm EXCEPT !.seq = @ + 1, !.inModel = TRUE]
  /\ UNCHANGED <<fw, frame, trace, metrics, builder, seen>>

(* Only ids that are not empty are remembered. *)
Mark(t) == norm.seenToolIDs \cup ({t} \cap Identified)

(* Fault: the calls of an aggregated frame are not compared with those streamed. *)
IsRepeatedNever(t) == FALSE

(* Only a completion leaves out a call whose id was seen before. *)
IsRepeated(t) == frame.kind = "completion" /\ IdOf(t) \in norm.seenToolIDs

(* The start that a chunk announces has no arguments, a completion's has. *)
StartEvent(t) ==
  [Numbered("tool_start") EXCEPT !.call = t, !.args = frame.kind = "completion"]

StartTool ==
  /\ norm.inModel
  /\ frame.todo # <<>> /\ frame.named
  /\ LET t == Head(frame.todo)
     IN  /\ ~IsRepeated(t)
         /\ Send(StartEvent(t))
         /\ norm' = [norm EXCEPT !.seq = @ + 1, !.toolNames[IdOf(t)] = t,
                                 !.seenToolIDs = Mark(t), !.lastToolName = t]
  /\ frame' = [frame EXCEPT !.todo = Tail(@)]
  /\ UNCHANGED <<fw, trace, metrics, builder, seen>>

(* A call without a name is left out, but its id has been remembered before that. *)
SkipTool ==
  /\ norm.inModel
  /\ frame.todo # <<>>
  /\ frame.named => IsRepeated(Head(frame.todo))
  /\ norm' = IF frame.named THEN norm
             ELSE [norm EXCEPT !.seenToolIDs = Mark(Head(frame.todo))]
  /\ frame' = [frame EXCEPT !.todo = Tail(@)]
  /\ UNCHANGED <<fw, out, trace, metrics, builder, seen>>

(* Fault: usage is added up over the frames of a call. *)
TokensAddedUp == norm.tokens + frame.usage

(* Usage in a frame replaces what was known. *)
Tokens == IF frame.usage = 0 THEN norm.tokens ELSE frame.usage

(* A chunk before the last one is done with. *)
EndChunk ==
  /\ norm.inModel
  /\ frame.kind = "chunk" /\ frame.todo = <<>>
  /\ norm' = [norm EXCEPT !.content = @ + frame.text, !.tokens = Tokens]
  /\ frame' = NoFrame
  /\ UNCHANGED <<fw, out, trace, metrics, builder, seen>>

(* Fault: only the done chunk closes the call. *)
EndCallStaysOpen ==
  /\ norm.inModel
  /\ frame.kind \in {"done", "completion"} /\ frame.todo = <<>>
  /\ Send([Numbered("model_end") EXCEPT !.tokens = Tokens, !.text = norm.content + frame.text])
  /\ norm' = [norm EXCEPT !.seq = @ + 1, !.inModel = frame.kind = "completion",
                          !.content = 0, !.tokens = Tokens]
  /\ frame' = NoFrame
  /\ UNCHANGED <<fw, trace, metrics, builder, seen>>

(* The done chunk and the completion end the call. *)
EndCall ==
  /\ norm.inModel
  /\ frame.kind \in {"done", "completion"} /\ frame.todo = <<>>
  /\ Send([Numbered("model_end") EXCEPT !.tokens = Tokens, !.text = norm.content + frame.text])
  /\ norm' = [norm EXCEPT !.seq = @ + 1, !.inModel = FALSE, !.content = 0, !.tokens = Tokens]
  /\ frame' = NoFrame
  /\ UNCHANGED <<fw, trace, metrics, builder, seen>>

(* Fault: a run that cannot start has no end. *)
RunEndsUnlessRefused ==
  /\ fw.stage \in {"refused", "closed"}
  /\ IF fw.stage = "refused" THEN UNCHANGED out ELSE Send(RunEvent("run_end", norm.seq + 1))
  /\ fw' = [fw EXCEPT !.stage = "over"]
  /\ UNCHANGED <<frame, norm, trace, metrics, builder, seen>>

(* run_end: its number is the goroutine's after a refused start, else the normalizer's. *)
RunEnds ==
  /\ fw.stage \in {"refused", "closed"}
  /\ Send(RunEvent("run_end", IF fw.stage = "refused" THEN 3 ELSE norm.seq + 1))
  /\ fw' = [fw EXCEPT !.stage = "over"]
  /\ UNCHANGED <<frame, norm, trace, metrics, builder, seen>>

(* defer close(out) *)
CloseOut ==
  /\ fw.stage = "over"
  /\ fw' = [fw EXCEPT !.stage = "ended"]
  /\ UNCHANGED <<frame, norm, out, trace, metrics, builder, seen>>

Goroutine ==
  Start \/ OpenCall \/ StartTool \/ SkipTool \/ EndChunk \/ EndCall \/ RunEnds \/ CloseOut

-----------------------------------------------------------------------------
(* The framework, whose events the goroutine takes one by one              *)

Ready == frame.kind = "none"

(* The runner refuses to start: an error is sent. *)
StartRefused ==
  /\ fw.stage = "starting"
  /\ Send(RunEvent("error", 2))
  /\ fw' = [fw EXCEPT !.stage = "refused"]
  /\ UNCHANGED <<frame, norm, trace, metrics, builder, seen>>

AgentStarts ==
  /\ fw.stage = "starting"
  /\ fw' = [fw EXCEPT !.stage = "idle"]
  /\ UNCHANGED <<frame, norm, out, trace, metrics, builder, seen>>

(* The answers a model may give: some tool calls, none of them seen before. *)
Answers == {ts \in SeqOf(Tool \ fw.used, MaxTools) : IsInjective(ts)}

BeginCall ==
  /\ fw.stage = "idle" /\ Ready
  /\ fw.calls < MaxCalls
  /\ \E ts \in Answers :
       /\ fw' = [fw EXCEPT !.stage = "calling", !.calls = @ + 1, !.asked = ts, !.shown = 0,
                           !.spoken = FALSE, !.reported = FALSE, !.used = @ \cup ToSet(ts)]
       /\ seen' = [seen EXCEPT !.parallel = @ \/ Len(ts) > 1]
  /\ UNCHANGED <<frame, norm, out, trace, metrics, builder>>

Usages == {0, fw.calls}

(* The calls from the first that is not announced to the n-th. *)
Announced(n) == SubSeq(fw.asked, fw.shown + 1, n)

(* A chunk that does not end the call: it may announce tools, bring text, or report usage. *)
Chunk ==
  /\ fw.stage \in {"calling", "streaming"} /\ Ready
  /\ \E n \in fw.shown .. Len(fw.asked), text \in {0, 1}, usage \in Usages :
       /\ fw.spoken => text = 0
       /\ frame' = [kind |-> "chunk", todo |-> Announced(n), named |-> TRUE,
                    text |-> text, usage |-> usage]
       /\ fw' = [fw EXCEPT !.stage = "streaming", !.shown = n,
                           !.spoken = @ \/ text = 1, !.reported = @ \/ usage # 0]
  /\ UNCHANGED <<norm, out, trace, metrics, builder, seen>>

(* A chunk whose delta has the id of the next call, still to be announced, and no name. *)
NamelessChunk ==
  /\ fw.stage \in {"calling", "streaming"} /\ Ready
  /\ fw.shown < Len(fw.asked)
  /\ Cardinality(seen.nameless) < MaxNameless
  /\ LET t == fw.asked[fw.shown + 1]
     IN  /\ t \in Identified \ seen.nameless
         /\ frame' = [kind |-> "chunk", todo |-> <<t>>, named |-> FALSE, text |-> 0, usage |-> 0]
         /\ seen' = [seen EXCEPT !.nameless = @ \cup {t}]
  /\ fw' = [fw EXCEPT !.stage = "streaming"]
  /\ UNCHANGED <<norm, out, trace, metrics, builder>>

(* The model call is answered in full; usage is in its last frame, if it is not 0. *)
Answered(usage) ==
  LET reported == fw.reported \/ usage # 0
  IN  /\ fw' = [fw EXCEPT !.stage = IF fw.asked = <<>> THEN "idle" ELSE "tools",
                          !.waiting = ToSet(fw.asked), !.shown = 0, !.spoken = FALSE]
      /\ seen' = [seen EXCEPT !.answered = @ + 1,
                              !.settled = @ \cup ToSet(fw.asked),
                              !.usage = IF reported THEN @ + fw.calls ELSE @,
                              !.silent = @ \/ ~reported]

(* The done chunk, for a call without aggregated frame: by then all has been streamed. *)
LastChunk ==
  /\ fw.stage \in {"calling", "streaming"} /\ Ready
  /\ \E usage \in Usages :
       /\ frame' = [kind |-> "done", todo |-> Announced(Len(fw.asked)), named |-> TRUE,
                    text |-> IF fw.spoken THEN 0 ELSE 1, usage |-> usage]
       /\ Answered(usage)
  /\ UNCHANGED <<norm, out, trace, metrics, builder>>

(* The completion: the whole answer, or the aggregated frame of one that was streamed, whose *)
(* text is then not added.                                                                   *)
Completion ==
  /\ fw.stage = "calling" \/ (fw.stage = "streaming" /\ fw.spoken)
  /\ Ready
  /\ \E usage \in Usages :
       /\ frame' = [kind |-> "completion", todo |-> fw.asked, named |-> TRUE,
                    text |-> IF norm.inModel THEN 0 ELSE 1, usage |-> usage]
       /\ Answered(usage)
  /\ UNCHANGED <<norm, out, trace, metrics, builder>>

(* Fault: a tool's end is named after the tool that started last. *)
NameOfLast(id) == norm.lastToolName

(* The name of the tool whose response carries this id. *)
NameOf(id) == IF norm.toolNames[id] = None THEN norm.lastToolName ELSE norm.toolNames[id]

(* handleToolResponse *)
ToolResponds ==
  /\ fw.stage = "tools" /\ Ready
  /\ \E t \in fw.waiting :
       /\ Send([Numbered("tool_end") EXCEPT !.call = NameOf(IdOf(t)), !.of = t])
       /\ fw' = [fw EXCEPT !.waiting = @ \ {t},
                           !.stage = IF fw.waiting = {t} THEN "idle" ELSE "tools"]
  /\ norm' = [norm EXCEPT !.seq = @ + 1]
  /\ UNCHANGED <<frame, trace, metrics, builder, seen>>

Serving == {"idle", "calling", "streaming", "tools"}

(* The framework without the model call or the tools that were under way. *)
Dropped ==
  [fw EXCEPT !.asked = <<>>, !.shown = 0, !.spoken = FALSE, !.reported = FALSE, !.waiting = {}]

(* An error ends the model call or the tools under way, but not the call that the normalizer *)
(* may have open; the framework may call again.                                              *)
FrameworkError ==
  /\ fw.stage \in Serving /\ Ready
  /\ fw.errors < MaxErrors
  /\ Send(Numbered("error"))
  /\ norm' = [norm EXCEPT !.seq = @ + 1]
  /\ fw' = [Dropped EXCEPT !.stage = "idle", !.errors = @ + 1]
  /\ UNCHANGED <<frame, trace, metrics, builder, seen>>

(* The framework's channel is closed, because the agent or its context has ended. *)
StreamClosed ==
  /\ fw.stage \in Serving /\ Ready
  /\ fw' = [Dropped EXCEPT !.stage = "closed"]
  /\ UNCHANGED <<frame, norm, out, trace, metrics, builder, seen>>

Framework ==
  \/ StartRefused \/ AgentStarts \/ BeginCall \/ Chunk \/ NamelessChunk \/ LastChunk
  \/ Completion
  \/ ToolResponds \/ FrameworkError \/ StreamClosed

-----------------------------------------------------------------------------
(* The builder's loop                                                      *)

(* What an event adds to the metrics. *)
Counted(e) ==
  CASE e.type = "model_end"  -> [metrics EXCEPT !.modelCalls = @ + 1, !.tokens = @ + e.tokens]
    [] e.type = "tool_start" -> [metrics EXCEPT !.toolCalls = @ + 1]
    [] OTHER                 -> metrics

(* Fault: the loop is left at the first error. *)
BuilderReceivesUntilError ==
  /\ builder = "loop" /\ out # <<>>
  /\ trace' = Append(trace, Head(out))
  /\ metrics' = Counted(Head(out))
  /\ out' = Tail(out)
  /\ builder' = IF Head(out).type = "error" THEN "done" ELSE "loop"
  /\ UNCHANGED <<fw, frame, norm, seen>>

(* One turn of the loop: the event is recorded and counted. *)
BuilderReceives ==
  /\ builder = "loop" /\ out # <<>>
  /\ trace' = Append(trace, Head(out))
  /\ metrics' = Counted(Head(out))
  /\ out' = Tail(out)
  /\ UNCHANGED <<fw, frame, norm, builder, seen>>

(* The channel is closed and empty. *)
BuilderEnds ==
  /\ builder = "loop"
  /\ out = <<>> /\ fw.stage = "ended"
  /\ builder' = "done"
  /\ UNCHANGED <<fw, frame, norm, out, trace, metrics, seen>>

Done == builder = "done" /\ fw.stage = "ended"

(* The run's stream is over; nothing happens any more. *)
Over == Done /\ UNCHANGED vars

Next == Goroutine \/ Framework \/ BuilderReceives \/ BuilderEnds \/ Over

Spec == Init /\ [][Next]_vars

(* The goroutines run, and the framework comes to an end, however many frames it sends. *)
FairSpec ==
  /\ Spec
  /\ WF_vars(Goroutine)
  /\ SF_vars(StartRefused \/ StreamClosed)
  /\ WF_vars(BuilderReceives \/ BuilderEnds)

-----------------------------------------------------------------------------
(* diff.BuildSteps                                                         *)

(* The step that a tool's end completes, with the arguments of its start. *)
StepAt(s, e) ==
  [call   |-> IF s.pending = None THEN e.call ELSE s.pending,
   result |-> e.of,
   args   |-> s.pending # None /\ s.args]

(* Fault: a start does not replace one that is still pending. *)
StepOfFirst(s, e) ==
  CASE e.type = "tool_start" ->
         IF s.pending = None THEN [s EXCEPT !.pending = e.call, !.args = e.args] ELSE s
    [] e.type = "tool_end" ->
         [steps |-> Append(s.steps, StepAt(s, e)), pending |-> None, args |-> FALSE]
    [] OTHER -> s

(* One event of a trace: a tool's start waits in one place for the next end of a tool. *)
StepOf(s, e) ==
  CASE e.type = "tool_start" -> [s EXCEPT !.pending = e.call, !.args = e.args]
    [] e.type = "tool_end" ->
         [steps |-> Append(s.steps, StepAt(s, e)), pending |-> None, args |-> FALSE]
    [] OTHER -> s

NoSteps == [steps |-> <<>>, pending |-> None, args |-> FALSE]

(* The tool steps of a trace; model and error events become steps one by one. *)
ToolSteps(events) ==
  LET walk[n \in 0 .. Len(events)] ==
        IF n = 0 THEN NoSteps ELSE StepOf(walk[n - 1], events[n])
  IN  walk[Len(events)].steps

-----------------------------------------------------------------------------
(* Properties                                                              *)

(* All that the goroutine has sent, received or not. *)
Stream == trace \o out

(* runtime.go:16-18 of the package runtime: run_start is the first event and the only one of   *)
(* its kind, run_end is the last, even of a run that could not start; from the second event on *)
(* the numbers of the events, which two counters provide, go up by one.                        *)
Framed ==
  /\ \A i \in DOMAIN Stream : Stream[i].type = "run_start" <=> i = 1
  /\ \A i \in DOMAIN Stream : Stream[i].type = "run_end" => i = Len(Stream)
  /\ fw.stage = "ended" => Stream # <<>> /\ Stream[Len(Stream)].type = "run_end"
  /\ \A i \in 2 .. Len(Stream) - 1 : Stream[i + 1].id = Stream[i].id + 1

(* Whatever shape a model call comes in, and whether or not an error cuts it off, model_start  *)
(* and model_end alternate, starting with the former, and a call is open exactly when the      *)
(* normalizer thinks so.                                                                       *)
ModelEventsAlternate ==
  /\ \A i, j \in DOMAIN Stream :
       i < j /\ Stream[i].type = Stream[j].type /\ Stream[i].type \in ModelMarks =>
         \E k \in i + 1 .. j - 1 : Stream[k].type \in ModelMarks \ {Stream[i].type}
  /\ \A j \in DOMAIN Stream :
       Stream[j].type = "model_end" => \E i \in 1 .. j - 1 : Stream[i].type = "model_start"
  /\ norm.inModel <=>
       \E i \in DOMAIN Stream :
         /\ Stream[i].type = "model_start"
         /\ \A k \in i + 1 .. Len(Stream) : Stream[k].type # "model_end"

(* What the builder has counted at the end: every model call that was answered, once; all the  *)
(* usage reported, and nothing else when each answer reported its own; and, in a run without   *)
(* errors, the text of each answer once, though aggregated frames repeat it.                   *)
AnswersCounted ==
  builder = "done" =>
    /\ metrics.modelCalls = seen.answered
    /\ metrics.tokens >= seen.usage
    /\ ~seen.silent => metrics.tokens = seen.usage
    /\ fw.errors = 0 => \A i \in DOMAIN trace : trace[i].type = "model_end" => trace[i].text = 1

(* A tool call with an id is started once, announced by a delta, by the aggregated frame or by *)
(* both; every tool call of a full answer is started, unless a delta without its name came.    *)
ToolsStartOnce ==
  /\ \A i, j \in DOMAIN Stream :
       /\ Stream[i].type = "tool_start" /\ Stream[j].type = "tool_start"
       /\ Stream[i].call = Stream[j].call /\ Stream[i].call \in Identified
       => i = j
  /\ Ready => \A t \in seen.settled \ seen.nameless :
       \E i \in DOMAIN Stream : Stream[i].type = "tool_start" /\ Stream[i].call = t

(* A tool's end has the name of the tool whose result it brings, if that has an id or was the  *)
(* only call of its answer, and follows its start; no delta came without the name.             *)
ToolEndsMatch ==
  \A i \in DOMAIN Stream :
    Stream[i].type = "tool_end" /\ Stream[i].of \notin seen.nameless =>
      /\ Stream[i].of \in Identified \/ ~seen.parallel => Stream[i].call = Stream[i].of
      /\ \E j \in 1 .. i - 1 : Stream[j].type = "tool_start" /\ Stream[j].call = Stream[i].of

(* Both: what a reader needs to pair the tool events of a trace.                               *)
ToolEventsMatch == ToolsStartOnce /\ ToolEndsMatch

(* The calls that BuildSteps can be asked to find: none when an answer asked for two at once,  *)
(* and not those that a delta without a name hid.                                              *)
Told == IF seen.parallel THEN {} ELSE Tool \ seen.nameless

(* The steps that diff.BuildSteps finds in a trace: one for each result, in their order, and,  *)
(* when no answer asked for two tools at once, each with the call that it answers, though an   *)
(* error may have left a call without an answer; a call that a delta without its name hid has  *)
(* no step of its own.                                                                         *)
SequentialSteps ==
  LET steps  == ToolSteps(trace)
      ends   == {i \in DOMAIN trace : trace[i].type = "tool_end"}
      nth(i) == Cardinality({j \in ends : j =< i})
  IN  /\ Len(steps) = Cardinality(ends)
      /\ \A i \in ends :
           /\ steps[nth(i)].result = trace[i].of
           /\ trace[i].of \in Told => steps[nth(i)].call = trace[i].of

(* Neither goroutine is left behind: the stream is closed and the builder's loop ends.         *)
StreamEnds == <>Done

=============================================================================
