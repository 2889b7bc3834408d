--------------------------- MODULE EventStreamProofs ---------------------------
(***************************************************************************)
(* Proofs about EventStream, for any tool calls, any channel and any       *)
(* number of model calls and errors; and about TraceDiff, which compares   *)
(* the traces of two runs, for any steps they may consist of.              *)
(***************************************************************************)
EXTENDS EventStream, TraceDiff, FiniteSetTheorems, SequenceTheorems, TLAPS

-----------------------------------------------------------------------------
(* Type correctness                                                        *)

LEMMA ToSetType ==
  ASSUME NEW S, NEW s \in Seq(S)
  PROVE  ToSet(s) \subseteq S
BY ElementOfSeq, LenProperties DEF ToSet

\* What is still to be announced is a sequence of tool calls.
LEMMA AnnouncedType ==
  ASSUME TypeOK, NEW n \in fw.shown .. Len(fw.asked)
  PROVE  Announced(n) \in Seq(Tool)
<1>1. fw.shown \in Nat /\ fw.asked \in Seq(Tool) /\ n \in Int
  BY LenProperties DEF TypeOK, FrameworkType
<1>2. \A i \in fw.shown + 1 .. n : fw.asked[i] \in Tool
  BY <1>1, ElementOfSeq, LenProperties
<1> QED BY <1>1, <1>2, SubSeqProperties DEF Announced

LEMMA EventsTyped ==
  ASSUME NEW type \in {"run_start", "run_end", "tool_start", "tool_end", "error"} \cup ModelMarks,
         NEW n \in Nat
  PROVE  RunEvent(type, n) \in Event
BY DEF RunEvent, Event

LEMMA SendTyped ==
  ASSUME TypeOK, NEW e \in Event, Send(e)
  PROVE  out' \in Seq(Event) /\ Len(out') =< Capacity
BY StreamAssumption, AppendProperties, LenProperties DEF TypeOK, Send

LEMMA InitTyped == Init => TypeOK
BY StreamAssumption, EmptySeq DEF Init, TypeOK, FrameworkType, FrameType, NormalizerType,
   HistoryType, NoFrame, Ids

LEMMA TypeStep == TypeOK /\ [Next]_vars => TypeOK'
<1> SUFFICES ASSUME TypeOK, [Next]_vars PROVE TypeOK'
  OBVIOUS
<1> USE StreamAssumption, EventsTyped, SendTyped
<1>n. norm \in NormalizerType /\ norm.seq \in Nat /\ norm.seq + 1 \in Nat /\ norm.content \in Nat
       /\ norm.tokens \in Nat
  BY DEF TypeOK, NormalizerType
<1>k. fw \in FrameworkType /\ fw.calls \in 0 .. MaxCalls /\ fw.errors \in 0 .. MaxErrors
       /\ fw.used \subseteq Tool /\ fw.asked \in Seq(Tool)
  BY DEF TypeOK, FrameworkType
<1>f. frame \in FrameType /\ frame.todo \in Seq(Tool) /\ frame.text \in {0, 1}
       /\ frame.usage \in Nat /\ Tokens \in Nat
  BY <1>n DEF TypeOK, FrameType, Tokens
<1>c. norm.content + frame.text \in Nat
  BY <1>n, <1>f
<1>e. NoFrame \in FrameType
  BY EmptySeq DEF NoFrame, FrameType
<1>d. Dropped \in FrameworkType /\ Dropped.errors = fw.errors
  BY <1>k, EmptySeq DEF Dropped, FrameworkType
<1>1. CASE Start
  BY <1>1 DEF Start, TypeOK, FrameworkType
<1>2. CASE OpenCall
  <2>1. Numbered("model_start") \in Event
    BY <1>n DEF Numbered, ModelMarks
  <2>2. norm' \in NormalizerType
    BY <1>2, <1>n DEF OpenCall, NormalizerType
  <2> QED BY <1>2, <2>1, <2>2 DEF OpenCall, TypeOK
<1>3. CASE StartTool
  <2> DEFINE t == Head(frame.todo)
  <2>1. t \in Tool /\ Tail(frame.todo) \in Seq(Tool)
    BY <1>3, <1>f, HeadTailProperties DEF StartTool
  <2>2. StartEvent(t) \in Event
    BY <2>1, <1>n DEF StartEvent, Numbered, RunEvent, Event
  <2>3. IdOf(t) \in Ids /\ Mark(t) \subseteq Identified
    BY <1>n DEF IdOf, Ids, Mark, NormalizerType
  <2>4. norm' \in NormalizerType
    BY <1>3, <1>n, <2>1, <2>3 DEF StartTool, NormalizerType
  <2>5. frame' \in FrameType
    BY <1>3, <1>f, <2>1 DEF StartTool, FrameType
  <2> QED BY <1>3, <2>2, <2>4, <2>5 DEF StartTool, TypeOK
<1>4. CASE SkipTool
  <2>1. Tail(frame.todo) \in Seq(Tool)
    BY <1>4, <1>f, HeadTailProperties DEF SkipTool
  <2>2. frame' \in FrameType
    BY <1>4, <1>f, <2>1 DEF SkipTool, FrameType
  <2>3. Mark(Head(frame.todo)) \subseteq Identified
    BY <1>n DEF Mark, NormalizerType
  <2>4. norm' \in NormalizerType
    BY <1>4, <1>n, <2>3 DEF SkipTool, NormalizerType
  <2> QED BY <1>4, <2>2, <2>4 DEF SkipTool, TypeOK
<1>5. CASE EndChunk
  <2>1. norm' \in NormalizerType
    BY <1>5, <1>n, <1>f, <1>c DEF EndChunk, NormalizerType
  <2> QED BY <1>5, <1>e, <2>1 DEF EndChunk, TypeOK
<1>6. CASE EndCall
  <2>1. norm' \in NormalizerType
    BY <1>6, <1>n, <1>f DEF EndCall, NormalizerType
  <2>2. [Numbered("model_end") EXCEPT !.tokens = Tokens, !.text = norm.content + frame.text] \in Event
    BY <1>n, <1>f, <1>c DEF Numbered, RunEvent, Event, ModelMarks
  <2> QED BY <1>6, <1>e, <2>1, <2>2 DEF EndCall, TypeOK
<1>7. CASE RunEnds \/ CloseOut
  <2>1. RunEvent("run_end", IF fw.stage = "refused" THEN 3 ELSE norm.seq + 1) \in Event
    BY <1>n
  <2>2. fw' \in FrameworkType
    <3>1. fw' = [fw EXCEPT !.stage = "over"] \/ fw' = [fw EXCEPT !.stage = "ended"]
      BY <1>7 DEF RunEnds, CloseOut
    <3> QED BY <1>k, <3>1 DEF FrameworkType
  <2>3. CASE RunEnds
    BY <2>1, <2>2, <2>3 DEF RunEnds, TypeOK
  <2>4. CASE CloseOut
    BY <2>2, <2>4 DEF CloseOut, TypeOK
  <2> QED BY <1>7, <2>3, <2>4
<1>8. CASE StartRefused \/ AgentStarts \/ StreamClosed
  <2>1. fw' \in FrameworkType
    <3>1. \/ fw' = [fw EXCEPT !.stage = "refused"]
          \/ fw' = [fw EXCEPT !.stage = "idle"]
          \/ fw' = [Dropped EXCEPT !.stage = "closed"]
      BY <1>8 DEF StartRefused, AgentStarts, StreamClosed
    <3>2. CASE fw' = [Dropped EXCEPT !.stage = "closed"]
      BY <1>d, <3>2 DEF FrameworkType
    <3>3. CASE fw' = [fw EXCEPT !.stage = "refused"] \/ fw' = [fw EXCEPT !.stage = "idle"]
      BY <1>k, <3>3 DEF FrameworkType
    <3> QED BY <3>1, <3>2, <3>3
  <2>2. CASE StartRefused
    BY <2>1, <2>2 DEF StartRefused, TypeOK
  <2>3. CASE AgentStarts \/ StreamClosed
    BY <2>1, <2>3 DEF AgentStarts, StreamClosed, TypeOK
  <2> QED BY <1>8, <2>2, <2>3
<1>9. CASE BeginCall
  <2> PICK ts \in Answers :
        /\ fw' = [fw EXCEPT !.stage = "calling", !.calls = @ + 1, !.asked = ts, !.shown = 0,
                            !.spoken = FALSE, !.reported = FALSE, !.used = @ \cup ToSet(ts)]
        /\ seen' = [seen EXCEPT !.parallel = @ \/ Len(ts) > 1]
    BY <1>9 DEF BeginCall
  <2>1. ts \in Seq(Tool)
    BY SeqDef DEF Answers, SeqOf
  <2>2. fw' \in FrameworkType
    <3>1. fw.calls + 1 \in 0 .. MaxCalls
      BY <1>9, <1>k DEF BeginCall
    <3>2. fw.used \cup ToSet(ts) \subseteq Tool
      BY <1>k, <2>1, ToSetType
    <3> QED BY <1>k, <2>1, <3>1, <3>2 DEF FrameworkType
  <2>3. seen' \in HistoryType
    BY DEF TypeOK, HistoryType
  <2> QED BY <1>9, <2>2, <2>3 DEF BeginCall, TypeOK
<1>a. ASSUME NEW usage \in Usages, Answered(usage)
      PROVE  fw' \in FrameworkType /\ seen' \in HistoryType /\ usage \in Nat
  <2>1. ToSet(fw.asked) \subseteq Tool /\ usage \in Nat
    BY <1>k, ToSetType DEF Usages
  <2>2. fw' = [fw EXCEPT !.stage = IF fw.asked = <<>> THEN "idle" ELSE "tools",
                         !.waiting = ToSet(fw.asked), !.shown = 0, !.spoken = FALSE]
    BY <1>a DEF Answered
  <2>3. fw' \in FrameworkType
    BY <1>k, <2>1, <2>2 DEF FrameworkType
  <2>4. PICK reported \in BOOLEAN :
          seen' = [seen EXCEPT !.answered = @ + 1,
                               !.settled = @ \cup ToSet(fw.asked),
                               !.usage = IF reported THEN @ + fw.calls ELSE @,
                               !.silent = @ \/ ~reported]
    BY <1>a DEF Answered
  <2>5. /\ seen.answered + 1 \in Nat /\ seen.usage + fw.calls \in Nat
        /\ seen.settled \cup ToSet(fw.asked) \subseteq Tool
    <3>1. seen.answered \in Nat /\ seen.usage \in Nat /\ seen.settled \subseteq Tool
      BY DEF TypeOK, HistoryType
    <3>2. fw.calls \in Nat
      BY <1>k
    <3> HIDE DEF TypeOK
    <3> QED BY <2>1, <3>1, <3>2
  <2>6. seen' \in HistoryType
    BY <2>4, <2>5 DEF TypeOK, HistoryType
  <2> QED BY <2>1, <2>3, <2>6
<1>10. CASE Chunk
  <2> PICK n \in fw.shown .. Len(fw.asked), text \in {0, 1}, usage \in Usages :
        /\ frame' = [kind |-> "chunk", todo |-> Announced(n), named |-> TRUE,
                     text |-> text, usage |-> usage]
        /\ fw' = [fw EXCEPT !.stage = "streaming", !.shown = n,
                            !.spoken = @ \/ text = 1, !.reported = @ \/ usage # 0]
    BY <1>10 DEF Chunk
  <2>1. n \in Nat /\ usage \in Nat
    BY LenProperties DEF Usages, TypeOK, FrameworkType
  <2>2. frame' \in FrameType
    BY <2>1, AnnouncedType DEF FrameType
  <2>3. fw' \in FrameworkType
    BY <2>1 DEF TypeOK, FrameworkType
  <2> QED BY <1>10, <2>2, <2>3 DEF Chunk, TypeOK
<1>17. CASE NamelessChunk
  <2> DEFINE t == fw.asked[fw.shown + 1]
  <2>1. /\ frame' = [kind |-> "chunk", todo |-> <<t>>, named |-> FALSE, text |-> 0, usage |-> 0]
        /\ seen' = [seen EXCEPT !.nameless = @ \cup {t}]
        /\ fw' = [fw EXCEPT !.stage = "streaming"]
        /\ t \in Tool
    BY <1>17 DEF NamelessChunk
  <2> HIDE DEF t
  <2>2. frame' \in FrameType
    BY <2>1 DEF FrameType
  <2>3. fw' \in FrameworkType
    BY <1>k, <2>1 DEF FrameworkType
  <2>4. seen' \in HistoryType
    BY <2>1 DEF TypeOK, HistoryType
  <2> QED BY <1>17, <2>2, <2>3, <2>4 DEF NamelessChunk, TypeOK
<1>11. CASE LastChunk
  <2> PICK usage \in Usages :
        /\ frame' = [kind |-> "done", todo |-> Announced(Len(fw.asked)), named |-> TRUE,
                     text |-> IF fw.spoken THEN 0 ELSE 1, usage |-> usage]
        /\ Answered(usage)
    BY <1>11 DEF LastChunk
  <2>1. Announced(Len(fw.asked)) \in Seq(Tool)
    <3>1. fw.shown \in Nat /\ fw.asked \in Seq(Tool) /\ Len(fw.asked) \in Int
      BY LenProperties DEF TypeOK, FrameworkType
    <3>2. \A i \in fw.shown + 1 .. Len(fw.asked) : fw.asked[i] \in Tool
      BY <3>1, ElementOfSeq, LenProperties
    <3> QED BY <3>1, <3>2, SubSeqProperties DEF Announced
  <2>2. frame' \in FrameType
    BY <2>1, <1>a DEF FrameType
  <2> QED BY <1>11, <2>2, <1>a DEF LastChunk, TypeOK
<1>12. CASE Completion
  <2> PICK usage \in Usages :
        /\ frame' = [kind |-> "completion", todo |-> fw.asked, named |-> TRUE,
                     text |-> IF norm.inModel THEN 0 ELSE 1, usage |-> usage]
        /\ Answered(usage)
    BY <1>12 DEF Completion
  <2>1. frame' \in FrameType
    BY <1>a DEF FrameType, TypeOK, FrameworkType
  <2> QED BY <1>12, <2>1, <1>a DEF Completion, TypeOK
<1>13. CASE ToolResponds
  <2> PICK t \in fw.waiting :
        /\ Send([Numbered("tool_end") EXCEPT !.call = NameOf(IdOf(t)), !.of = t])
        /\ fw' = [fw EXCEPT !.waiting = @ \ {t},
                            !.stage = IF fw.waiting = {t} THEN "idle" ELSE "tools"]
    BY <1>13 DEF ToolResponds
  <2>1. t \in Tool /\ IdOf(t) \in Ids
    BY DEF TypeOK, FrameworkType, IdOf, Ids
  <2>2. NameOf(IdOf(t)) \in Tool \cup {None}
    BY <2>1, <1>n DEF NameOf, NormalizerType
  <2>3. [Numbered("tool_end") EXCEPT !.call = NameOf(IdOf(t)), !.of = t] \in Event
    BY <2>1, <2>2, <1>n DEF Numbered, RunEvent, Event
  <2>4. fw' \in FrameworkType
    BY DEF TypeOK, FrameworkType
  <2>5. norm' \in NormalizerType
    BY <1>13, <1>n DEF ToolResponds, NormalizerType
  <2> QED BY <1>13, <2>3, <2>4, <2>5 DEF ToolResponds, TypeOK
<1>14. CASE FrameworkError
  <2>1. Numbered("error") \in Event
    BY <1>n DEF Numbered
  <2>2. fw' \in FrameworkType
    <3>1. fw.errors + 1 \in 0 .. MaxErrors
      BY <1>14, <1>k DEF FrameworkError
    <3> QED BY <1>14, <1>d, <3>1 DEF FrameworkError, FrameworkType
  <2>3. norm' \in NormalizerType
    BY <1>14, <1>n DEF FrameworkError, NormalizerType
  <2> QED BY <1>14, <2>1, <2>2, <2>3 DEF FrameworkError, TypeOK
<1>15. CASE BuilderReceives
  <2>1. /\ Head(out) \in Event /\ Tail(out) \in Seq(Event) /\ Len(Tail(out)) = Len(out) - 1
    BY <1>15, HeadTailProperties DEF BuilderReceives, TypeOK
  <2>2. Head(out).tokens \in Nat
    BY <2>1 DEF Event
  <2>3. metrics' \in [modelCalls: Nat, toolCalls: Nat, tokens: Nat]
    <3>1. metrics.modelCalls + 1 \in Nat /\ metrics.toolCalls + 1 \in Nat
          /\ metrics.tokens + Head(out).tokens \in Nat
      BY <2>2 DEF TypeOK
    <3>2. metrics' = Counted(Head(out))
      BY <1>15 DEF BuilderReceives
    <3> QED BY <3>1, <3>2 DEF Counted, TypeOK
  <2>4. Append(trace, Head(out)) \in Seq(Event)
    BY <2>1, AppendProperties DEF TypeOK
  <2>5. Len(out) \in Nat
    BY LenProperties DEF TypeOK
  <2> QED BY <1>15, <2>1, <2>3, <2>4, <2>5 DEF BuilderReceives, TypeOK
<1>16. CASE BuilderEnds \/ Over \/ UNCHANGED vars
  BY <1>16 DEF BuilderEnds, Over, vars, TypeOK
<1> QED
  BY <1>1, <1>2, <1>3, <1>4, <1>5, <1>6, <1>7, <1>8, <1>9, <1>10, <1>11, <1>12, <1>13, <1>14,
     <1>15, <1>16, <1>17 DEF Next, Goroutine, Framework

\* Every variable of the stream keeps its type; the channel holds no more than its buffer.
THEOREM TypeCorrect == Spec => []TypeOK
BY InitTyped, TypeStep, PTL DEF Spec

-----------------------------------------------------------------------------
(* What a step does to the stream                                          *)

Emitted == {"tool_start", "tool_end", "error"} \cup ModelMarks

Appends(e) == e \in Event /\ Stream' = Append(Stream, e)

(* Nothing is sent; the stages in which the framework is served are left through "closed". *)
Quiet ==
  /\ Stream' = Stream
  /\ norm'.seq = norm.seq /\ norm'.inModel = norm.inModel
  /\ \/ fw'.stage = fw.stage
     \/ fw.stage \in Serving /\ fw'.stage \in Serving \cup {"closed"}
     \/ fw.stage = "starting" /\ fw'.stage = "idle"
     \/ fw.stage = "over" /\ fw'.stage = "ended"

(* The normalizer's event e is sent. *)
Emits(e) ==
  /\ Appends(e)
  /\ e.type \in Emitted /\ e.id = norm.seq + 1
  /\ norm'.seq = norm.seq + 1
  /\ fw.stage \in Serving /\ fw'.stage \in Serving
  /\ \/ e.type = "model_start" /\ ~norm.inModel /\ norm'.inModel
     \/ e.type = "model_end" /\ norm.inModel /\ ~norm'.inModel
     \/ e.type \notin ModelMarks /\ norm'.inModel = norm.inModel

(* One of the goroutine's own events is sent. *)
Marks(e) ==
  /\ Appends(e)
  /\ norm' = norm
  /\ \/ fw.stage = "new" /\ fw'.stage = "starting" /\ e.type = "run_start" /\ e.id = 1
     \/ fw.stage = "starting" /\ fw'.stage = "refused" /\ e.type = "error" /\ e.id = 2
     \/ fw.stage = "refused" /\ fw'.stage = "over" /\ e.type = "run_end" /\ e.id = 3
     \/ fw.stage = "closed" /\ fw'.stage = "over" /\ e.type = "run_end" /\ e.id = norm.seq + 1

(* The goroutine handles a frame only while the framework is served. *)
FrameInv ==
  /\ fw.stage \notin Serving => Ready
  /\ Ready => frame.todo = <<>>

LEMMA SendAppends ==
  ASSUME TypeOK, NEW e \in Event, Send(e), trace' = trace
  PROVE  Appends(e)
<1>1. out \in Seq(Event) /\ trace \in Seq(Event) /\ <<e>> \in Seq(Event)
  BY DEF TypeOK
<1>2. out' = out \o <<e>>
  BY <1>1, AppendIsConcat DEF Send
<1>3. Stream' = (trace \o out) \o <<e>>
  BY <1>1, <1>2, ConcatAssociative DEF Stream
<1>4. trace \o out \in Seq(Event)
  BY <1>1, ConcatProperties
<1> QED BY <1>3, <1>4, AppendIsConcat DEF Appends, Stream

LEMMA ReceiveKeeps ==
  ASSUME TypeOK, BuilderReceives
  PROVE  Stream' = Stream
<1>1. /\ out \in Seq(Event) /\ trace \in Seq(Event) /\ out # <<>>
      /\ trace' = Append(trace, Head(out)) /\ out' = Tail(out)
  BY DEF TypeOK, BuilderReceives
<1>2. Head(out) \in Event /\ Tail(out) \in Seq(Event)
  BY <1>1, HeadTailProperties
<1>3. <<Head(out)>> \in Seq(Event)
  BY <1>2
<1>4. trace' = trace \o <<Head(out)>>
  BY <1>1, <1>2, AppendIsConcat
<1>5. Stream' = trace \o (<<Head(out)>> \o Tail(out))
  BY <1>1, <1>2, <1>3, <1>4, ConcatAssociative DEF Stream
<1>6. out = <<Head(out)>> \o Tail(out)
  <2>1. Len(<<Head(out)>> \o Tail(out)) = Len(out)
    BY <1>1, <1>2, <1>3, ConcatProperties, HeadTailProperties, LenProperties
  <2>2. \A i \in 1 .. Len(out) : (<<Head(out)>> \o Tail(out))[i] = out[i]
    BY <1>1, <1>2, <1>3, ConcatProperties, HeadTailProperties, LenProperties
  <2> QED BY <1>1, <1>2, <1>3, <2>1, <2>2, SeqEqual, ConcatProperties
<1> QED BY <1>5, <1>6 DEF Stream

LEMMA ServingFrame ==
  ASSUME fw \in FrameworkType, Chunk \/ NamelessChunk \/ LastChunk \/ Completion
  PROVE  frame'.kind # "none" /\ fw'.stage \in Serving
<1>1. CASE Chunk
  <2> PICK n \in fw.shown .. Len(fw.asked), text \in {0, 1}, usage \in Usages :
        /\ fw.spoken => text = 0
        /\ frame' = [kind |-> "chunk", todo |-> Announced(n), named |-> TRUE,
                     text |-> text, usage |-> usage]
        /\ fw' = [fw EXCEPT !.stage = "streaming", !.shown = n,
                            !.spoken = @ \/ text = 1, !.reported = @ \/ usage # 0]
    BY <1>1, Zenon DEF Chunk
  <2>1. frame'.kind = "chunk"
    OBVIOUS
  <2>2. fw'.stage = "streaming"
    <3>1. PICK spoken, reported :
            fw' = [fw EXCEPT !.stage = "streaming", !.shown = n, !.spoken = spoken,
                             !.reported = reported]
      OBVIOUS
    <3> QED BY <3>1 DEF FrameworkType
  <2> QED BY <2>1, <2>2 DEF Serving
<1>2. CASE LastChunk \/ Completion
  <2>1. PICK usage : Answered(usage)
    BY <1>2 DEF LastChunk, Completion
  <2>2. fw'.stage \in Serving
    BY <2>1 DEF Answered, FrameworkType, Serving
  <2>3. frame'.kind \in {"done", "completion"}
    BY <1>2 DEF LastChunk, Completion
  <2> QED BY <2>2, <2>3
<1>3. CASE NamelessChunk
  BY <1>3 DEF NamelessChunk, FrameworkType, Serving
<1> QED BY <1>1, <1>2, <1>3

LEMMA FrameStep == TypeOK /\ FrameInv /\ [Next]_vars => FrameInv'
<1> SUFFICES ASSUME TypeOK, FrameInv, [Next]_vars PROVE FrameInv'
  OBVIOUS
<1> USE DEF FrameInv, Ready, Serving, TypeOK, FrameworkType
<1>1. CASE Goroutine
  BY <1>1 DEF Goroutine, Start, OpenCall, StartTool, SkipTool, EndChunk, EndCall, RunEnds,
     CloseOut, NoFrame, FrameType
<1>2. CASE StartRefused \/ AgentStarts \/ BeginCall \/ FrameworkError \/ StreamClosed
  BY <1>2 DEF StartRefused, AgentStarts, BeginCall, FrameworkError, StreamClosed, Dropped
<1>3. CASE Chunk \/ NamelessChunk \/ LastChunk \/ Completion
  BY <1>3, ServingFrame
<1>4. CASE ToolResponds
  BY <1>4 DEF ToolResponds
<1>5. CASE BuilderReceives \/ BuilderEnds \/ Over \/ UNCHANGED vars
  BY <1>5 DEF BuilderReceives, BuilderEnds, Over, vars
<1> QED BY <1>1, <1>2, <1>3, <1>4, <1>5 DEF Next, Framework

\* Every step is quiet, or sends one event, the normalizer's or the goroutine's own.
LEMMA StepShape ==
  ASSUME TypeOK, FrameInv, [Next]_vars
  PROVE  Quiet \/ (\E e : Emits(e)) \/ (\E e : Marks(e))
<1> USE StreamAssumption
<1>n. norm \in NormalizerType /\ norm.seq \in Nat /\ norm.seq + 1 \in Nat /\ norm.content \in Nat
       /\ norm.tokens \in Nat /\ fw \in FrameworkType /\ frame \in FrameType
  BY DEF TypeOK, NormalizerType
<1>s. fw.stage \notin Serving => frame.kind = "none" /\ frame.todo = <<>>
  BY DEF FrameInv, Ready
<1>1. CASE Start
  <2> DEFINE e == RunEvent("run_start", 1)
  <2>1. Appends(e)
    BY <1>1, EventsTyped, SendAppends DEF Start
  <2> QED BY <1>1, <1>n, <2>1 DEF Start, Marks, RunEvent, FrameworkType
<1>2. CASE OpenCall
  <2> DEFINE e == Numbered("model_start")
  <2>1. Appends(e)
    BY <1>2, <1>n, EventsTyped, SendAppends DEF OpenCall, Numbered, ModelMarks
  <2>2. Emits(e)
    BY <1>2, <1>n, <1>s, <2>1
       DEF OpenCall, Emits, Numbered, RunEvent, Emitted, ModelMarks, NormalizerType
  <2> QED BY <2>2
<1>3. CASE StartTool
  <2> DEFINE t == Head(frame.todo)
             e == StartEvent(t)
  <2>1. t \in Tool
    BY <1>3, <1>n, HeadTailProperties DEF StartTool, FrameType
  <2>2. e \in Event
    BY <2>1, <1>n DEF StartEvent, Numbered, RunEvent, Event
  <2>3. Appends(e)
    BY <1>3, <2>2, SendAppends DEF StartTool
  <2>4. e.type = "tool_start" /\ e.id = norm.seq + 1
    BY DEF StartEvent, Numbered, RunEvent
  <2>5. norm'.seq = norm.seq + 1 /\ norm'.inModel = norm.inModel
    BY <1>3, <1>n DEF StartTool, NormalizerType
  <2>6. Emits(e)
    BY <1>3, <1>s, <2>3, <2>4, <2>5 DEF StartTool, Emits, Emitted, ModelMarks
  <2> QED BY <2>6
<1>4. CASE EndCall
  <2> DEFINE e == [Numbered("model_end") EXCEPT !.tokens = Tokens, !.text = norm.content + frame.text]
  <2>1. Tokens \in Nat /\ norm.content + frame.text \in Nat
    BY <1>n DEF Tokens, FrameType
  <2>2. e \in Event
    BY <2>1, <1>n DEF Numbered, RunEvent, Event, ModelMarks
  <2>3. Appends(e)
    BY <1>4, <2>2, SendAppends DEF EndCall
  <2>4. e.type = "model_end" /\ e.id = norm.seq + 1
    BY DEF Numbered, RunEvent
  <2>5. norm'.seq = norm.seq + 1 /\ norm'.inModel = FALSE /\ norm.inModel
    BY <1>4, <1>n DEF EndCall, NormalizerType
  <2>6. Emits(e)
    BY <1>4, <1>s, <2>3, <2>4, <2>5 DEF EndCall, Emits, Emitted, ModelMarks
  <2> QED BY <2>6
<1>5. CASE RunEnds
  <2> DEFINE e == RunEvent("run_end", IF fw.stage = "refused" THEN 3 ELSE norm.seq + 1)
  <2>1. Appends(e)
    BY <1>5, <1>n, EventsTyped, SendAppends DEF RunEnds
  <2>2. /\ fw.stage \in {"refused", "closed"} /\ fw'.stage = "over" /\ norm' = norm
    BY <1>5, <1>n DEF RunEnds, FrameworkType
  <2>3. /\ e.type = "run_end"
        /\ e.id = IF fw.stage = "refused" THEN 3 ELSE norm.seq + 1
    BY DEF RunEvent
  <2>4. Marks(e)
    BY <2>1, <2>2, <2>3 DEF Marks
  <2> QED BY <2>4
<1>6. CASE StartRefused
  <2> DEFINE e == RunEvent("error", 2)
  <2>1. Appends(e)
    BY <1>6, EventsTyped, SendAppends DEF StartRefused
  <2>2. fw.stage = "starting" /\ fw'.stage = "refused" /\ norm' = norm
    BY <1>6, <1>n DEF StartRefused, FrameworkType
  <2>3. e.type = "error" /\ e.id = 2
    BY DEF RunEvent
  <2>4. Marks(e)
    BY <2>1, <2>2, <2>3 DEF Marks
  <2> QED BY <2>4
<1>7. CASE ToolResponds
  <2> PICK t \in fw.waiting :
        /\ Send([Numbered("tool_end") EXCEPT !.call = NameOf(IdOf(t)), !.of = t])
        /\ fw' = [fw EXCEPT !.waiting = @ \ {t},
                            !.stage = IF fw.waiting = {t} THEN "idle" ELSE "tools"]
    BY <1>7 DEF ToolResponds
  <2> DEFINE e == [Numbered("tool_end") EXCEPT !.call = NameOf(IdOf(t)), !.of = t]
  <2>1. t \in Tool /\ NameOf(IdOf(t)) \in Tool \cup {None}
    BY <1>n DEF FrameworkType, IdOf, Ids, NameOf, NormalizerType
  <2>2. e \in Event
    BY <2>1, <1>n DEF Numbered, RunEvent, Event
  <2>3. Appends(e)
    BY <1>7, <2>2, SendAppends DEF ToolResponds
  <2>4. e.type = "tool_end" /\ e.id = norm.seq + 1
    BY DEF Numbered, RunEvent
  <2>5. norm'.seq = norm.seq + 1 /\ norm'.inModel = norm.inModel
    BY <1>7, <1>n DEF ToolResponds, NormalizerType
  <2>6. fw.stage \in Serving /\ fw'.stage \in Serving
    BY <1>7, <1>n DEF ToolResponds, Serving, FrameworkType
  <2>7. Emits(e)
    BY <2>3, <2>4, <2>5, <2>6 DEF Emits, Emitted, ModelMarks
  <2> QED BY <2>7
<1>8. CASE FrameworkError
  <2> DEFINE e == Numbered("error")
  <2>1. Appends(e)
    BY <1>8, <1>n, EventsTyped, SendAppends DEF FrameworkError, Numbered
  <2>2. Emits(e)
    BY <1>8, <1>n, <2>1 DEF FrameworkError, Dropped, Emits, Numbered, RunEvent, Emitted, ModelMarks,
       NormalizerType, FrameworkType, Serving
  <2> QED BY <2>2
<1>9. ASSUME UNCHANGED <<norm, out, trace>> \/ SkipTool \/ EndChunk
      PROVE  Stream' = Stream /\ norm'.seq = norm.seq /\ norm'.inModel = norm.inModel
  BY <1>9, <1>n DEF Stream, SkipTool, EndChunk, NormalizerType
<1>10. CASE SkipTool \/ EndChunk
  BY <1>9, <1>10 DEF Quiet, SkipTool, EndChunk
<1>11. CASE CloseOut \/ AgentStarts \/ BeginCall \/ StreamClosed
  BY <1>9, <1>11, <1>n
     DEF Quiet, CloseOut, AgentStarts, BeginCall, StreamClosed, Dropped, Serving, FrameworkType
<1>12. CASE Chunk \/ NamelessChunk \/ LastChunk \/ Completion
  BY <1>9, <1>12, <1>n
     DEF Quiet, Chunk, NamelessChunk, LastChunk, Completion, Answered, Serving, FrameworkType
<1>13. CASE BuilderReceives
  BY <1>13, ReceiveKeeps DEF BuilderReceives, Quiet
<1>14. CASE BuilderEnds \/ Over \/ UNCHANGED vars
  BY <1>9, <1>14 DEF BuilderEnds, Over, vars, Quiet
<1> QED
  BY <1>1, <1>2, <1>3, <1>4, <1>5, <1>6, <1>7, <1>8, <1>10, <1>11, <1>12, <1>13, <1>14
     DEF Next, Goroutine, Framework

-----------------------------------------------------------------------------
(* The frame of the stream and the model events in it                      *)

LEMMA StreamTyped == TypeOK => Stream \in Seq(Event)
BY ConcatProperties DEF TypeOK, Stream

LEMMA AppendedFacts ==
  ASSUME TypeOK, NEW e, Appends(e)
  PROVE  /\ Len(Stream) \in Nat /\ Len(Stream') = Len(Stream) + 1
         /\ DOMAIN Stream = 1 .. Len(Stream) /\ DOMAIN Stream' = 1 .. Len(Stream) + 1
         /\ Stream'[Len(Stream) + 1] = e
         /\ \A i \in 1 .. Len(Stream) : Stream'[i] = Stream[i]
         /\ Stream' # <<>>
<1>1. Stream \in Seq(Event) /\ e \in Event /\ Stream' = Append(Stream, e)
  BY StreamTyped DEF Appends
<1> QED BY <1>1, AppendProperties, LenProperties

(* Where the stream stands in each stage. *)
NumberInv ==
  /\ fw.stage = "new" => Stream = <<>>
  /\ fw.stage \in {"new", "starting", "refused"} => norm.seq = 0
  /\ fw.stage = "starting" => Len(Stream) = 1
  /\ fw.stage = "refused" => Len(Stream) = 2 /\ Stream[2].id = 2
  /\ fw.stage \in Serving \cup {"closed"} =>
       /\ Len(Stream) = norm.seq + 1
       /\ norm.seq > 0 => Stream[Len(Stream)].id = norm.seq
  /\ fw.stage \notin {"over", "ended"} => \A i \in DOMAIN Stream : Stream[i].type # "run_end"
  /\ fw.stage \in {"over", "ended"} =>
       Stream # <<>> /\ Stream[Len(Stream)].type = "run_end"
  /\ fw.stage # "new" => Stream # <<>>

StreamInv == TypeOK /\ FrameInv /\ NumberInv /\ Framed /\ ModelEventsAlternate

LEMMA InitStream == Init => StreamInv
<1> SUFFICES ASSUME Init PROVE StreamInv
  OBVIOUS
<1>1. Stream = <<>> /\ Len(Stream) = 0 /\ DOMAIN Stream = {}
  BY EmptySeq, ConcatEmptySeq DEF Init, Stream
<1>2. TypeOK
  BY InitTyped
<1>3. FrameInv /\ NumberInv
  BY <1>1 DEF Init, FrameInv, NumberInv, NoFrame, Ready, Serving
<1>4. Framed /\ ModelEventsAlternate
  BY <1>1 DEF Init, Framed, ModelEventsAlternate
<1> QED BY <1>2, <1>3, <1>4 DEF StreamInv

LEMMA FramedEmits ==
  ASSUME StreamInv, NEW e, Emits(e)
  PROVE  NumberInv' /\ Framed'
<1>1. TypeOK /\ Appends(e)
  BY DEF StreamInv, Emits
<1>2. norm.seq \in Nat
  BY <1>1 DEF TypeOK, NormalizerType
<1>3. /\ Len(Stream) = norm.seq + 1 /\ norm'.seq = norm.seq + 1 /\ e.id = norm.seq + 1
      /\ norm.seq > 0 => Stream[Len(Stream)].id = norm.seq
      /\ \A i \in DOMAIN Stream : Stream[i].type # "run_end"
      /\ e.type # "run_end" /\ e.type # "run_start"
  BY DEF StreamInv, NumberInv, Emits, Serving, Emitted, ModelMarks
<1> DEFINE n == Len(Stream)
<1>4. /\ n \in Nat /\ Len(Stream') = n + 1
      /\ DOMAIN Stream = 1 .. n /\ DOMAIN Stream' = 1 .. n + 1
      /\ Stream'[n + 1] = e /\ \A i \in 1 .. n : Stream'[i] = Stream[i]
      /\ Stream' # <<>>
  BY <1>1, AppendedFacts
<1>5. fw'.stage \in Serving
  BY DEF Emits
<1>6. NumberInv'
  <2>1. /\ fw'.stage \notin {"new", "starting", "refused", "over", "ended"}
        /\ fw'.stage \in Serving \cup {"closed"}
    BY <1>5 DEF Serving
  <2>2. Len(Stream') = norm'.seq + 1 /\ Stream'[Len(Stream')].id = norm'.seq
    <3>1. n = norm.seq + 1 /\ norm'.seq = n /\ e.id = n
      BY <1>3
    <3> QED BY <1>4, <3>1
  <2>3. \A i \in DOMAIN Stream' : Stream'[i].type # "run_end"
    BY <1>3, <1>4
  <2> QED BY <1>4, <2>1, <2>2, <2>3 DEF NumberInv
<1>7. /\ \A i \in 1 .. n : Stream[i].type = "run_start" <=> i = 1
      /\ \A i \in 2 .. n - 1 : Stream[i + 1].id = Stream[i].id + 1
  BY <1>4 DEF StreamInv, Framed
<1>8. \A i \in 2 .. n : Stream'[i + 1].id = Stream'[i].id + 1
  <2> SUFFICES ASSUME NEW i \in 2 .. n PROVE Stream'[i + 1].id = Stream'[i].id + 1
    OBVIOUS
  <2>1. CASE i = n
    <3>1. n = norm.seq + 1 /\ norm.seq > 0 /\ Stream[n].id = norm.seq
      BY <1>2, <1>3, <1>4, <2>1
    <3>2. Stream'[n] = Stream[n]
      BY <1>4, <2>1
    <3>3. Stream'[n + 1].id = norm.seq + 1
      BY <1>3, <1>4
    <3>4. Stream'[n + 1].id = Stream'[n].id + 1
      BY <3>1, <3>2, <3>3
    <3> QED BY <2>1, <3>4
  <2>2. CASE i \in 2 .. n - 1
    BY <1>4, <1>7, <2>2
  <2>3. i = n \/ i \in 2 .. n - 1
    <3>1. n \in Nat
      BY <1>4
    <3> HIDE DEF n
    <3> QED BY <3>1
  <2> QED BY <2>1, <2>2, <2>3
<1>9. \A i \in 1 .. n + 1 : Stream'[i].type = "run_start" <=> i = 1
  BY <1>2, <1>3, <1>4, <1>7
<1>10. Framed'
  BY <1>3, <1>4, <1>5, <1>8, <1>9 DEF Framed, Serving
<1> QED BY <1>6, <1>10

LEMMA FramedMarks ==
  ASSUME StreamInv, NEW e, Marks(e)
  PROVE  NumberInv' /\ Framed'
<1>1. TypeOK /\ Appends(e)
  BY DEF StreamInv, Marks
<1>2. norm.seq \in Nat /\ norm' = norm
  BY <1>1 DEF TypeOK, NormalizerType, Marks
<1>3. CASE fw.stage = "new"
  <2>1. Len(Stream) = 0
    BY <1>3, EmptySeq DEF StreamInv, NumberInv
  <2>2. fw'.stage = "starting" /\ e.type = "run_start" /\ norm.seq = 0
    BY <1>3 DEF Marks, StreamInv, NumberInv
  <2> QED BY <1>1, <1>2, <2>1, <2>2, AppendedFacts DEF NumberInv, Framed, Serving
<1>4. CASE fw.stage = "starting"
  <2>1. Len(Stream) = 1 /\ norm.seq = 0
    BY <1>4 DEF StreamInv, NumberInv
  <2>2. fw'.stage = "refused" /\ e.type = "error" /\ e.id = 2
    BY <1>4 DEF Marks
  <2>3. NumberInv'
    BY <1>1, <1>2, <1>4, <2>1, <2>2, AppendedFacts DEF StreamInv, NumberInv, Serving
  <2>4. Framed'
    BY <1>1, <1>2, <1>4, <2>1, <2>2, AppendedFacts DEF StreamInv, NumberInv, Framed, Serving
  <2> QED BY <2>3, <2>4
<1>5. CASE fw.stage \in {"refused", "closed"}
  <2>1. fw'.stage = "over" /\ e.type = "run_end"
    BY <1>5 DEF Marks
  <2>2. /\ \A i \in DOMAIN Stream : Stream[i].type # "run_end"
        /\ Len(Stream) >= 2 => Stream[Len(Stream)].id + 1 = e.id
        /\ Stream # <<>> /\ Len(Stream) >= 1
    BY <1>2, <1>5 DEF Marks, StreamInv, NumberInv, Serving
  <2>3. NumberInv'
    BY <1>1, <2>1, AppendedFacts DEF NumberInv, Serving
  <2>4. Framed'
    BY <1>1, <2>1, <2>2, AppendedFacts DEF StreamInv, Framed
  <2> QED BY <2>3, <2>4
<1> QED BY <1>3, <1>4, <1>5 DEF Marks

(* ModelEventsAlternate of any events. *)
Alternates(s, open) ==
  /\ \A i, j \in DOMAIN s :
       i < j /\ s[i].type = s[j].type /\ s[i].type \in ModelMarks =>
         \E k \in i + 1 .. j - 1 : s[k].type \in ModelMarks \ {s[i].type}
  /\ \A j \in DOMAIN s :
       s[j].type = "model_end" => \E i \in 1 .. j - 1 : s[i].type = "model_start"
  /\ open <=> \E i \in DOMAIN s :
       s[i].type = "model_start" /\ \A k \in i + 1 .. Len(s) : s[k].type # "model_end"

LEMMA AlternatesAppended ==
  ASSUME NEW s, NEW t, NEW n \in Nat, NEW open \in BOOLEAN, NEW open2 \in BOOLEAN,
         Len(s) = n, DOMAIN s = 1 .. n, Len(t) = n + 1, DOMAIN t = 1 .. n + 1,
         \A i \in 1 .. n : t[i] = s[i],
         Alternates(s, open),
         \/ t[n + 1].type = "model_start" /\ ~open /\ open2
         \/ t[n + 1].type = "model_end" /\ open /\ ~open2
         \/ t[n + 1].type \notin ModelMarks /\ open2 = open
  PROVE  Alternates(t, open2)
<1> DEFINE new == t[n + 1].type
<1>1. /\ \A i, j \in 1 .. n :
            i < j /\ t[i].type = t[j].type /\ t[i].type \in ModelMarks =>
              \E k \in i + 1 .. j - 1 : t[k].type \in ModelMarks \ {t[i].type}
      /\ \A j \in 1 .. n :
            t[j].type = "model_end" => \E i \in 1 .. j - 1 : t[i].type = "model_start"
      /\ open <=> \E i \in 1 .. n :
            t[i].type = "model_start" /\ \A k \in i + 1 .. n : t[k].type # "model_end"
  <2>1. \A i, j \in 1 .. n :
          i < j /\ t[i].type = t[j].type /\ t[i].type \in ModelMarks =>
            \E k \in i + 1 .. j - 1 : t[k].type \in ModelMarks \ {t[i].type}
    BY DEF Alternates
  <2>2. \A j \in 1 .. n :
          t[j].type = "model_end" => \E i \in 1 .. j - 1 : t[i].type = "model_start"
    BY DEF Alternates
  <2>3. open <=> \E i \in 1 .. n :
          t[i].type = "model_start" /\ \A k \in i + 1 .. n : t[k].type # "model_end"
    BY DEF Alternates
  <2> QED BY <2>1, <2>2, <2>3
<1>2. ASSUME NEW i \in 1 .. n, t[i].type = new, new \in ModelMarks
      PROVE  \E k \in i + 1 .. n : t[k].type \in ModelMarks \ {new}
  <2>1. CASE new = "model_start" /\ ~open
    BY <1>1, <1>2, <2>1 DEF ModelMarks
  <2>2. CASE new = "model_end" /\ open
    <3>1. PICK m \in 1 .. n : /\ t[m].type = "model_start"
                              /\ \A k \in m + 1 .. n : t[k].type # "model_end"
      BY <1>1, <2>2
    <3>2. i < m
      BY <1>2, <2>2, <3>1
    <3> QED BY <2>2, <3>1, <3>2 DEF ModelMarks
  <2> QED BY <1>2, <2>1, <2>2 DEF ModelMarks
<1>3. new = "model_end" => \E i \in 1 .. n : t[i].type = "model_start"
  BY <1>1 DEF ModelMarks
<1>4. open2 <=> \E i \in 1 .. n + 1 :
        t[i].type = "model_start" /\ \A k \in i + 1 .. n + 1 : t[k].type # "model_end"
  <2>1. CASE new = "model_start" /\ open2
    <3>1. n + 1 \in 1 .. n + 1 /\ (n + 1) + 1 .. n + 1 = {}
      OBVIOUS
    <3>2. \A k \in (n + 1) + 1 .. n + 1 : t[k].type # "model_end"
      BY <3>1
    <3> QED BY <2>1, <3>1, <3>2
  <2>2. CASE new = "model_end" /\ ~open2
    <3>1. \A i \in 1 .. n + 1 : t[i].type = "model_start" => n + 1 \in i + 1 .. n + 1
      BY <2>2
    <3> QED BY <2>2, <3>1
  <2>3. CASE new \notin ModelMarks /\ open2 = open
    <3>1. \A i \in 1 .. n : (\A k \in i + 1 .. n + 1 : t[k].type # "model_end")
                           <=> (\A k \in i + 1 .. n : t[k].type # "model_end")
      BY <2>3 DEF ModelMarks
    <3>2. t[n + 1].type # "model_start"
      BY <2>3 DEF ModelMarks
    <3>3. (\E i \in 1 .. n + 1 :
             t[i].type = "model_start" /\ \A k \in i + 1 .. n + 1 : t[k].type # "model_end")
          <=> \E i \in 1 .. n :
             t[i].type = "model_start" /\ \A k \in i + 1 .. n : t[k].type # "model_end"
      <4>1. \A i \in 1 .. n + 1 : i \in 1 .. n \/ i = n + 1
        OBVIOUS
      <4>2. \A i \in 1 .. n : i \in 1 .. n + 1
        OBVIOUS
      <4> QED BY <3>1, <3>2, <4>1, <4>2, Zenon
    <3>4. open2 <=> open
      BY <2>3
    <3> QED BY <1>1, <3>3, <3>4, Zenon
  <2> QED BY <2>1, <2>2, <2>3
<1>5. \A i, j \in 1 .. n + 1 :
        i < j /\ t[i].type = t[j].type /\ t[i].type \in ModelMarks =>
          \E k \in i + 1 .. j - 1 : t[k].type \in ModelMarks \ {t[i].type}
  <2> SUFFICES ASSUME NEW i \in 1 .. n + 1, NEW j \in 1 .. n + 1,
                      i < j, t[i].type = t[j].type, t[i].type \in ModelMarks
               PROVE  \E k \in i + 1 .. j - 1 : t[k].type \in ModelMarks \ {t[i].type}
    OBVIOUS
  <2>1. CASE j = n + 1
    BY <1>2, <2>1
  <2>2. CASE j \in 1 .. n
    BY <1>1, <2>2
  <2> QED BY <2>1, <2>2
<1>6. \A j \in 1 .. n + 1 :
        t[j].type = "model_end" => \E i \in 1 .. j - 1 : t[i].type = "model_start"
  <2> SUFFICES ASSUME NEW j \in 1 .. n + 1, t[j].type = "model_end"
               PROVE  \E i \in 1 .. j - 1 : t[i].type = "model_start"
    OBVIOUS
  <2>1. CASE j = n + 1
    BY <1>3, <2>1
  <2>2. CASE j \in 1 .. n
    BY <1>1, <2>2
  <2> QED BY <2>1, <2>2
<1> QED BY <1>4, <1>5, <1>6 DEF Alternates

LEMMA AlternateSends ==
  ASSUME StreamInv, TypeOK', NEW e, Emits(e) \/ Marks(e)
  PROVE  ModelEventsAlternate'
<1>1. TypeOK /\ Appends(e)
  BY DEF StreamInv, Emits, Marks
<1> DEFINE n == Len(Stream)
<1>2. /\ n \in Nat /\ Len(Stream') = n + 1
      /\ DOMAIN Stream = 1 .. n /\ DOMAIN Stream' = 1 .. n + 1
      /\ Stream'[n + 1] = e /\ \A i \in 1 .. n : Stream'[i] = Stream[i]
  BY <1>1, AppendedFacts
<1>3. norm.inModel \in BOOLEAN /\ norm'.inModel \in BOOLEAN
  BY <1>1 DEF TypeOK, NormalizerType
<1>4. Alternates(Stream, norm.inModel)
  BY DEF StreamInv, ModelEventsAlternate, Alternates
<1>5. \/ e.type = "model_start" /\ ~norm.inModel /\ norm'.inModel
      \/ e.type = "model_end" /\ norm.inModel /\ ~norm'.inModel
      \/ e.type \notin ModelMarks /\ norm'.inModel = norm.inModel
  BY DEF Emits, Marks, ModelMarks
<1>6. Alternates(Stream', norm'.inModel)
  <2> HIDE DEF n
  <2> QED BY <1>2, <1>3, <1>4, <1>5, AlternatesAppended DEF n
<1> QED BY <1>6 DEF ModelEventsAlternate, Alternates

LEMMA StreamStep == StreamInv /\ [Next]_vars => StreamInv'
<1> SUFFICES ASSUME StreamInv, [Next]_vars PROVE StreamInv'
  OBVIOUS
<1>1. TypeOK' /\ FrameInv'
  BY TypeStep, FrameStep DEF StreamInv
<1>2. CASE Quiet
  <2>1. NumberInv'
    <3>1. NumberInv /\ Stream' = Stream /\ norm'.seq = norm.seq
      BY <1>2 DEF Quiet, StreamInv
    <3>2. Len(Stream) = 1 => Stream # <<>>
      BY EmptySeq
    <3>3. CASE fw'.stage = fw.stage
      BY <3>1, <3>3 DEF NumberInv
    <3>4. CASE fw.stage \in Serving /\ fw'.stage \in Serving \cup {"closed"}
      BY <3>1, <3>4 DEF NumberInv, Serving
    <3>5. CASE fw.stage = "starting" /\ fw'.stage = "idle"
      BY <3>1, <3>2, <3>5 DEF NumberInv, Serving
    <3>6. CASE fw.stage = "over" /\ fw'.stage = "ended"
      BY <3>1, <3>6 DEF NumberInv, Serving
    <3> QED BY <1>2, <3>3, <3>4, <3>5, <3>6 DEF Quiet
  <2>2. Framed'
    BY <1>2 DEF Quiet, StreamInv, NumberInv, Framed, Serving
  <2>3. ModelEventsAlternate'
    BY <1>2 DEF Quiet, StreamInv, ModelEventsAlternate
  <2> QED BY <1>1, <2>1, <2>2, <2>3 DEF StreamInv
<1>3. CASE \E e : Emits(e)
  BY <1>1, <1>3, FramedEmits, AlternateSends DEF StreamInv
<1>4. CASE \E e : Marks(e)
  BY <1>1, <1>4, FramedMarks, AlternateSends DEF StreamInv
<1> QED BY <1>2, <1>3, <1>4, StepShape DEF StreamInv

\* The stream of every run begins with run_start, ends with run_end and is numbered in order.
THEOREM StreamIsFramed == Spec => []Framed
<1>1. StreamInv => Framed
  BY DEF StreamInv
<1> QED BY <1>1, InitStream, StreamStep, PTL DEF Spec

\* Model calls begin and end in turn, whatever shapes they come in and whatever errors cut them off.
THEOREM ModelEventsPaired == Spec => []ModelEventsAlternate
<1>1. StreamInv => ModelEventsAlternate
  BY DEF StreamInv
<1> QED BY <1>1, InitStream, StreamStep, PTL DEF Spec

-----------------------------------------------------------------------------
(* The tool events in the stream                                           *)

Asked     == ToSet(fw.asked)
Todo      == ToSet(frame.todo)
Due       == IF frame.named THEN Todo ELSE {}
Hidden    == {fw.asked[i] : i \in fw.shown + 1 .. Len(fw.asked)}
Streaming == fw.stage \in {"calling", "streaming"}
Started   == {Stream[i].call : i \in {k \in DOMAIN Stream : Stream[k].type = "tool_start"}}

(* Where the tool calls of the answers stand.  A call of the current answer is hidden until a  *)
(* frame announces it with its name, then it is due, then it is started; only a completion     *)
(* announces calls that are started already, and leaves out those that a delta without the     *)
(* name has marked.                                                                            *)
AskInv ==
  /\ IsInjective(fw.asked) /\ IsInjective(frame.todo)
  /\ Started \cup Asked \subseteq fw.used /\ Todo \subseteq Asked
  /\ frame.kind \in {"chunk", "done"} => Todo \cap Started = {}
  /\ frame.kind = "completion" => ~Streaming
  /\ ~frame.named => Todo \subseteq seen.nameless
  /\ Streaming => /\ fw.shown =< Len(fw.asked)
                  /\ Hidden \cap (Started \cup Due) = {}
                  /\ Asked \subseteq Hidden \cup Started \cup Due
  /\ seen.settled \subseteq Started \cup Due \cup seen.nameless
  /\ fw.waiting \subseteq seen.settled \cap Asked
  /\ fw.stage = "tools" \/ fw.waiting = {}

(* The normalizer has marked the started calls with an id, and at most those besides of which  *)
(* a delta came without the name.  It knows the name of every started call with an id, and,    *)
(* when answers ask for one call at a time, that of the current one without.                   *)
NameInv ==
  /\ Started \cap Identified \subseteq norm.seenToolIDs
  /\ norm.seenToolIDs \subseteq Started \cup seen.nameless
  /\ \A t \in Started \cap Identified : norm.toolNames[t] = t
  /\ ~seen.parallel =>
       /\ \A t, u \in Asked : t = u
       /\ \A t \in (Asked \cap Started) \ Identified : norm.toolNames[None] = t

ToolInv == TypeOK /\ FrameInv /\ AskInv /\ NameInv

LEMMA ToSetEmpty == ToSet(<<>>) = {}
BY DEF ToSet

LEMMA InitTools == Init => ToolInv
<1> SUFFICES ASSUME Init PROVE ToolInv
  OBVIOUS
<1>1. Stream = <<>> /\ DOMAIN Stream = {}
  BY EmptySeq, ConcatEmptySeq DEF Init, Stream
<1>2. Started = {}
  BY <1>1 DEF Started
<1>3. Asked = {} /\ Todo = {} /\ Due = {}
  BY ToSetEmpty DEF Init, Asked, Todo, Due, NoFrame
<1>4. IsInjective(fw.asked) /\ IsInjective(frame.todo)
  BY DEF Init, NoFrame, IsInjective
<1>5. AskInv
  BY <1>2, <1>3, <1>4 DEF Init, AskInv, Streaming, NoFrame
<1>6. NameInv
  BY <1>2, <1>3 DEF Init, NameInv
<1> QED BY <1>5, <1>6, InitStream DEF StreamInv, ToolInv

\* What is appended to the stream starts a tool or leaves the started ones alone.
LEMMA StartedAppended ==
  ASSUME TypeOK, NEW e, Appends(e)
  PROVE  Started' = IF e.type = "tool_start" THEN Started \cup {e.call} ELSE Started
<1> DEFINE n == Len(Stream)
<1>1. /\ n \in Nat /\ DOMAIN Stream = 1 .. n /\ DOMAIN Stream' = 1 .. n + 1
      /\ Stream'[n + 1] = e /\ \A i \in 1 .. n : Stream'[i] = Stream[i]
  BY AppendedFacts
<1>2. 1 .. n + 1 = (1 .. n) \cup {n + 1}
  BY <1>1
<1> HIDE DEF n
<1>3. Started = {Stream[i].call : i \in {k \in 1 .. n : Stream[k].type = "tool_start"}}
  BY <1>1 DEF Started
<1>4. Started' = {Stream'[i].call : i \in {k \in (1 .. n) \cup {n + 1} : Stream'[k].type = "tool_start"}}
  BY <1>1, <1>2 DEF Started
<1> QED BY <1>1, <1>3, <1>4

\* Every step but a tool's start and end leaves the tool events of the stream alone.
OtherEvent == \/ Stream' = Stream
              \/ \E e : Appends(e) /\ e.type \notin {"tool_start", "tool_end"}

LEMMA OtherEvents ==
  ASSUME TypeOK, [Next]_vars, ~StartTool, ~ToolResponds
  PROVE  OtherEvent
<1>n. norm.seq + 1 \in Nat /\ norm.content + frame.text \in Nat /\ Tokens \in Nat
  <2>1. norm.seq \in Nat /\ norm.content \in Nat /\ norm.tokens \in Nat
    BY DEF TypeOK, NormalizerType
  <2>2. frame.text \in {0, 1} /\ frame.usage \in Nat
    BY DEF TypeOK, FrameType
  <2> QED BY <2>1, <2>2 DEF Tokens
<1>1. ASSUME NEW type \in {"run_start", "run_end", "error", "model_start"}, NEW k \in Nat,
             Send(RunEvent(type, k)), trace' = trace
      PROVE  OtherEvent
  <2>1. Appends(RunEvent(type, k))
    BY <1>1, EventsTyped, SendAppends DEF ModelMarks
  <2> QED BY <2>1 DEF OtherEvent, RunEvent
<1>2. CASE Start \/ OpenCall \/ RunEnds \/ StartRefused \/ FrameworkError
  BY <1>1, <1>2, <1>n DEF Start, OpenCall, RunEnds, StartRefused, FrameworkError, Numbered
<1>3. CASE EndCall
  <2> DEFINE e == [Numbered("model_end") EXCEPT !.tokens = Tokens, !.text = norm.content + frame.text]
  <2>1. e \in Event /\ e.type = "model_end"
    BY <1>n, StreamAssumption DEF Numbered, RunEvent, Event, ModelMarks
  <2>2. Appends(e)
    BY <1>3, <2>1, SendAppends DEF EndCall
  <2> QED BY <2>1, <2>2 DEF OtherEvent
<1>4. CASE BuilderReceives
  BY <1>4, ReceiveKeeps DEF OtherEvent
<1>5. CASE \/ SkipTool \/ EndChunk \/ CloseOut \/ AgentStarts \/ BeginCall \/ Chunk
           \/ NamelessChunk \/ LastChunk \/ Completion \/ StreamClosed \/ BuilderEnds \/ Over \/ UNCHANGED vars
  <2>1. UNCHANGED <<out, trace>>
    BY <1>5 DEF SkipTool, EndChunk, CloseOut, AgentStarts, BeginCall, Chunk, NamelessChunk,
       LastChunk, Completion, StreamClosed, BuilderEnds, Over, vars
  <2> QED BY <2>1 DEF OtherEvent, Stream
<1> QED BY <1>2, <1>3, <1>4, <1>5 DEF Next, Goroutine, Framework

\* A step that announces nothing and starts nothing.
LEMMA OthersKeep ==
  ASSUME AskInv, NameInv, Started' = Started,
         frame' = frame \/ (frame.todo = <<>> /\ frame' = NoFrame),
         \/ fw'.asked = fw.asked /\ fw'.shown = fw.shown
         \/ fw'.asked = <<>> /\ ~Streaming' /\ fw'.waiting = {} /\ Todo = {},
         fw'.used = fw.used,
         fw'.stage \in {"calling", "streaming"} => fw'.stage = fw.stage,
         fw'.waiting \subseteq fw.waiting,
         fw'.stage = "tools" \/ fw'.waiting = {},
         norm'.toolNames = norm.toolNames, norm'.seenToolIDs = norm.seenToolIDs, seen' = seen
  PROVE  AskInv' /\ NameInv'
<1>1. frame'.todo = frame.todo /\ frame'.kind \in {frame.kind, "none"} /\ Todo' = Todo
  BY DEF NoFrame, Todo
<1>2. /\ Due' = Due
      /\ ~frame'.named => ~frame.named
  <2>1. CASE frame' = frame
    BY <2>1 DEF Due, Todo
  <2>2. CASE frame.todo = <<>> /\ frame' = NoFrame
    BY <1>1, <2>2, ToSetEmpty DEF Due, Todo, NoFrame
  <2> QED BY <2>1, <2>2
<1>3. Streaming' => Streaming
  BY DEF Streaming
<1>4. CASE fw'.asked = fw.asked /\ fw'.shown = fw.shown
  <2>1. Asked' = Asked /\ Hidden' = Hidden
    BY <1>4 DEF Asked, Hidden
  <2>2. AskInv'
    BY <1>1, <1>2, <1>3, <1>4, <2>1 DEF AskInv
  <2> QED BY <2>1, <2>2 DEF NameInv
<1>5. CASE fw'.asked = <<>> /\ ~Streaming' /\ fw'.waiting = {} /\ Todo = {}
  <2>1. Asked' = {} /\ IsInjective(fw'.asked)
    BY <1>5, ToSetEmpty DEF Asked, IsInjective
  <2>2. AskInv'
    BY <1>1, <1>2, <1>5, <2>1 DEF AskInv
  <2> QED BY <2>1, <2>2 DEF NameInv
<1> QED BY <1>4, <1>5

LEMMA OthersStep ==
  ASSUME ToolInv, [Next]_vars, ~StartTool, ~SkipTool,
         ~BeginCall, ~Chunk, ~NamelessChunk, ~LastChunk, ~Completion
  PROVE  AskInv' /\ NameInv'
<1> USE DEF ToolInv
<1>t. fw \in FrameworkType /\ norm \in NormalizerType
  BY DEF TypeOK
<1>1. Started' = Started
  <2>1. CASE ToolResponds
    <3> PICK t \in fw.waiting :
          Send([Numbered("tool_end") EXCEPT !.call = NameOf(IdOf(t)), !.of = t])
      BY <2>1 DEF ToolResponds
    <3> DEFINE e == [Numbered("tool_end") EXCEPT !.call = NameOf(IdOf(t)), !.of = t]
    <3>1. norm.seq + 1 \in Nat
      BY <1>t DEF NormalizerType
    <3>2. t \in Tool /\ NameOf(IdOf(t)) \in Tool \cup {None}
      BY <1>t, StreamAssumption DEF FrameworkType, IdOf, Ids, NameOf, NormalizerType
    <3>3. e \in Event /\ e.type = "tool_end"
      BY <3>1, <3>2 DEF Numbered, RunEvent, Event
    <3>4. Appends(e)
      BY <2>1, <3>3, SendAppends DEF ToolResponds
    <3> QED BY <3>3, <3>4, StartedAppended
  <2>2. CASE ~ToolResponds
    <3>1. CASE Stream' = Stream
      BY <3>1 DEF Started
    <3>2. CASE \E e : Appends(e) /\ e.type \notin {"tool_start", "tool_end"}
      BY <3>2, StartedAppended
    <3> QED BY <2>2, <3>1, <3>2, OtherEvents DEF OtherEvent
  <2> QED BY <2>1, <2>2
<1>2. /\ frame' = frame \/ (frame.todo = <<>> /\ frame' = NoFrame)
      /\ norm'.toolNames = norm.toolNames /\ norm'.seenToolIDs = norm.seenToolIDs
      /\ seen' = seen
  BY <1>t DEF Next, Goroutine, Framework, Start, OpenCall, EndChunk, EndCall, RunEnds, CloseOut,
     StartRefused, AgentStarts, ToolResponds, FrameworkError, StreamClosed, BuilderReceives,
     BuilderEnds, Over, vars, NormalizerType
<1>3. /\ \/ fw'.asked = fw.asked /\ fw'.shown = fw.shown
         \/ fw'.asked = <<>> /\ ~Streaming' /\ fw'.waiting = {} /\ Todo = {}
      /\ fw'.used = fw.used
      /\ fw'.stage \in {"calling", "streaming"} => fw'.stage = fw.stage
      /\ fw'.waiting \subseteq fw.waiting
      /\ fw'.stage = "tools" \/ fw'.waiting = {}
  <2>0. fw.stage = "tools" \/ fw.waiting = {}
    BY DEF AskInv
  <2>1. CASE UNCHANGED fw
    BY <2>0, <2>1
  <2>2. CASE Start \/ RunEnds \/ CloseOut \/ StartRefused \/ AgentStarts
    BY <1>t, <2>0, <2>2
       DEF Start, RunEnds, CloseOut, StartRefused, AgentStarts, FrameworkType
  <2>3. CASE FrameworkError \/ StreamClosed
    <3>1. Todo = {}
      BY <2>3, ToSetEmpty DEF FrameworkError, StreamClosed, FrameInv, Todo
    <3>2. /\ fw'.asked = <<>> /\ fw'.waiting = {} /\ fw'.used = fw.used
          /\ fw'.stage \in {"idle", "closed"}
      BY <1>t, <2>3 DEF FrameworkError, StreamClosed, Dropped, FrameworkType
    <3> QED BY <3>1, <3>2 DEF Streaming
  <2>4. CASE ToolResponds
    BY <1>t, <2>4 DEF ToolResponds, FrameworkType
  <2> QED BY <2>1, <2>2, <2>3, <2>4
          DEF Next, Goroutine, Framework, OpenCall, EndChunk, EndCall, BuilderReceives,
              BuilderEnds, Over, vars
<1> QED BY <1>1, <1>2, <1>3, OthersKeep

\* The first call that is to do, and the others.
LEMMA HeadOfTodo ==
  ASSUME TypeOK, frame.todo # <<>>, frame' = [frame EXCEPT !.todo = Tail(@)],
         IsInjective(frame.todo)
  PROVE  /\ Head(frame.todo) \in Tool
         /\ Todo = {Head(frame.todo)} \cup Todo' /\ Head(frame.todo) \notin Todo'
         /\ IsInjective(frame'.todo) /\ frame'.kind = frame.kind
<1> DEFINE s == frame.todo
           n == Len(s)
<1>1. s \in Seq(Tool) /\ s # <<>> /\ frame'.todo = Tail(s) /\ frame'.kind = frame.kind
  BY DEF TypeOK, FrameType
<1>2. /\ Head(s) \in Tool /\ Tail(s) \in Seq(Tool)
      /\ Len(Tail(s)) = n - 1 /\ \A i \in 1 .. n - 1 : Tail(s)[i] = s[i + 1]
      /\ Head(s) = s[1]
  BY <1>1, HeadTailProperties
<1>3. n \in Nat \ {0} /\ DOMAIN s = 1 .. n /\ DOMAIN Tail(s) = 1 .. n - 1
  BY <1>1, <1>2, LenProperties, EmptySeq
<1>4. \A i, j \in 1 .. n : s[i] = s[j] => i = j
  BY <1>3 DEF IsInjective
<1>5. Todo = {s[i] : i \in 1 .. n} /\ Todo' = {Tail(s)[i] : i \in 1 .. n - 1}
  BY <1>1, <1>3 DEF Todo, ToSet
<1> HIDE DEF s, n
<1>6. \A i \in 1 .. n : i = 1 \/ (i - 1 \in 1 .. n - 1 /\ s[i] = Tail(s)[i - 1])
  BY <1>2, <1>3
<1>7. Todo \subseteq {Head(s)} \cup Todo'
  BY <1>2, <1>5, <1>6
<1>8. {Head(s)} \cup Todo' \subseteq Todo
  BY <1>2, <1>3, <1>5
<1>9. Head(s) \notin Todo'
  <2>1. \A i \in 1 .. n - 1 : i + 1 \in 1 .. n /\ 1 \in 1 .. n /\ i + 1 # 1
    BY <1>3
  <2> QED BY <1>2, <1>4, <1>5, <2>1
<1>10. IsInjective(Tail(s))
  <2> SUFFICES ASSUME NEW i \in 1 .. n - 1, NEW j \in 1 .. n - 1, Tail(s)[i] = Tail(s)[j]
               PROVE  i = j
    BY <1>3 DEF IsInjective
  <2>1. i + 1 \in 1 .. n /\ j + 1 \in 1 .. n /\ s[i + 1] = s[j + 1]
    BY <1>2, <1>3
  <2> QED BY <1>4, <2>1
<1> QED BY <1>1, <1>2, <1>7, <1>8, <1>9, <1>10 DEF s

LEMMA SkipStep ==
  ASSUME ToolInv, SkipTool
  PROVE  AskInv' /\ NameInv'
<1> USE DEF ToolInv
<1> DEFINE t == Head(frame.todo)
<1>1. /\ frame.todo # <<>> /\ frame' = [frame EXCEPT !.todo = Tail(@)]
      /\ UNCHANGED <<fw, out, trace, seen>>
      /\ frame.named => IsRepeated(t) /\ norm' = norm
      /\ ~frame.named => norm' = [norm EXCEPT !.seenToolIDs = Mark(t)]
  BY DEF SkipTool
<1>2. /\ t \in Tool /\ Todo = {t} \cup Todo' /\ t \notin Todo'
      /\ IsInjective(frame'.todo) /\ frame'.kind = frame.kind
  BY <1>1, HeadOfTodo DEF AskInv
<1>3. frame'.named = frame.named
  BY <1>1 DEF TypeOK, FrameType
<1>4. Started' = Started /\ Asked' = Asked /\ Hidden' = Hidden /\ (Streaming' <=> Streaming)
  BY <1>1 DEF Started, Stream, Asked, Hidden, Streaming
<1>5. /\ norm'.toolNames = norm.toolNames
      /\ frame.named => norm'.seenToolIDs = norm.seenToolIDs
      /\ ~frame.named => norm'.seenToolIDs = norm.seenToolIDs \cup ({t} \cap Identified)
  BY <1>1 DEF TypeOK, NormalizerType, Mark
<1>6. frame.named => t \in Started \cup seen.nameless /\ frame.kind = "completion"
  BY <1>1, <1>2, StreamAssumption DEF IsRepeated, IdOf, NameInv, TypeOK, NormalizerType
<1>7. ~frame.named => t \in seen.nameless
  BY <1>2 DEF AskInv
<1> HIDE DEF t
<1>8. AskInv'
  <2>1. CASE frame.named
    <3>1. Due = {t} \cup Due'
      BY <1>2, <1>3, <2>1 DEF Due
    <3> QED BY <1>1, <1>2, <1>3, <1>4, <1>6, <2>1, <3>1 DEF AskInv
  <2>2. CASE ~frame.named
    <3>1. Due = {} /\ Due' = {}
      BY <1>3, <2>2 DEF Due
    <3> QED BY <1>1, <1>2, <1>3, <1>4, <2>2, <3>1 DEF AskInv
  <2> QED BY <2>1, <2>2
<1>9. NameInv'
  BY <1>1, <1>4, <1>5, <1>7 DEF NameInv
<1> QED BY <1>8, <1>9

LEMMA StartToolEvent ==
  ASSUME ToolInv, StartTool
  PROVE  Appends(StartEvent(Head(frame.todo)))
<1>1. Head(frame.todo) \in Tool
  BY HeadTailProperties DEF ToolInv, StartTool, TypeOK, FrameType
<1>2. norm.seq + 1 \in Nat
  BY DEF ToolInv, TypeOK, NormalizerType
<1>3. StartEvent(Head(frame.todo)) \in Event
  BY <1>1, <1>2, StreamAssumption DEF StartEvent, Numbered, RunEvent, Event
<1> QED BY <1>3, SendAppends DEF ToolInv, StartTool

LEMMA StartToolStep ==
  ASSUME ToolInv, StartTool
  PROVE  /\ AskInv' /\ NameInv'
         /\ Head(frame.todo) \in Identified => Head(frame.todo) \notin Started
<1> USE DEF ToolInv
<1> DEFINE t == Head(frame.todo)
<1>1. /\ frame.todo # <<>> /\ frame.named /\ frame' = [frame EXCEPT !.todo = Tail(@)]
      /\ ~IsRepeated(t) /\ UNCHANGED <<fw, seen>>
      /\ norm' = [norm EXCEPT !.seq = @ + 1, !.toolNames[IdOf(t)] = t,
                              !.seenToolIDs = Mark(t), !.lastToolName = t]
  BY DEF StartTool
<1>2. /\ t \in Tool /\ Todo = {t} \cup Todo' /\ t \notin Todo'
      /\ IsInjective(frame'.todo) /\ frame'.kind = frame.kind
  BY <1>1, HeadOfTodo DEF AskInv
<1>3. Started' = Started \cup {t}
  <2> DEFINE e == StartEvent(t)
  <2>1. Appends(e)
    BY StartToolEvent
  <2>2. e.type = "tool_start" /\ e.call = t
    BY DEF StartEvent, Numbered, RunEvent
  <2> HIDE DEF e
  <2> QED BY <2>1, <2>2, StartedAppended
<1>4. /\ Asked' = Asked /\ Hidden' = Hidden /\ (Streaming' <=> Streaming)
      /\ Due = Todo /\ Due' = Todo' /\ frame'.named
  BY <1>1 DEF Asked, Hidden, Streaming, Due, TypeOK, FrameType
<1>5. norm \in NormalizerType /\ None \notin Identified
  BY StreamAssumption DEF TypeOK
<1>6. norm'.seenToolIDs = norm.seenToolIDs \cup ({t} \cap Identified)
  BY <1>1, <1>5 DEF NormalizerType, Mark
<1>7. IdOf(t) \in Ids /\ norm'.toolNames = [norm.toolNames EXCEPT ![IdOf(t)] = t]
  BY <1>1, <1>5 DEF NormalizerType, IdOf, Ids
<1> HIDE DEF t
<1>8. AskInv'
  BY <1>1, <1>2, <1>3, <1>4 DEF AskInv
<1>9. NameInv'
  <2>1. /\ Started' \cap Identified \subseteq norm'.seenToolIDs
        /\ norm'.seenToolIDs \subseteq Started' \cup seen'.nameless
    BY <1>1, <1>3, <1>6 DEF NameInv
  <2>2. norm.toolNames \in [Ids -> Tool \cup {None}]
    BY <1>5 DEF NormalizerType
  <2>3. \A u \in Started' \cap Identified : norm'.toolNames[u] = u
    <3> SUFFICES ASSUME NEW u \in Started' \cap Identified PROVE norm'.toolNames[u] = u
      OBVIOUS
    <3>1. u \in Identified /\ u \in Ids /\ (u = t \/ u \in Started)
      BY <1>3 DEF Ids
    <3>2. CASE u = t
      BY <1>7, <2>2, <3>1, <3>2 DEF IdOf
    <3>3. CASE u # t
      <4>1. IdOf(t) # u
        BY <1>5, <3>1, <3>3 DEF IdOf
      <4> QED BY <1>7, <2>2, <3>1, <3>3, <4>1 DEF NameInv
    <3> QED BY <3>2, <3>3
  <2>4. ASSUME ~seen.parallel
        PROVE  /\ \A a, b \in Asked : a = b
               /\ \A u \in (Asked \cap Started') \ Identified : norm'.toolNames[None] = u
    <3>1. (\A a, b \in Asked : a = b) /\ t \in Asked
      BY <1>2, <2>4 DEF NameInv, AskInv
    <3>2. ASSUME NEW u \in (Asked \cap Started') \ Identified PROVE norm'.toolNames[None] = u
      <4>1. u = t /\ t \notin Identified
        BY <3>1, <3>2
      <4>2. IdOf(t) = None
        BY <4>1 DEF IdOf
      <4> QED BY <1>7, <2>2, <4>1, <4>2
    <3> QED BY <3>1, <3>2
  <2> QED BY <1>1, <1>4, <2>1, <2>3, <2>4 DEF NameInv
<1>10. ASSUME t \in Identified PROVE t \notin Started
  <2>1. CASE frame.kind \in {"chunk", "done"}
    BY <1>2, <2>1 DEF AskInv
  <2>2. CASE frame.kind = "completion"
    BY <1>1, <1>10, <2>2 DEF IsRepeated, IdOf, NameInv
  <2>3. frame.kind \in {"chunk", "done", "completion"}
    BY <1>1 DEF TypeOK, FrameType, FrameInv, Ready
  <2> QED BY <2>1, <2>2, <2>3
<1> QED BY <1>8, <1>9, <1>10 DEF t

\* What a frame announces: the calls up to the n-th that were hidden.
LEMMA AnnouncedSet ==
  ASSUME TypeOK, IsInjective(fw.asked), NEW n \in fw.shown .. Len(fw.asked)
  PROVE  /\ ToSet(Announced(n)) = {fw.asked[i] : i \in fw.shown + 1 .. n}
         /\ IsInjective(Announced(n))
<1> DEFINE a == fw.asked
           m == fw.shown
           s == Announced(n)
<1>1. a \in Seq(Tool) /\ m \in Nat /\ Len(a) \in Nat /\ DOMAIN a = 1 .. Len(a) /\ n \in Nat
  BY LenProperties DEF TypeOK, FrameworkType
<1>2. \A i \in 1 .. Len(a) : a[i] \in Tool
  BY <1>1, ElementOfSeq
<1>3. \A i, j \in 1 .. Len(a) : a[i] = a[j] => i = j
  BY <1>1 DEF IsInjective
<1>4. n \in m .. Len(a) /\ s = SubSeq(a, m + 1, n)
  BY DEF Announced
<1> HIDE DEF a, m, s
<1>5. \A i \in m + 1 .. n : a[i] \in Tool
  BY <1>1, <1>2, <1>4
<1>6. /\ s \in Seq(Tool) /\ Len(s) = n - m
      /\ \A i \in 1 .. n - m : s[i] = a[m + i]
  <2>1. /\ s \in Seq(Tool)
        /\ Len(s) = IF m + 1 <= n THEN n - (m + 1) + 1 ELSE 0
        /\ \A i \in 1 .. n - (m + 1) + 1 : s[i] = a[m + 1 + i - 1]
    BY <1>1, <1>4, <1>5, SubSeqProperties
  <2>2. n - (m + 1) + 1 = n - m /\ (~(m + 1 <= n) => n - m = 0)
    BY <1>1, <1>4
  <2>3. \A i \in 1 .. n - m : m + 1 + i - 1 = m + i
    BY <1>1
  <2> QED BY <2>1, <2>2, <2>3
<1>7. DOMAIN s = 1 .. n - m
  BY <1>6, LenProperties
<1>8. \A i \in 1 .. n - m : m + i \in m + 1 .. n /\ m + i \in 1 .. Len(a)
  BY <1>1, <1>4
<1>9. \A i \in m + 1 .. n : i - m \in 1 .. n - m /\ m + (i - m) = i
  BY <1>1, <1>4
<1>10. ToSet(s) = {a[i] : i \in m + 1 .. n}
  <2>1. ToSet(s) = {s[i] : i \in 1 .. n - m}
    BY <1>7 DEF ToSet
  <2> QED BY <1>6, <1>8, <1>9, <2>1
<1>11. IsInjective(s)
  <2> SUFFICES ASSUME NEW i \in 1 .. n - m, NEW j \in 1 .. n - m, s[i] = s[j] PROVE i = j
    BY <1>7 DEF IsInjective
  <2>1. m + i = m + j
    BY <1>3, <1>6, <1>8
  <2> QED BY <1>1, <2>1
<1> QED BY <1>10, <1>11 DEF a, m, s

\* The calls of the answer, by their places.
LEMMA AskedPlaces ==
  ASSUME TypeOK
  PROVE  /\ fw.shown \in Nat /\ Len(fw.asked) \in Nat /\ fw.asked \in Seq(Tool)
         /\ DOMAIN fw.asked = 1 .. Len(fw.asked)
         /\ Asked = {fw.asked[i] : i \in 1 .. Len(fw.asked)}
BY LenProperties DEF TypeOK, FrameworkType, Asked, ToSet

\* A frame is looked at before the next one comes.
LEMMA ReadyFacts ==
  ASSUME ToolInv, Ready
  PROVE  /\ Todo = {} /\ Due = {}
         /\ seen.settled \subseteq Started \cup seen.nameless
BY ToSetEmpty DEF ToolInv, AskInv, FrameInv, Todo, Due

LEMMA BeginStep ==
  ASSUME ToolInv, BeginCall
  PROVE  AskInv' /\ NameInv'
<1> USE DEF ToolInv
<1> PICK ts \in Answers :
      /\ fw' = [fw EXCEPT !.stage = "calling", !.calls = @ + 1, !.asked = ts, !.shown = 0,
                          !.spoken = FALSE, !.reported = FALSE, !.used = @ \cup ToSet(ts)]
      /\ seen' = [seen EXCEPT !.parallel = @ \/ Len(ts) > 1]
  BY DEF BeginCall
<1>1. /\ fw'.stage = "calling" /\ fw'.asked = ts /\ fw'.shown = 0
      /\ fw'.used = fw.used \cup ToSet(ts) /\ fw'.waiting = fw.waiting
  BY DEF TypeOK, FrameworkType
<1>2. /\ Ready /\ fw.stage = "idle" /\ fw.waiting = {}
      /\ UNCHANGED <<frame, norm, out, trace>>
  BY DEF BeginCall, AskInv
<1>3. /\ seen'.settled = seen.settled /\ seen'.nameless = seen.nameless
      /\ ~seen'.parallel => ~seen.parallel /\ ~(Len(ts) > 1)
  BY DEF TypeOK, HistoryType
<1>4. ts \in Seq(Tool \ fw.used) /\ IsInjective(ts)
  BY SeqDef DEF Answers, SeqOf
<1>5. ToSet(ts) \cap fw.used = {} /\ Len(ts) \in Nat /\ DOMAIN ts = 1 .. Len(ts)
  BY <1>4, ToSetType, LenProperties
<1>6. /\ Started' = Started /\ Todo' = Todo /\ Todo = {} /\ Due' = {}
      /\ seen.settled \subseteq Started \cup seen.nameless
  BY <1>2, ReadyFacts DEF Started, Stream, Todo, Due
<1>7. Asked' = ToSet(ts) /\ Hidden' = ToSet(ts)
  BY <1>1, <1>5 DEF Asked, Hidden, ToSet
<1>8. AskInv'
  BY <1>1, <1>2, <1>3, <1>4, <1>5, <1>6, <1>7 DEF AskInv, Ready
<1>9. NameInv'
  <2>1. ~(Len(ts) > 1) => \A t, u \in ToSet(ts) : t = u
    BY <1>5 DEF ToSet
  <2>2. ToSet(ts) \cap Started' = {}
    BY <1>5, <1>6 DEF AskInv
  <2> QED BY <1>2, <1>3, <1>6, <1>7, <2>1, <2>2 DEF NameInv
<1> QED BY <1>8, <1>9

LEMMA ChunkStep ==
  ASSUME ToolInv, Chunk
  PROVE  AskInv' /\ NameInv'
<1> USE DEF ToolInv
<1> PICK n \in fw.shown .. Len(fw.asked), text \in {0, 1}, usage \in Usages :
      /\ fw.spoken => text = 0
      /\ frame' = [kind |-> "chunk", todo |-> Announced(n), named |-> TRUE,
                   text |-> text, usage |-> usage]
      /\ fw' = [fw EXCEPT !.stage = "streaming", !.shown = n,
                          !.spoken = @ \/ text = 1, !.reported = @ \/ usage # 0]
  BY Zenon DEF Chunk
<1>1. /\ fw'.stage = "streaming" /\ fw'.asked = fw.asked /\ fw'.shown = n
      /\ fw'.used = fw.used /\ fw'.waiting = fw.waiting
      /\ frame'.kind = "chunk" /\ frame'.todo = Announced(n) /\ frame'.named
  BY DEF TypeOK, FrameworkType
<1>2. /\ Ready /\ Streaming /\ fw.waiting = {}
      /\ UNCHANGED <<norm, out, trace, seen>>
  BY DEF Chunk, AskInv, Streaming
<1>3. /\ fw.shown \in Nat /\ Len(fw.asked) \in Nat /\ n \in Nat
      /\ DOMAIN fw.asked = 1 .. Len(fw.asked)
      /\ Asked = {fw.asked[i] : i \in 1 .. Len(fw.asked)}
  BY AskedPlaces
<1>4. Todo' = {fw.asked[i] : i \in fw.shown + 1 .. n} /\ IsInjective(frame'.todo)
  BY <1>1, AnnouncedSet DEF AskInv, Todo
<1>5. /\ Started' = Started /\ Asked' = Asked /\ Todo = {} /\ Due = {} /\ Due' = Todo'
      /\ seen.settled \subseteq Started \cup seen.nameless
      /\ Hidden' = {fw.asked[i] : i \in n + 1 .. Len(fw.asked)}
  BY <1>1, <1>2, ReadyFacts DEF Started, Stream, Asked, Hidden, Due
<1>6. Hidden = Hidden' \cup Todo' /\ Hidden' \cap Todo' = {}
  <2>1. fw.shown + 1 .. Len(fw.asked) = (fw.shown + 1 .. n) \cup (n + 1 .. Len(fw.asked))
    BY <1>3
  <2>2. \A i \in fw.shown + 1 .. n, k \in n + 1 .. Len(fw.asked) : fw.asked[i] # fw.asked[k]
    <3>1. \A i, k \in 1 .. Len(fw.asked) : fw.asked[i] = fw.asked[k] => i = k
      BY <1>3 DEF AskInv, IsInjective
    <3>2. \A i \in fw.shown + 1 .. n, k \in n + 1 .. Len(fw.asked) :
            i \in 1 .. Len(fw.asked) /\ k \in 1 .. Len(fw.asked) /\ i # k
      BY <1>3
    <3> QED BY <3>1, <3>2
  <2> QED BY <1>4, <1>5, <2>1, <2>2 DEF Hidden
<1>7. Todo' \subseteq Asked
  BY <1>3, <1>4
<1>8. AskInv'
  <2>1. /\ IsInjective(fw'.asked) /\ Started' \cup Asked' \subseteq fw'.used
        /\ Todo' \subseteq Asked' /\ Todo' \cap Started' = {}
    BY <1>1, <1>2, <1>5, <1>6, <1>7 DEF AskInv
  <2>2. fw'.shown =< Len(fw'.asked)
    BY <1>1, <1>3
  <2>3. Hidden' \cap (Started' \cup Due') = {} /\ Asked' \subseteq Hidden' \cup Started' \cup Due'
    BY <1>2, <1>5, <1>6 DEF AskInv
  <2>4. seen'.settled \subseteq Started' \cup seen'.nameless /\ fw'.waiting = {}
    BY <1>1, <1>2, <1>5
  <2> QED BY <1>1, <1>4, <2>1, <2>2, <2>3, <2>4 DEF AskInv
<1>9. NameInv'
  BY <1>2, <1>5 DEF NameInv
<1> QED BY <1>8, <1>9

\* A delta without the name leaves the call hidden.
LEMMA NamelessStep ==
  ASSUME ToolInv, NamelessChunk
  PROVE  AskInv' /\ NameInv'
<1> USE DEF ToolInv
<1> DEFINE t == fw.asked[fw.shown + 1]
<1>1. /\ fw.shown < Len(fw.asked) /\ Ready /\ Streaming
      /\ frame' = [kind |-> "chunk", todo |-> <<t>>, named |-> FALSE, text |-> 0, usage |-> 0]
      /\ seen' = [seen EXCEPT !.nameless = @ \cup {t}]
      /\ fw' = [fw EXCEPT !.stage = "streaming"]
      /\ UNCHANGED <<norm, out, trace>>
  BY DEF NamelessChunk, Streaming
<1>2. /\ fw.shown \in Nat /\ Len(fw.asked) \in Nat /\ DOMAIN fw.asked = 1 .. Len(fw.asked)
      /\ Asked = {fw.asked[i] : i \in 1 .. Len(fw.asked)}
  BY AskedPlaces
<1>3. t \in Asked /\ t \in Hidden
  <2>1. fw.shown + 1 \in 1 .. Len(fw.asked) /\ fw.shown + 1 \in fw.shown + 1 .. Len(fw.asked)
    BY <1>1, <1>2
  <2> QED BY <1>2, <2>1 DEF Hidden
<1> HIDE DEF t
<1>4. /\ fw'.stage = "streaming" /\ fw'.asked = fw.asked /\ fw'.shown = fw.shown
      /\ fw'.used = fw.used /\ fw'.waiting = fw.waiting
      /\ frame'.kind = "chunk" /\ frame'.todo = <<t>> /\ ~frame'.named
  BY <1>1 DEF TypeOK, FrameworkType
<1>5. /\ seen'.settled = seen.settled /\ seen'.parallel = seen.parallel
      /\ seen'.nameless = seen.nameless \cup {t}
  BY <1>1 DEF TypeOK, HistoryType
<1>6. /\ Started' = Started /\ Asked' = Asked /\ Hidden' = Hidden /\ Streaming'
      /\ Due' = {} /\ Due = {} /\ fw.waiting = {}
      /\ seen.settled \subseteq Started \cup seen.nameless
  <2>1. fw.waiting = {}
    BY <1>1 DEF AskInv, Streaming
  <2> QED BY <1>1, <1>4, <2>1, ReadyFacts DEF Started, Stream, Asked, Hidden, Streaming, Due
<1>7. Todo' = {t} /\ IsInjective(frame'.todo)
  BY <1>4 DEF Todo, ToSet, IsInjective
<1>8. AskInv'
  BY <1>1, <1>3, <1>4, <1>5, <1>6, <1>7 DEF AskInv
<1>9. NameInv'
  BY <1>1, <1>5, <1>6 DEF NameInv
<1> QED BY <1>8, <1>9

\* The last frame of a call announces what is hidden, or all.
LEMMA AnswerStep ==
  ASSUME ToolInv, LastChunk \/ Completion
  PROVE  AskInv' /\ NameInv'
<1> USE DEF ToolInv
<1>1. PICK usage \in Usages :
        /\ Answered(usage)
        /\ \/ frame'.kind = "done" /\ frame'.todo = Announced(Len(fw.asked))
           \/ frame'.kind = "completion" /\ frame'.todo = fw.asked
        /\ frame'.named
  BY DEF LastChunk, Completion
<1>2. /\ fw'.stage = (IF fw.asked = <<>> THEN "idle" ELSE "tools") /\ fw'.waiting = Asked
      /\ fw'.asked = fw.asked /\ fw'.used = fw.used
      /\ seen'.settled = seen.settled \cup Asked /\ seen'.parallel = seen.parallel
      /\ seen'.nameless = seen.nameless
  BY <1>1 DEF Answered, Asked, TypeOK, FrameworkType, HistoryType
<1>3. Ready /\ Streaming /\ UNCHANGED <<norm, out, trace>>
  BY DEF LastChunk, Completion, Streaming
<1>4. fw.shown \in Nat /\ Len(fw.asked) \in Nat /\ fw.shown =< Len(fw.asked)
  BY <1>3, AskedPlaces DEF AskInv
<1>5. /\ Started' = Started /\ Asked' = Asked /\ Due' = Todo'
      /\ seen.settled \subseteq Started \cup seen.nameless
      /\ Hidden \cap Started = {} /\ Asked \subseteq Hidden \cup Started /\ Hidden \subseteq Asked
  <2>1. Hidden \subseteq Asked
    BY <1>4, AskedPlaces DEF Hidden
  <2>2. Started' = Started /\ Asked' = Asked /\ Due' = Todo'
    BY <1>1, <1>2, <1>3 DEF Started, Stream, Asked, Due
  <2>3. Due = {} /\ seen.settled \subseteq Started \cup seen.nameless
    BY <1>3, ReadyFacts
  <2>4. Hidden \cap Started = {} /\ Asked \subseteq Hidden \cup Started
    BY <1>3, <2>3 DEF AskInv
  <2> QED BY <2>1, <2>2, <2>3, <2>4
<1>6. /\ IsInjective(frame'.todo)
      /\ \/ frame'.kind = "done" /\ Todo' = Hidden
         \/ frame'.kind = "completion" /\ Todo' = Asked
  <2>1. CASE frame'.kind = "done" /\ frame'.todo = Announced(Len(fw.asked))
    <3>1. Len(fw.asked) \in fw.shown .. Len(fw.asked)
      BY <1>4
    <3> QED BY <2>1, <3>1, AnnouncedSet DEF AskInv, Todo, Hidden
  <2>2. CASE frame'.kind = "completion" /\ frame'.todo = fw.asked
    BY <2>2 DEF AskInv, Todo, Asked
  <2> QED BY <1>1, <2>1, <2>2
<1>7. ~Streaming' /\ (fw'.stage = "tools" \/ fw'.waiting = {})
  BY <1>2, ToSetEmpty DEF Streaming, Asked
<1>8. AskInv'
  BY <1>1, <1>2, <1>5, <1>6, <1>7 DEF AskInv
<1>9. NameInv'
  BY <1>2, <1>3, <1>5 DEF NameInv
<1> QED BY <1>8, <1>9

LEMMA ToolStep == ToolInv /\ [Next]_vars => ToolInv'
<1> SUFFICES ASSUME ToolInv, [Next]_vars PROVE ToolInv'
  OBVIOUS
<1>1. TypeOK' /\ FrameInv'
  BY TypeStep, FrameStep DEF ToolInv
<1>2. AskInv' /\ NameInv'
  BY OthersStep, SkipStep, StartToolStep, BeginStep, ChunkStep, NamelessStep, AnswerStep
<1> QED BY <1>1, <1>2 DEF ToolInv

(* A started call with an id is started by one event. *)
StartedOnce ==
  \A i, j \in DOMAIN Stream :
    /\ Stream[i].type = "tool_start" /\ Stream[j].type = "tool_start"
    /\ Stream[i].call = Stream[j].call /\ Stream[i].call \in Identified
    => i = j

ToolStreamInv == ToolInv /\ StartedOnce /\ ToolEndsMatch

\* An event that starts a tool anew, or ends the one it names, keeps the stream's tool events.
LEMMA AppendedTools ==
  ASSUME ToolStreamInv, NEW e, Appends(e),
         ~seen'.parallel => ~seen.parallel, seen.nameless \subseteq seen'.nameless,
         e.type = "tool_start" /\ e.call \in Identified => e.call \notin Started,
         e.type = "tool_end" /\ e.of \notin seen.nameless =>
           /\ e.of \in Identified \/ ~seen.parallel => e.call = e.of
           /\ e.of \in Started
  PROVE  StartedOnce' /\ ToolEndsMatch'
<1> DEFINE n == Len(Stream)
<1>1. /\ n \in Nat /\ DOMAIN Stream = 1 .. n /\ DOMAIN Stream' = 1 .. n + 1
      /\ Stream'[n + 1] = e /\ \A i \in 1 .. n : Stream'[i] = Stream[i]
  BY AppendedFacts DEF ToolStreamInv, ToolInv
<1>2. \A i \in 1 .. n + 1 : i = n + 1 \/ i \in 1 .. n
  BY <1>1
<1> HIDE DEF n
<1>3. \A t \in Started : \E k \in 1 .. n : Stream[k].type = "tool_start" /\ Stream[k].call = t
  BY <1>1 DEF Started
<1>4. \A k \in 1 .. n : Stream[k].type = "tool_start" => Stream[k].call \in Started
  BY <1>1 DEF Started
<1>5. StartedOnce'
  <2> SUFFICES ASSUME NEW i \in 1 .. n + 1, NEW j \in 1 .. n + 1,
                      Stream'[i].type = "tool_start", Stream'[j].type = "tool_start",
                      Stream'[i].call = Stream'[j].call, Stream'[i].call \in Identified
               PROVE  i = j
    BY <1>1 DEF StartedOnce
  <2>1. CASE i \in 1 .. n /\ j \in 1 .. n
    BY <1>1, <2>1 DEF ToolStreamInv, StartedOnce
  <2>2. CASE i = n + 1 /\ j \in 1 .. n
    BY <1>1, <1>4, <2>2
  <2>3. CASE i \in 1 .. n /\ j = n + 1
    BY <1>1, <1>4, <2>3
  <2> QED BY <1>2, <2>1, <2>2, <2>3
<1>6. ToolEndsMatch'
  <2> SUFFICES ASSUME NEW i \in 1 .. n + 1, Stream'[i].type = "tool_end",
                      Stream'[i].of \notin seen'.nameless
               PROVE  /\ Stream'[i].of \in Identified \/ ~seen'.parallel
                           => Stream'[i].call = Stream'[i].of
                      /\ \E j \in 1 .. i - 1 : /\ Stream'[j].type = "tool_start"
                                               /\ Stream'[j].call = Stream'[i].of
    BY <1>1 DEF ToolEndsMatch
  <2>1. CASE i = n + 1
    <3>1. e.of \in Identified \/ ~seen'.parallel => e.call = e.of
      BY <1>1, <2>1
    <3>2. PICK k \in 1 .. n : Stream[k].type = "tool_start" /\ Stream[k].call = e.of
      BY <1>1, <1>3, <2>1
    <3>3. k \in 1 .. i - 1
      BY <1>1, <2>1
    <3> QED BY <1>1, <2>1, <3>1, <3>2, <3>3
  <2>2. CASE i \in 1 .. n
    <3>1. /\ Stream[i].of \in Identified \/ ~seen.parallel => Stream[i].call = Stream[i].of
          /\ \E j \in 1 .. i - 1 : /\ Stream[j].type = "tool_start"
                                   /\ Stream[j].call = Stream[i].of
      BY <1>1, <2>2 DEF ToolStreamInv, ToolEndsMatch
    <3>2. \A j \in 1 .. i - 1 : j \in 1 .. n
      BY <1>1, <2>2
    <3> QED BY <1>1, <2>2, <3>1, <3>2
  <2> QED BY <1>2, <2>1, <2>2
<1> QED BY <1>5, <1>6

\* The end of a tool is the end of a started one, and has its name unless answers of several
\* tools left no way to tell.
LEMMA ResponseNamed ==
  ASSUME ToolInv, Ready, NEW t \in fw.waiting
  PROVE  /\ t \in Asked
         /\ t \notin seen.nameless =>
              /\ t \in Started
              /\ t \in Identified \/ ~seen.parallel => NameOf(IdOf(t)) = t
<1> SUFFICES ASSUME t \in Asked, t \notin seen.nameless
             PROVE  /\ t \in Started
                    /\ t \in Identified \/ ~seen.parallel => NameOf(IdOf(t)) = t
  BY DEF ToolInv, AskInv
<1>1. t \in Started /\ t \in Asked
  BY ReadyFacts DEF ToolInv, AskInv
<1>2. t # None
  BY StreamAssumption DEF ToolInv, TypeOK, FrameworkType
<1>3. CASE t \in Identified
  BY <1>1, <1>2, <1>3 DEF ToolInv, NameInv, NameOf, IdOf
<1>4. CASE t \notin Identified
  BY <1>1, <1>2, <1>4 DEF ToolInv, NameInv, NameOf, IdOf
<1> QED BY <1>1, <1>3, <1>4

LEMMA HistoryGrows ==
  ASSUME TypeOK, [Next]_vars
  PROVE  /\ ~seen'.parallel => ~seen.parallel
         /\ seen.nameless \subseteq seen'.nameless
<1> USE DEF TypeOK, HistoryType
<1>1. CASE BeginCall
  BY <1>1 DEF BeginCall
<1>2. CASE LastChunk \/ Completion
  BY <1>2 DEF LastChunk, Completion, Answered
<1>4. CASE NamelessChunk
  BY <1>4 DEF NamelessChunk
<1>3. CASE ~BeginCall /\ ~LastChunk /\ ~Completion /\ ~NamelessChunk
  <2>1. seen' = seen
    BY <1>3 DEF Next, Goroutine, Framework, Start, OpenCall, StartTool, SkipTool, EndChunk, EndCall,
       RunEnds, CloseOut, StartRefused, AgentStarts, Chunk, ToolResponds, FrameworkError,
       StreamClosed, BuilderReceives, BuilderEnds, Over, vars
  <2> QED BY <2>1
<1> QED BY <1>1, <1>2, <1>3, <1>4

LEMMA ToolStreamStep == ToolStreamInv /\ [Next]_vars => ToolStreamInv'
<1> SUFFICES ASSUME ToolStreamInv, [Next]_vars PROVE ToolStreamInv'
  OBVIOUS
<1>1. /\ ToolInv /\ ToolInv' /\ TypeOK
      /\ (~seen'.parallel => ~seen.parallel) /\ seen.nameless \subseteq seen'.nameless
  BY ToolStep, HistoryGrows DEF ToolStreamInv, ToolInv
<1>2. CASE StartTool
  <2> DEFINE e == StartEvent(Head(frame.todo))
  <2>1. Appends(e)
    BY <1>1, <1>2, StartToolEvent
  <2>2. e.type = "tool_start" /\ e.call = Head(frame.todo)
    BY DEF StartEvent, Numbered, RunEvent
  <2> HIDE DEF e
  <2> QED BY <1>1, <1>2, <2>1, <2>2, StartToolStep, AppendedTools DEF ToolStreamInv
<1>3. CASE ToolResponds
  <2> PICK t \in fw.waiting : Send([Numbered("tool_end") EXCEPT !.call = NameOf(IdOf(t)), !.of = t])
    BY <1>3 DEF ToolResponds
  <2> DEFINE e == [Numbered("tool_end") EXCEPT !.call = NameOf(IdOf(t)), !.of = t]
  <2>1. norm.seq + 1 \in Nat /\ norm \in NormalizerType /\ fw \in FrameworkType
    BY <1>1 DEF TypeOK, NormalizerType
  <2>2. t \in Tool /\ NameOf(IdOf(t)) \in Tool \cup {None}
    BY <2>1, StreamAssumption DEF FrameworkType, IdOf, Ids, NameOf, NormalizerType
  <2>3. e \in Event
    BY <2>1, <2>2 DEF Numbered, RunEvent, Event
  <2>4. e.type = "tool_end" /\ e.call = NameOf(IdOf(t)) /\ e.of = t
    BY DEF Numbered, RunEvent
  <2>5. Appends(e)
    BY <1>1, <1>3, <2>3, SendAppends DEF ToolResponds
  <2>6. Ready
    BY <1>3 DEF ToolResponds
  <2> HIDE DEF e
  <2> QED BY <1>1, <2>4, <2>5, <2>6, ResponseNamed, AppendedTools DEF ToolStreamInv
<1>4. CASE ~StartTool /\ ~ToolResponds
  <2>1. CASE Stream' = Stream
    <3>1. StartedOnce'
      BY <2>1 DEF ToolStreamInv, StartedOnce
    <3>2. ToolEndsMatch'
      BY <1>1, <2>1 DEF ToolStreamInv, ToolEndsMatch
    <3> QED BY <1>1, <3>1, <3>2 DEF ToolStreamInv
  <2>2. CASE \E e : Appends(e) /\ e.type \notin {"tool_start", "tool_end"}
    BY <1>1, <2>2, AppendedTools DEF ToolStreamInv
  <2> QED BY <1>1, <1>4, <2>1, <2>2, OtherEvents DEF OtherEvent
<1> QED BY <1>2, <1>3, <1>4

\* A reader can pair the tool events of every run: a call with an id starts once, every call of a
\* full answer starts, and an end follows the start that it names, but for calls of which a delta
\* came without the name.
THEOREM ToolEventsPaired == Spec => []ToolEventsMatch
<1>1. Init => ToolStreamInv
  <2> SUFFICES ASSUME Init PROVE ToolStreamInv
    OBVIOUS
  <2>1. DOMAIN Stream = {}
    BY EmptySeq, ConcatEmptySeq DEF Init, Stream
  <2> QED BY <2>1, InitTools DEF ToolStreamInv, StartedOnce, ToolEndsMatch
<1>2. ToolStreamInv => ToolEventsMatch
  <2> SUFFICES ASSUME ToolStreamInv PROVE ToolEventsMatch
    OBVIOUS
  <2>1. ASSUME Ready, NEW t \in seen.settled \ seen.nameless
        PROVE  \E i \in DOMAIN Stream : Stream[i].type = "tool_start" /\ Stream[i].call = t
    BY <2>1, ReadyFacts DEF ToolStreamInv, Started
  <2> QED BY <2>1 DEF ToolStreamInv, StartedOnce, ToolEventsMatch, ToolsStartOnce
<1> QED BY <1>1, <1>2, ToolStreamStep, PTL DEF Spec

-----------------------------------------------------------------------------
(* What has been counted                                                   *)

(* The frame in hand is the last one of its model call. *)
Ending == frame.kind \in {"done", "completion"}

(* The usage of the call that has been answered and whose end is still to be sent. *)
Owed == IF Ending /\ (fw.reported \/ frame.usage # 0) THEN fw.calls ELSE 0

(* The normalizer knows the usage of the current call once a frame has brought it. *)
UsageInv ==
  /\ Ready => frame.usage = 0
  /\ frame.usage \in {0, fw.calls}
  /\ fw.reported /\ frame.usage = 0 => norm.tokens = fw.calls
  /\ Ending /\ ~fw.reported /\ frame.usage = 0 => seen.silent

(* Where the text of an answer is, in a run without errors. *)
TextInv ==
  /\ frame.kind = "chunk" => fw.stage = "streaming"
  /\ Ending => fw.stage \in {"idle", "tools"}
  /\ Ready => frame.text = 0
  /\ fw.stage = "calling" => Ready /\ ~fw.spoken
  /\ fw.errors = 0 =>
       /\ Ready /\ fw.stage \in {"new", "starting", "idle", "tools", "calling"} =>
            norm.content = 0 /\ ~norm.inModel
       /\ fw.stage = "streaming" => norm.content + frame.text = IF fw.spoken THEN 1 ELSE 0
       /\ fw.stage = "streaming" /\ Ready => norm.inModel
       /\ Ending => norm.content + frame.text = 1

TextsInv ==
  fw.errors = 0 => \A i \in DOMAIN Stream : Stream[i].type = "model_end" => Stream[i].text = 1

DoneInv == builder = "done" => out = <<>> /\ fw.stage = "ended"

Counters == [calls: Nat, tokens: Nat]

(* What one event adds to a count. *)
AfterEvent(c, e) ==
  IF e.type = "model_end" THEN [calls |-> c.calls + 1, tokens |-> c.tokens + e.tokens] ELSE c

(* g counts the model calls and the tokens of the events of s, from c after the m-th. *)
Chain(g, s, m, c) ==
  /\ g \in [0 .. Len(s) -> Counters]
  /\ g[m] = c
  /\ \A n \in 1 .. Len(s) : g[n] = AfterEvent(g[n - 1], s[n])

(* A count of the whole stream, against what the model has answered. *)
Agrees(total) ==
  /\ total.calls + (IF Ending THEN 1 ELSE 0) = seen.answered
  /\ total.tokens + Owed >= seen.usage
  /\ ~seen.silent => total.tokens + Owed = seen.usage

BuilderCount == [calls |-> metrics.modelCalls, tokens |-> metrics.tokens]

CountInv ==
  \E g : /\ Chain(g, Stream, Len(trace), BuilderCount)
         /\ Agrees(g[Len(Stream)])

CallInv == TypeOK /\ FrameInv /\ UsageInv /\ TextInv /\ DoneInv

LEMMA FrameTexts ==
  ASSUME CallInv
  PROVE  /\ norm.content \in Nat /\ frame.text \in {0, 1} /\ norm.inModel \in BOOLEAN
         /\ frame.usage \in Nat /\ norm.tokens \in Nat /\ fw.calls \in Nat
         /\ fw.errors \in Nat /\ fw.spoken \in BOOLEAN /\ fw.reported \in BOOLEAN
BY StreamAssumption DEF CallInv, TypeOK, FrameworkType, FrameType, NormalizerType

LEMMA InitCalls == Init => UsageInv /\ TextInv /\ DoneInv /\ TextsInv
BY DEF Init, UsageInv, TextInv, DoneInv, TextsInv, NoFrame, Ready, Ending, Stream

LEMMA CallStep == CallInv /\ [Next]_vars => (UsageInv /\ TextInv /\ DoneInv)'
<1> SUFFICES ASSUME CallInv, [Next]_vars PROVE (UsageInv /\ TextInv /\ DoneInv)'
  OBVIOUS
<1> USE DEF Ready, Ending
<1>t. /\ norm \in NormalizerType /\ fw \in FrameworkType /\ frame \in FrameType
      /\ seen \in HistoryType
      /\ UsageInv /\ TextInv /\ DoneInv /\ (fw.stage \notin Serving => Ready)
  BY DEF CallInv, TypeOK, FrameInv
<1>u. /\ norm.content \in Nat /\ frame.text \in {0, 1} /\ norm.inModel \in BOOLEAN
      /\ frame.usage \in Nat /\ norm.tokens \in Nat /\ fw.calls \in Nat
      /\ fw.errors \in Nat /\ fw.spoken \in BOOLEAN /\ fw.reported \in BOOLEAN
  BY FrameTexts
<1>1. CASE Start \/ RunEnds \/ CloseOut \/ StartRefused \/ AgentStarts
  BY <1>1, <1>t, <1>u DEF Start, RunEnds, CloseOut, StartRefused, AgentStarts,
     FrameworkType, UsageInv, TextInv, DoneInv, Serving
<1>2. CASE OpenCall \/ StartTool \/ SkipTool
  <2>1. /\ frame'.kind = frame.kind /\ frame'.text = frame.text /\ frame'.usage = frame.usage
        /\ norm'.content = norm.content /\ norm'.tokens = norm.tokens
        /\ norm'.inModel = norm.inModel \/ (norm'.inModel /\ frame.kind # "none")
        /\ fw' = fw /\ seen' = seen /\ builder' = builder
    BY <1>2, <1>t DEF OpenCall, StartTool, SkipTool, NormalizerType, FrameType
  <2>2. frame.kind # "none"
    BY <1>2, <1>t DEF OpenCall, StartTool, SkipTool, CallInv, FrameInv
  <2>3. UsageInv'
    BY <1>t, <2>1 DEF UsageInv
  <2>4. TextInv'
    BY <1>t, <2>1, <2>2 DEF TextInv
  <2>5. DoneInv'
    BY <1>t, <2>1, <2>2 DEF DoneInv, Serving
  <2> QED BY <2>3, <2>4, <2>5
<1>3. CASE EndChunk
  <2>1. /\ frame'.kind = "none" /\ frame'.text = 0 /\ frame'.usage = 0
        /\ norm'.content = norm.content + frame.text /\ norm'.inModel = norm.inModel
        /\ norm'.tokens = IF frame.usage = 0 THEN norm.tokens ELSE frame.usage
        /\ frame.kind = "chunk" /\ norm.inModel
        /\ fw' = fw /\ seen' = seen /\ builder' = builder /\ out' = out
    BY <1>3, <1>t DEF EndChunk, NormalizerType, NoFrame, Tokens
  <2>2. UsageInv'
    BY <1>t, <1>u, <2>1 DEF UsageInv
  <2>3. TextInv'
    <3>1. fw.stage = "streaming"
      BY <1>t, <2>1 DEF TextInv
    <3>2. (norm.content + frame.text) + 0 = norm.content + frame.text
      BY <1>u
    <3> QED BY <1>t, <1>u, <2>1, <3>1, <3>2 DEF TextInv
  <2>4. DoneInv'
    BY <1>t, <2>1 DEF DoneInv
  <2> QED BY <2>2, <2>3, <2>4
<1>4. CASE EndCall
  BY <1>4, <1>t, <1>u DEF EndCall, NormalizerType, FrameType, NoFrame, Tokens,
     UsageInv, TextInv, DoneInv, Serving
<1>5. CASE BeginCall
  <2> PICK ts \in Answers : 
       /\ fw' = [fw EXCEPT !.stage = "calling", !.calls = @ + 1, !.asked = ts, !.shown = 0,
                           !.spoken = FALSE, !.reported = FALSE, !.used = @ \cup ToSet(ts)]
       /\ seen' = [seen EXCEPT !.parallel = @ \/ Len(ts) > 1]
    BY <1>5 DEF BeginCall
  <2>1. /\ fw'.stage = "calling" /\ fw'.spoken = FALSE /\ fw'.reported = FALSE
        /\ fw'.errors = fw.errors
    BY <1>t DEF FrameworkType
  <2> QED BY <1>5, <1>t, <1>u, <2>1 DEF BeginCall, UsageInv, TextInv, DoneInv, Serving
<1>6. CASE Chunk
  <2> PICK n \in fw.shown .. Len(fw.asked), text \in {0, 1}, usage \in Usages :
        /\ fw.spoken => text = 0
        /\ frame' = [kind |-> "chunk", todo |-> Announced(n), named |-> TRUE,
                     text |-> text, usage |-> usage]
        /\ fw' = [fw EXCEPT !.stage = "streaming", !.shown = n,
                            !.spoken = @ \/ text = 1, !.reported = @ \/ usage # 0]
    BY <1>6, Zenon DEF Chunk
  <2>1. /\ frame'.kind = "chunk" /\ frame'.text = text /\ frame'.usage = usage
    OBVIOUS
  <2>2. /\ fw'.stage = "streaming" /\ fw'.calls = fw.calls /\ fw'.errors = fw.errors
        /\ fw'.spoken = (fw.spoken \/ text = 1) /\ fw'.reported = (fw.reported \/ usage # 0)
    <3> DEFINE a == fw.spoken \/ text = 1
               b == fw.reported \/ usage # 0
    <3>1. fw' = [fw EXCEPT !.stage = "streaming", !.shown = n, !.spoken = a, !.reported = b]
      OBVIOUS
    <3> HIDE DEF a, b
    <3>2. fw'.stage = "streaming" /\ fw'.calls = fw.calls /\ fw'.errors = fw.errors
          /\ fw'.spoken = a /\ fw'.reported = b
      BY <3>1, <1>t DEF FrameworkType
    <3> QED BY <3>2 DEF a, b
  <2>3. usage \in {0, fw.calls} /\ norm' = norm /\ seen' = seen /\ builder' = builder
        /\ fw.stage \in {"calling", "streaming"} /\ frame.kind = "none" /\ out' = out
    BY <1>6 DEF Chunk, Usages
  <2>4. UsageInv'
    BY <1>t, <2>1, <2>2, <2>3 DEF UsageInv
  <2>5. TextInv'
    <3>1. fw.errors = 0 => norm.content = IF fw.spoken THEN 1 ELSE 0
      BY <1>t, <1>u, <2>3 DEF TextInv
    <3>2. fw.errors = 0 => norm.content + text = IF fw.spoken \/ text = 1 THEN 1 ELSE 0
      BY <3>1, <1>u
    <3> QED BY <2>1, <2>2, <2>3, <3>2 DEF TextInv
  <2>6. DoneInv'
    BY <1>t, <2>2, <2>3 DEF DoneInv, Serving
  <2> QED BY <2>4, <2>5, <2>6
<1>7. CASE LastChunk \/ Completion
  <2> PICK usage \in Usages :
        /\ Answered(usage)
        /\ \/ /\ LastChunk
              /\ frame' = [kind |-> "done", todo |-> Announced(Len(fw.asked)), named |-> TRUE,
                           text |-> IF fw.spoken THEN 0 ELSE 1, usage |-> usage]
           \/ /\ Completion
              /\ frame' = [kind |-> "completion", todo |-> fw.asked, named |-> TRUE,
                           text |-> IF norm.inModel THEN 0 ELSE 1, usage |-> usage]
    BY <1>7 DEF LastChunk, Completion
  <2>1. /\ fw'.stage \in {"idle", "tools"} /\ fw'.calls = fw.calls /\ fw'.errors = fw.errors
        /\ fw'.reported = fw.reported
    BY <1>t DEF Answered, FrameworkType
  <2>2. ~fw.reported /\ usage = 0 => seen'.silent
    BY <1>t, Zenon DEF Answered, HistoryType
  <2>3. /\ norm' = norm /\ builder' = builder /\ out' = out
        /\ fw.stage \in {"calling", "streaming"} /\ frame.kind = "none"
    BY DEF LastChunk, Completion
  <2>4. frame'.kind \in {"done", "completion"} /\ frame'.usage = usage /\ usage \in {0, fw.calls}
    BY DEF Usages
  <2>5. UsageInv'
    BY <1>t, <2>1, <2>2, <2>3, <2>4 DEF UsageInv
  <2>6. fw.errors = 0 => norm.content + frame'.text = 1
    <3>1. CASE LastChunk /\ frame'.text = IF fw.spoken THEN 0 ELSE 1
      BY <1>t, <1>u, <2>3, <3>1 DEF TextInv
    <3>2. CASE Completion /\ frame'.text = IF norm.inModel THEN 0 ELSE 1
      <4>1. fw.stage = "calling" \/ (fw.stage = "streaming" /\ fw.spoken)
        BY <3>2 DEF Completion
      <4>2. frame'.text = IF norm.inModel THEN 0 ELSE 1
        BY <3>2
      <4>3. CASE fw.errors = 0 /\ fw.stage = "calling"
        <5>1. norm.content = 0 /\ ~norm.inModel
          BY <1>t, <2>3, <4>3 DEF TextInv
        <5> QED BY <4>2, <5>1
      <4>4. CASE fw.errors = 0 /\ fw.stage = "streaming" /\ fw.spoken
        <5>1. norm.content + frame.text = 1 /\ frame.text = 0 /\ norm.inModel
          BY <1>t, <2>3, <4>4 DEF TextInv
        <5> QED BY <4>2, <5>1
      <4> QED BY <4>1, <4>3, <4>4
    <3> QED BY <3>1, <3>2
  <2>7. TextInv'
    BY <1>t, <1>u, <2>1, <2>3, <2>4, <2>6 DEF TextInv
  <2>8. DoneInv'
    BY <1>t, <2>1, <2>3 DEF DoneInv, Serving
  <2> QED BY <2>5, <2>7, <2>8
<1>8. CASE ToolResponds \/ FrameworkError \/ StreamClosed
  <2>1. /\ frame' = frame /\ seen' = seen /\ builder' = builder /\ frame.kind = "none"
        /\ norm'.content = norm.content /\ norm'.tokens = norm.tokens
        /\ norm'.inModel = norm.inModel
        /\ fw'.calls = fw.calls /\ (fw'.reported => fw.reported) /\ fw.stage \in Serving
    <3>1. CASE ToolResponds
      BY <3>1, <1>t DEF ToolResponds, Serving, NormalizerType, FrameworkType
    <3>2. CASE FrameworkError
      BY <3>2, <1>t DEF FrameworkError, Dropped, NormalizerType, FrameworkType
    <3>3. CASE StreamClosed
      BY <3>3, <1>t DEF StreamClosed, Dropped, FrameworkType
    <3> QED BY <1>8, <3>1, <3>2, <3>3
  <2>2. UsageInv' /\ DoneInv'
    BY <1>t, <2>1 DEF UsageInv, DoneInv, Serving
  <2>3. \/ fw.stage = "tools" /\ fw'.stage \in {"idle", "tools"} /\ fw'.errors = fw.errors
        \/ fw'.stage = "idle" /\ fw'.errors # 0
        \/ fw'.stage = "closed" /\ fw'.errors = fw.errors
    <3>1. CASE ToolResponds
      BY <3>1, <1>t DEF ToolResponds, FrameworkType
    <3>2. CASE FrameworkError
      BY <3>2, <1>t, <1>u DEF FrameworkError, Dropped, FrameworkType
    <3>3. CASE StreamClosed
      BY <3>3, <1>t DEF StreamClosed, Dropped, FrameworkType
    <3> QED BY <1>8, <3>1, <3>2, <3>3
  <2>4. TextInv'
    BY <1>t, <2>1, <2>3 DEF TextInv
  <2> QED BY <2>2, <2>4
<1>10. CASE NamelessChunk
  <2>1. /\ frame'.kind = "chunk" /\ frame'.text = 0 /\ frame'.usage = 0
        /\ norm' = norm /\ builder' = builder /\ out' = out
        /\ fw.stage \in {"calling", "streaming"} /\ frame.kind = "none"
    BY <1>10 DEF NamelessChunk
  <2>2. /\ fw'.stage = "streaming" /\ fw'.calls = fw.calls /\ fw'.errors = fw.errors
        /\ fw'.spoken = fw.spoken /\ fw'.reported = fw.reported
    BY <1>10, <1>t DEF NamelessChunk, FrameworkType
  <2>3. UsageInv'
    BY <1>t, <2>1, <2>2 DEF UsageInv
  <2>4. TextInv'
    <3>1. fw.errors = 0 => norm.content + 0 = IF fw.spoken THEN 1 ELSE 0
      BY <1>t, <1>u, <2>1 DEF TextInv
    <3> QED BY <2>1, <2>2, <3>1 DEF TextInv
  <2>5. DoneInv'
    BY <1>t, <2>1, <2>2 DEF DoneInv, Serving
  <2> QED BY <2>3, <2>4, <2>5
<1>9. CASE BuilderReceives \/ BuilderEnds \/ Over \/ UNCHANGED vars
  BY <1>9, <1>t, <1>u DEF BuilderReceives, BuilderEnds, Over, vars, UsageInv, TextInv, DoneInv
<1> QED BY <1>1, <1>2, <1>3, <1>4, <1>5, <1>6, <1>7, <1>8, <1>9, <1>10
        DEF Next, Goroutine, Framework

(* Every step but EndCall sends something else than the end of a model call, or nothing. *)
NoEnd == \/ Stream' = Stream
         \/ \E e : Appends(e) /\ e.type # "model_end"

ModelEnd(tokens, text) ==
  [Numbered("model_end") EXCEPT !.tokens = tokens, !.text = text]

LEMMA EndsOfCalls ==
  ASSUME TypeOK, FrameInv, [Next]_vars
  PROVE  IF EndCall THEN Appends(ModelEnd(Tokens, norm.content + frame.text)) ELSE NoEnd
<1>n. norm \in NormalizerType /\ fw \in FrameworkType /\ frame \in FrameType
      /\ norm.seq \in Nat /\ norm.seq + 1 \in Nat /\ norm.content \in Nat /\ norm.tokens \in Nat
  BY DEF TypeOK, NormalizerType
<1>1. ASSUME EndCall PROVE Appends(ModelEnd(Tokens, norm.content + frame.text))
  <2> DEFINE e == ModelEnd(Tokens, norm.content + frame.text)
  <2>1. Tokens \in Nat /\ norm.content + frame.text \in Nat
    BY <1>n DEF Tokens, FrameType
  <2>2. e \in Event
    BY <2>1, <1>n DEF ModelEnd, Numbered, RunEvent, Event, ModelMarks
  <2> QED BY <1>1, <2>2, SendAppends DEF EndCall, ModelEnd
<1>2. ASSUME ~EndCall PROVE NoEnd
  <2>1. norm'.inModel = norm.inModel \/ norm'.inModel
    BY <1>2, <1>n DEF Next, Goroutine, Framework, Start, OpenCall, StartTool, SkipTool,
       EndChunk, RunEnds, CloseOut, StartRefused, AgentStarts, BeginCall, Chunk, NamelessChunk,
       LastChunk, Completion, ToolResponds, FrameworkError, StreamClosed, BuilderReceives, BuilderEnds,
       Over, vars, NormalizerType
  <2>2. \A e : Emits(e) => e.type # "model_end"
    BY <2>1 DEF Emits, ModelMarks
  <2>3. \A e : Marks(e) => e.type # "model_end"
    BY DEF Marks
  <2> QED BY <2>2, <2>3, StepShape DEF NoEnd, Quiet, Emits, Marks
<1> QED BY <1>1, <1>2

LEMMA ModelEndFields ==
  ASSUME NEW tokens, NEW text
  PROVE  /\ ModelEnd(tokens, text).type = "model_end"
         /\ ModelEnd(tokens, text).tokens = tokens
         /\ ModelEnd(tokens, text).text = text
BY DEF ModelEnd, Numbered, RunEvent

LEMMA TextsStep == CallInv /\ TextsInv /\ [Next]_vars => TextsInv'
<1> SUFFICES ASSUME CallInv, TextsInv, [Next]_vars, fw'.errors = 0
             PROVE  \A i \in DOMAIN Stream' : Stream'[i].type = "model_end" => Stream'[i].text = 1
  BY DEF TextsInv
<1>1. TypeOK /\ FrameInv /\ TextInv /\ fw \in FrameworkType /\ fw.errors \in Nat
  BY FrameTexts DEF CallInv, TypeOK
<1>2. fw.errors = 0
  <2>1. fw'.errors = fw.errors \/ fw'.errors = fw.errors + 1
    BY <1>1 DEF Next, Goroutine, Framework, Start, OpenCall, StartTool, SkipTool,
       EndChunk, EndCall, RunEnds, CloseOut, StartRefused, AgentStarts, BeginCall, Chunk,
       NamelessChunk, LastChunk, Completion, Answered, ToolResponds, FrameworkError, StreamClosed,
       Dropped, BuilderReceives, BuilderEnds, Over, vars, FrameworkType
  <2> QED BY <1>1, <2>1
<1>3. \A i \in DOMAIN Stream : Stream[i].type = "model_end" => Stream[i].text = 1
  BY <1>2 DEF TextsInv
<1>4. ASSUME NEW e, Appends(e), e.type = "model_end" => e.text = 1
      PROVE  \A i \in DOMAIN Stream' : Stream'[i].type = "model_end" => Stream'[i].text = 1
  <2> TAKE i \in DOMAIN Stream'
  <2>1. (i \in DOMAIN Stream /\ Stream'[i] = Stream[i]) \/ Stream'[i] = e
    BY <1>1, <1>4, AppendedFacts
  <2> QED BY <1>3, <1>4, <2>1
<1>5. CASE EndCall
  <2>1. norm.content + frame.text = 1
    BY <1>1, <1>2, <1>5 DEF TextInv, Ending, EndCall
  <2> QED BY <1>1, <1>4, <1>5, <2>1, EndsOfCalls, ModelEndFields
<1>6. CASE NoEnd
  BY <1>3, <1>4, <1>6 DEF NoEnd
<1> QED BY <1>1, <1>5, <1>6, EndsOfCalls

LEMMA AfterEventTyped ==
  ASSUME NEW c \in Counters, NEW e \in Event
  PROVE  AfterEvent(c, e) \in Counters
BY DEF AfterEvent, Counters, Event

LEMMA ChainExtended ==
  ASSUME NEW s \in Seq(Event), NEW e \in Event, NEW m \in 0 .. Len(s), NEW c, NEW g,
         Chain(g, s, m, c)
  PROVE  \E h : /\ Chain(h, Append(s, e), m, c)
                /\ h[Len(Append(s, e))] = AfterEvent(g[Len(s)], e)
<1> DEFINE n == Len(s)
           t == Append(s, e)
           h == [i \in 0 .. n + 1 |-> IF i = n + 1 THEN AfterEvent(g[n], e) ELSE g[i]]
<1>1. n \in Nat /\ Len(t) = n + 1 /\ t[n + 1] = e /\ \A i \in 1 .. n : t[i] = s[i]
  BY AppendProperties, LenProperties
<1>2. g \in [0 .. n -> Counters] /\ g[m] = c /\ \A i \in 1 .. n : g[i] = AfterEvent(g[i - 1], s[i])
  BY DEF Chain
<1>3. AfterEvent(g[n], e) \in Counters
  BY <1>1, <1>2, AfterEventTyped
<1> HIDE DEF n, t
<1>4. /\ h \in [0 .. n + 1 -> Counters] /\ h[n + 1] = AfterEvent(g[n], e)
      /\ \A i \in 0 .. n : h[i] = g[i]
  BY <1>1, <1>2, <1>3
<1> HIDE DEF h
<1>5. h[m] = c
  BY <1>2, <1>4 DEF n
<1>6. ASSUME NEW i \in 1 .. n + 1 PROVE h[i] = AfterEvent(h[i - 1], t[i])
  <2>1. CASE i = n + 1
    BY <1>1, <1>4, <2>1
  <2>2. CASE i # n + 1
    <3>1. i \in 1 .. n /\ i - 1 \in 0 .. n /\ i \in 0 .. n
      BY <1>1, <2>2
    <3> QED BY <1>1, <1>2, <1>4, <3>1
  <2> QED BY <2>1, <2>2
<1> QED BY <1>1, <1>4, <1>5, <1>6 DEF Chain, n, t

(* The places of the events that the builder has received and of those in the channel. *)
LEMMA Places ==
  ASSUME TypeOK
  PROVE  /\ Stream \in Seq(Event) /\ Len(trace) \in 0 .. Len(Stream) /\ Len(Stream) \in Nat
         /\ out # <<>> => /\ Len(trace) + 1 \in 1 .. Len(Stream)
                          /\ Stream[Len(trace) + 1] = Head(out)
         /\ out = <<>> => Stream = trace
<1>1. trace \in Seq(Event) /\ out \in Seq(Event) /\ Len(trace) \in Nat /\ Len(out) \in Nat
  BY LenProperties DEF TypeOK
<1>2. /\ Stream \in Seq(Event) /\ Len(Stream) = Len(trace) + Len(out)
      /\ \A i \in 1 .. Len(Stream) :
           Stream[i] = IF i <= Len(trace) THEN trace[i] ELSE out[i - Len(trace)]
  BY <1>1, ConcatProperties DEF Stream
<1>3. ASSUME out # <<>>
      PROVE  Len(trace) + 1 \in 1 .. Len(Stream) /\ Stream[Len(trace) + 1] = Head(out)
  <2>1. Len(out) # 0 /\ Head(out) = out[1]
    BY <1>1, <1>3, HeadTailProperties, EmptySeq
  <2>2. Len(trace) + 1 \in 1 .. Len(Stream) /\ (Len(trace) + 1) - Len(trace) = 1
        /\ ~(Len(trace) + 1 <= Len(trace))
    BY <1>1, <1>2, <2>1
  <2> QED BY <1>2, <2>1, <2>2
<1>4. out = <<>> => Stream = trace
  BY <1>1, ConcatEmptySeq DEF Stream
<1> QED BY <1>1, <1>2, <1>3, <1>4

LEMMA CountersTyped == TypeOK => BuilderCount \in Counters
BY DEF TypeOK, BuilderCount, Counters

LEMMA InitCount == Init => CountInv
<1> SUFFICES ASSUME Init PROVE CountInv
  OBVIOUS
<1>1. Stream = <<>> /\ trace = <<>> /\ Len(Stream) = 0 /\ Len(trace) = 0
  BY DEF Init, Stream
<1>2. BuilderCount = [calls |-> 0, tokens |-> 0]
  BY DEF Init, BuilderCount
<1> DEFINE g == [i \in 0 .. 0 |-> [calls |-> 0, tokens |-> 0]]
<1>3. Chain(g, Stream, Len(trace), BuilderCount)
  BY <1>1, <1>2 DEF Chain, Counters
<1>4. Agrees(g[Len(Stream)])
  BY <1>1 DEF Init, Agrees, Ending, Owed, NoFrame
<1> QED BY <1>3, <1>4 DEF CountInv

LEMMA ReceivedCount ==
  ASSUME CallInv, CountInv, BuilderReceives
  PROVE  CountInv'
<1>t. TypeOK /\ trace \in Seq(Event) /\ Head(out) \in Event /\ Stream' = Stream
  BY ReceiveKeeps, HeadTailProperties DEF CallInv, TypeOK, BuilderReceives
<1>1. PICK g : Chain(g, Stream, Len(trace), BuilderCount) /\ Agrees(g[Len(Stream)])
  BY DEF CountInv
<1>2. Len(trace') = Len(trace) + 1
  BY <1>t, AppendProperties DEF BuilderReceives
<1>3. /\ Len(trace) + 1 \in 1 .. Len(Stream) /\ Stream[Len(trace) + 1] = Head(out)
      /\ (Len(trace) + 1) - 1 = Len(trace)
  BY <1>t, Places, LenProperties DEF BuilderReceives
<1>4. BuilderCount' = AfterEvent(BuilderCount, Head(out))
  BY <1>t DEF BuilderReceives, Counted, BuilderCount, AfterEvent, TypeOK
<1>5. g[Len(trace) + 1] = AfterEvent(g[Len(trace)], Head(out)) /\ g[Len(trace)] = BuilderCount
  BY <1>1, <1>3 DEF Chain
<1>6. Chain(g, Stream, Len(trace) + 1, AfterEvent(BuilderCount, Head(out)))
  BY <1>1, <1>5 DEF Chain
<1>7. Agrees(g[Len(Stream)])'
  BY <1>1, <1>t DEF BuilderReceives, Agrees, Ending, Owed
<1>8. Chain(g, Stream, Len(trace), BuilderCount)'
  BY <1>t, <1>2, <1>4, <1>6
<1> QED BY <1>7, <1>8 DEF CountInv

(* A step of the goroutine or the framework that sends e. *)
LEMMA SentCount ==
  ASSUME TypeOK, NEW e, Appends(e), UNCHANGED <<trace, metrics>>, NEW g,
         Chain(g, Stream, Len(trace), BuilderCount),
         NEW total, total = AfterEvent(g[Len(Stream)], e), Agrees(total)'
  PROVE  CountInv'
<1>1. /\ Stream \in Seq(Event) /\ Len(trace) \in 0 .. Len(Stream) /\ e \in Event
      /\ Stream' = Append(Stream, e) /\ trace' = trace /\ BuilderCount' = BuilderCount
  BY Places DEF Appends, BuilderCount
<1>2. PICK h : /\ Chain(h, Append(Stream, e), Len(trace), BuilderCount)
               /\ h[Len(Append(Stream, e))] = AfterEvent(g[Len(Stream)], e)
  BY <1>1, ChainExtended
<1>3. Chain(h, Stream, Len(trace), BuilderCount)'
  BY <1>1, <1>2
<1>4. h[Len(Stream')] = total
  BY <1>1, <1>2
<1>5. Agrees(h[Len(Stream)])'
  BY <1>4 DEF Agrees
<1> QED BY <1>3, <1>5 DEF CountInv

(* A step that sends nothing. *)
LEMMA QuietCount ==
  ASSUME TypeOK, Stream' = Stream, UNCHANGED <<trace, metrics>>, NEW g,
         Chain(g, Stream, Len(trace), BuilderCount),
         NEW total, total = g[Len(Stream)], Agrees(total)'
  PROVE  CountInv'
<1>1. Chain(g, Stream, Len(trace), BuilderCount)'
  BY DEF BuilderCount
<1>2. g[Len(Stream')] = total
  OBVIOUS
<1>3. Agrees(g[Len(Stream)])'
  BY <1>2 DEF Agrees
<1> QED BY <1>1, <1>3 DEF CountInv

(* A count that adds nothing for what is sent. *)
LEMMA NoEndCount ==
  ASSUME TypeOK, NoEnd, UNCHANGED <<trace, metrics>>, NEW g,
         Chain(g, Stream, Len(trace), BuilderCount),
         NEW total, total = g[Len(Stream)], Agrees(total)'
  PROVE  CountInv'
<1>1. CASE Stream' = Stream
  BY <1>1, QuietCount
<1>2. ASSUME NEW e, Appends(e), e.type # "model_end" PROVE CountInv'
  <2>1. total = AfterEvent(g[Len(Stream)], e)
    BY <1>2 DEF AfterEvent
  <2> QED BY <1>2, <2>1, SentCount
<1> QED BY <1>1, <1>2 DEF NoEnd

LEMMA CountStep ==
  ASSUME CallInv, CountInv, [Next]_vars
  PROVE  CountInv'
<1>t. /\ TypeOK /\ FrameInv /\ UsageInv /\ TextInv
      /\ norm \in NormalizerType /\ fw \in FrameworkType /\ frame \in FrameType
      /\ seen \in HistoryType
      /\ norm.tokens \in Nat /\ frame.usage \in Nat /\ fw.calls \in Nat
      /\ seen.answered \in Nat /\ seen.usage \in Nat /\ seen.silent \in BOOLEAN
      /\ fw.reported \in BOOLEAN
  BY FrameTexts DEF CallInv, TypeOK, HistoryType
<1>1. CASE BuilderReceives
  BY <1>1, ReceivedCount
<1>2. PICK g : Chain(g, Stream, Len(trace), BuilderCount) /\ Agrees(g[Len(Stream)])
  BY DEF CountInv
<1>3. PICK total : total = g[Len(Stream)]
  OBVIOUS
<1>4. total.calls \in Nat /\ total.tokens \in Nat
  BY <1>t, <1>2, <1>3, Places DEF Chain, Counters
<1>5. Agrees(total)
  BY <1>2, <1>3
<1>6. CASE EndCall
  <2> DEFINE e == ModelEnd(Tokens, norm.content + frame.text)
  <2>1. Appends(e) /\ e.type = "model_end" /\ e.tokens = Tokens /\ Tokens \in Nat
    BY <1>t, <1>6, EndsOfCalls, ModelEndFields DEF Tokens
  <2>2. /\ Ending /\ ~Ending' /\ UNCHANGED <<trace, metrics>> /\ seen' = seen
    BY <1>6 DEF EndCall, Ending, NoFrame
  <2> DEFINE sum == AfterEvent(g[Len(Stream)], e)
  <2>3. sum.calls = total.calls + 1 /\ sum.tokens = total.tokens + Tokens
    BY <1>3, <2>1 DEF AfterEvent
  <2>4. Owed' = 0
    BY <2>2 DEF Owed
  <2>5. Owed =< Tokens /\ (~seen.silent => Owed = Tokens) /\ Owed \in Nat
    BY <1>t, <2>2 DEF Owed, Tokens, UsageInv
  <2>6. PICK s : s = sum
    OBVIOUS
  <2>7. s.calls = total.calls + 1 /\ s.tokens = total.tokens + Tokens
    BY <2>3, <2>6
  <2>8. total.calls + 1 = seen.answered /\ total.tokens + Owed >= seen.usage
        /\ (~seen.silent => total.tokens + Owed = seen.usage)
    BY <1>5, <2>2 DEF Agrees
  <2>9. Agrees(s)'
    <3> HIDE DEF e, sum
    <3>1. /\ s.calls + 0 = seen.answered /\ s.tokens + 0 >= seen.usage
          /\ ~seen.silent => s.tokens + 0 = seen.usage
      BY <1>t, <1>4, <2>1, <2>5, <2>7, <2>8
    <3> QED BY <2>2, <2>4, <3>1 DEF Agrees
  <2> HIDE DEF e
  <2> QED BY <1>t, <1>2, <2>1, <2>2, <2>6, <2>9, SentCount
<1>7. ASSUME UNCHANGED <<trace, metrics>>, ~EndCall, Agrees(total)' PROVE CountInv'
  <2>1. NoEnd
    BY <1>t, <1>7, EndsOfCalls
  <2> QED BY <1>t, <1>2, <1>3, <1>7, <2>1, NoEndCount
<1>8. ASSUME Ending' <=> Ending, Owed' = Owed, seen'.answered = seen.answered,
             seen'.usage = seen.usage, seen'.silent <=> seen.silent
      PROVE  Agrees(total)'
  BY <1>5, <1>8 DEF Agrees
<1>9. CASE Start \/ RunEnds \/ CloseOut \/ StartRefused \/ AgentStarts
  <2>1. ~EndCall /\ UNCHANGED <<frame, seen, trace, metrics>>
    BY <1>t, <1>9 DEF Start, RunEnds, CloseOut, StartRefused, AgentStarts, EndCall,
       FrameInv, Ready, Serving
  <2>2. (Ending' <=> Ending) /\ Owed' = Owed
    BY <1>t, <1>9, <2>1 DEF Ending, Owed, Start, RunEnds, CloseOut, StartRefused, AgentStarts,
       FrameworkType
  <2> QED BY <1>7, <1>8, <2>1, <2>2
<1>10. CASE OpenCall \/ StartTool \/ SkipTool
  <2>1. UNCHANGED <<fw, seen, trace, metrics>> /\ (~norm.inModel \/ frame.todo # <<>>)
    BY <1>10 DEF OpenCall, StartTool, SkipTool
  <2>3. ~EndCall
    BY <2>1 DEF EndCall
  <2>2. frame'.kind = frame.kind /\ frame'.usage = frame.usage
    BY <1>t, <1>10 DEF OpenCall, StartTool, SkipTool, FrameType
  <2> QED BY <1>7, <1>8, <2>1, <2>2, <2>3 DEF Ending, Owed
<1>11. CASE EndChunk \/ ToolResponds \/ FrameworkError \/ StreamClosed
  <2>1. /\ UNCHANGED <<seen, trace, metrics>> /\ frame.kind \in {"none", "chunk"}
        /\ frame'.kind = "none"
    <3>1. CASE EndChunk
      BY <3>1 DEF EndChunk, NoFrame
    <3>2. CASE ToolResponds
      BY <3>2 DEF ToolResponds, Ready
    <3>3. CASE FrameworkError \/ StreamClosed
      BY <3>3 DEF FrameworkError, StreamClosed, Ready
    <3> QED BY <1>11, <3>1, <3>2, <3>3
  <2>2. ~EndCall /\ ~Ending /\ ~Ending'
    BY <2>1 DEF EndCall, Ending
  <2> QED BY <1>7, <1>8, <2>1, <2>2 DEF Owed
<1>12. CASE BeginCall
  <2>1. ~EndCall /\ UNCHANGED <<trace, metrics>> /\ ~Ending /\ ~Ending'
    BY <1>12 DEF BeginCall, EndCall, Ending, Ready
  <2>2. PICK p : seen' = [seen EXCEPT !.parallel = p]
    BY <1>12 DEF BeginCall
  <2>3. /\ seen'.answered = seen.answered /\ seen'.usage = seen.usage
        /\ seen'.silent <=> seen.silent
    BY <1>t, <2>2 DEF HistoryType
  <2> QED BY <1>7, <1>8, <2>1, <2>3 DEF Owed
<1>13. CASE Chunk
  <2>1. /\ ~EndCall /\ UNCHANGED <<seen, trace, metrics>> /\ ~Ending /\ frame'.kind = "chunk"
    BY <1>13 DEF Chunk, EndCall, Ending, Ready
  <2>2. ~Ending'
    BY <2>1 DEF Ending
  <2> QED BY <1>7, <1>8, <2>1, <2>2 DEF Owed
<1>16. CASE NamelessChunk
  <2>1. /\ ~EndCall /\ UNCHANGED <<trace, metrics>> /\ ~Ending /\ frame'.kind = "chunk"
    BY <1>16 DEF NamelessChunk, EndCall, Ending, Ready
  <2>2. PICK n : seen' = [seen EXCEPT !.nameless = n]
    BY <1>16 DEF NamelessChunk
  <2>3. /\ seen'.answered = seen.answered /\ seen'.usage = seen.usage
        /\ seen'.silent <=> seen.silent
    BY <1>t, <2>2 DEF HistoryType
  <2>4. ~Ending'
    BY <2>1 DEF Ending
  <2> QED BY <1>7, <1>8, <2>1, <2>3, <2>4 DEF Owed
<1>14. CASE LastChunk \/ Completion
  <2>1. PICK usage \in Usages : Answered(usage) /\ frame'.usage = usage /\ Ending'
    BY <1>14 DEF LastChunk, Completion, Ending
  <2>2. /\ ~EndCall /\ UNCHANGED <<trace, metrics>> /\ ~Ending
    BY <1>14 DEF LastChunk, Completion, EndCall, Ending, Ready
  <2> DEFINE reported == fw.reported \/ usage # 0
  <2>3. fw'.calls = fw.calls /\ fw'.reported = fw.reported
    BY <1>t, <2>1 DEF Answered, FrameworkType
  <2>4. /\ seen'.answered = seen.answered + 1
        /\ seen'.usage = IF reported THEN seen.usage + fw.calls ELSE seen.usage
    BY <1>t, <2>1 DEF Answered, HistoryType
  <2>8. (~reported => seen'.silent) /\ (seen.silent => seen'.silent)
    BY <1>t, <2>1, Zenon DEF Answered, HistoryType
  <2>5. Owed' = IF reported THEN fw.calls ELSE 0
    BY <2>1, <2>3 DEF Owed
  <2>6. /\ total.calls = seen.answered /\ total.tokens >= seen.usage
        /\ ~seen.silent => total.tokens = seen.usage
    BY <1>t, <1>4, <1>5, <2>2 DEF Agrees, Owed
  <2> HIDE DEF reported
  <2>7. Agrees(total)'
    <3>1. total.calls + 1 = seen'.answered
      BY <2>4, <2>6
    <3>2. CASE reported
      <4>1. /\ total.tokens + fw.calls >= seen.usage + fw.calls
            /\ ~seen.silent => total.tokens + fw.calls = seen.usage + fw.calls
        BY <1>t, <1>4, <2>6
      <4> QED BY <2>1, <2>4, <2>5, <2>8, <3>1, <3>2, <4>1 DEF Agrees
    <3>3. CASE ~reported
      <4>1. total.tokens + 0 >= seen.usage /\ seen'.silent
        BY <1>t, <1>4, <2>6, <2>8, <3>3
      <4> QED BY <2>1, <2>4, <2>5, <3>1, <3>3, <4>1 DEF Agrees
    <3> QED BY <3>2, <3>3
  <2> QED BY <1>7, <2>2, <2>7
<1>15. CASE BuilderEnds \/ Over \/ UNCHANGED vars
  <2>1. UNCHANGED <<fw, frame, seen, trace, metrics, out>>
    BY <1>15 DEF BuilderEnds, Over, vars
  <2>2. ~EndCall \/ EndCall
    OBVIOUS
  <2>3. Stream' = Stream /\ (Ending' <=> Ending) /\ Owed' = Owed
    BY <2>1 DEF Stream, Ending, Owed
  <2> QED BY <1>t, <1>2, <1>3, <1>8, <2>1, <2>3, QuietCount
<1> QED BY <1>1, <1>6, <1>9, <1>10, <1>11, <1>12, <1>13, <1>14, <1>15, <1>16
        DEF Next, Goroutine, Framework

\* What the builder has counted at the end of a run (builder.go, the loop of Run): each
\* answered model call once, with the usage it has reported, and in a run without errors
\* with its text once, however its answer was split into frames and however long events
\* stay in the channel.
THEOREM AnswersAreCounted == Spec => []AnswersCounted
<1>1. CallInv /\ TextsInv /\ CountInv => AnswersCounted
  <2> SUFFICES ASSUME CallInv, TextsInv, CountInv, builder = "done"
               PROVE  /\ metrics.modelCalls = seen.answered
                      /\ metrics.tokens >= seen.usage
                      /\ ~seen.silent => metrics.tokens = seen.usage
                      /\ fw.errors = 0 => \A i \in DOMAIN trace :
                           trace[i].type = "model_end" => trace[i].text = 1
    BY DEF AnswersCounted
  <2>1. TypeOK /\ out = <<>> /\ ~Ending
    BY DEF CallInv, DoneInv, FrameInv, Ready, Ending, Serving
  <2>2. Stream = trace
    BY <2>1, Places
  <2>3. PICK g : g[Len(trace)] = BuilderCount /\ Agrees(g[Len(trace)])
    BY <2>2 DEF CountInv, Chain
  <2>4. /\ BuilderCount.calls + 0 = seen.answered /\ BuilderCount.tokens + 0 >= seen.usage
        /\ ~seen.silent => BuilderCount.tokens + 0 = seen.usage
    BY <2>1, <2>3 DEF Agrees, Owed
  <2>5. BuilderCount.calls \in Nat /\ BuilderCount.tokens \in Nat
    BY <2>1, CountersTyped DEF Counters
  <2> QED BY <2>2, <2>4, <2>5 DEF BuilderCount, TextsInv
<1> DEFINE Inv == CallInv /\ TextsInv /\ CountInv
<1>2. Init => Inv
  <2>1. Init => FrameInv
    BY DEF Init, FrameInv, Ready, NoFrame
  <2> QED BY <2>1, InitTyped, InitCalls, InitCount DEF CallInv
<1>3. Inv /\ [Next]_vars => Inv'
  BY TypeStep, FrameStep, CallStep, TextsStep, CountStep DEF CallInv
<1> QED BY <1>1, <1>2, <1>3, PTL DEF Spec

-----------------------------------------------------------------------------
(* The steps of a trace                                                    *)

LEMMA LeastNatural ==
  ASSUME NEW S, S \subseteq Nat, S # {}
  PROVE  \E m \in S : \A k \in S : m <= k
<1> DEFINE R == StrictSubsetOrdering(Nat)
           T == {0..m : m \in S}
<1>1. T \subseteq FiniteSubsetsOf(Nat) /\ T # {}
  <2>1. ASSUME NEW m \in S PROVE 0..m \in FiniteSubsetsOf(Nat)
    <3>1. m \in Nat /\ 0 \in Int /\ m \in Int /\ 0..m \in SUBSET Nat
      OBVIOUS
    <3> QED BY <3>1, FS_Interval DEF FiniteSubsetsOf
  <2> QED BY <2>1
<1>2. PICK x \in T : \A y \in T : <<y, x>> \notin R
  <2>1. IsWellFoundedOn(R, FiniteSubsetsOf(Nat))
    BY FS_StrictSubsetOrderingWellFounded
  <2> HIDE DEF R, T
  <2> QED BY <1>1, <2>1, WFMin
<1>3. PICK m \in S : x = 0..m
  BY <1>2
<1>4. ASSUME NEW k \in S, k < m PROVE FALSE
  <2>1. 0..k \subseteq 0..m /\ 0..k # 0..m /\ 0..k \in SUBSET Nat /\ 0..m \in SUBSET Nat
    <3>1. m \in 0..m /\ m \notin 0..k
      BY <1>4
    <3> QED BY <1>4, <3>1
  <2>2. <<0..k, x>> \in R
    BY <1>3, <2>1 DEF StrictSubsetOrdering
  <2>3. 0..k \in T
    OBVIOUS
  <2> HIDE DEF R, T
  <2> QED BY <1>2, <2>2, <2>3
<1> HIDE DEF R, T
<1>5. m \in Nat /\ \A k \in S : k \in Nat /\ ~(k < m)
  BY <1>4
<1>6. \A k \in S : m <= k
  BY <1>5
<1> QED BY <1>6

StepRecords == [call: Tool \cup {None}, result: Tool \cup {None}, args: BOOLEAN]

StepState == [steps: Seq(StepRecords), pending: Tool \cup {None}, args: BOOLEAN]

(* The equation that defines the walk of ToolSteps. *)
IsWalk(w, s) ==
  w = [n \in 0 .. Len(s) |-> IF n = 0 THEN NoSteps ELSE StepOf(w[n - 1], s[n])]

(* The ends of tools among the first n events of s. *)
EndsTo(s, n) == {i \in 1 .. n : s[i].type = "tool_end"}

Nth(s, i) == Cardinality(EndsTo(s, i))

(* A walk has found one step for each end of a tool, with its result and, if the result is of  *)
(* a call of told, with that call.                                                             *)
Found(w, s, told, n) ==
  /\ w[n] \in StepState
  /\ Len(w[n].steps) = Nth(s, n)
  /\ \A i \in EndsTo(s, n) :
       /\ w[n].steps[Nth(s, i)].result = s[i].of
       /\ s[i].of \in told => w[n].steps[Nth(s, i)].call = s[i].of

LEMMA WalkValues ==
  ASSUME NEW s \in Seq(Event), NEW w, IsWalk(w, s)
  PROVE  /\ DOMAIN w = 0 .. Len(s) /\ Len(s) \in Nat /\ w[0] = NoSteps
         /\ \A n \in 1 .. Len(s) : w[n] = StepOf(w[n - 1], s[n])
<1>1. Len(s) \in Nat
  BY LenProperties
<1>2. w = [n \in 0 .. Len(s) |-> IF n = 0 THEN NoSteps ELSE StepOf(w[n - 1], s[n])]
  BY DEF IsWalk
<1>3. DOMAIN w = 0 .. Len(s) /\ 0 \in 0 .. Len(s)
  BY <1>1, <1>2
<1>4. \A n \in 0 .. Len(s) : w[n] = IF n = 0 THEN NoSteps ELSE StepOf(w[n - 1], s[n])
  BY <1>2
<1>5. \A n \in 1 .. Len(s) : n \in 0 .. Len(s) /\ n # 0
  BY <1>1
<1> QED BY <1>1, <1>3, <1>4, <1>5

\* Two walks of the same events are the same: where they first differ they do not.
LEMMA WalkUnique ==
  ASSUME NEW s \in Seq(Event), NEW w, NEW u, IsWalk(w, s), IsWalk(u, s)
  PROVE  w = u
<1> DEFINE D == {n \in 0 .. Len(s) : w[n] # u[n]}
<1>1. /\ DOMAIN w = 0 .. Len(s) /\ DOMAIN u = 0 .. Len(s) /\ Len(s) \in Nat
      /\ w[0] = u[0]
      /\ \A n \in 1 .. Len(s) : w[n] = StepOf(w[n - 1], s[n]) /\ u[n] = StepOf(u[n - 1], s[n])
  BY WalkValues
<1>2. ASSUME D # {} PROVE FALSE
  <2>1. PICK m \in D : \A k \in D : m <= k
    <3>1. D \subseteq Nat
      BY <1>1
    <3> HIDE DEF D
    <3> QED BY <1>2, <3>1, LeastNatural
  <2>2. m \in 1 .. Len(s) /\ m - 1 \in 0 .. Len(s) /\ ~(m <= m - 1)
    BY <1>1
  <2>3. w[m - 1] = u[m - 1]
    BY <2>1, <2>2
  <2>4. w[m] = u[m]
    BY <1>1, <2>2, <2>3
  <2> QED BY <2>1, <2>4
<1>3. \A n \in 0 .. Len(s) : w[n] = u[n]
  BY <1>2
<1>4. /\ w = [n \in 0 .. Len(s) |-> w[n]] /\ u = [n \in 0 .. Len(s) |-> u[n]]
  <2>1. w = [n \in 0 .. Len(s) |-> IF n = 0 THEN NoSteps ELSE StepOf(w[n - 1], s[n])]
    BY DEF IsWalk
  <2>2. u = [n \in 0 .. Len(s) |-> IF n = 0 THEN NoSteps ELSE StepOf(u[n - 1], s[n])]
    BY DEF IsWalk
  <2>3. w = [n \in DOMAIN w |-> w[n]]
    BY <2>1
  <2>4. u = [n \in DOMAIN u |-> u[n]]
    BY <2>2
  <2> QED BY <1>1, <2>3, <2>4
<1> QED BY <1>3, <1>4

\* The steps of the first m events are those a walk of all events has found by then.
LEMMA StepsOfPrefix ==
  ASSUME NEW s \in Seq(Event), NEW w, IsWalk(w, s), NEW t \in Seq(Event),
         Len(t) \in 0 .. Len(s), \A i \in 1 .. Len(t) : t[i] = s[i]
  PROVE  ToolSteps(t) = w[Len(t)].steps
<1> DEFINE m == Len(t)
           u == [n \in 0 .. m |-> w[n]]
<1>1. /\ Len(s) \in Nat /\ m \in Nat /\ m <= Len(s) /\ w[0] = NoSteps
      /\ \A n \in 1 .. Len(s) : w[n] = StepOf(w[n - 1], s[n])
  BY WalkValues
<1> HIDE DEF m
<1>2. ASSUME NEW n \in 0 .. m
      PROVE  u[n] = IF n = 0 THEN NoSteps ELSE StepOf(u[n - 1], t[n])
  <2>1. CASE n = 0
    BY <1>1, <2>1
  <2>2. CASE n # 0
    <3>1. n \in 1 .. m /\ n \in 1 .. Len(s) /\ n - 1 \in 0 .. m
      BY <1>1, <2>2
    <3>2. u[n] = w[n] /\ u[n - 1] = w[n - 1] /\ t[n] = s[n]
      BY <3>1 DEF m
    <3> QED BY <1>1, <2>2, <3>1, <3>2
  <2> QED BY <2>1, <2>2
<1>3. u = [n \in 0 .. m |-> IF n = 0 THEN NoSteps ELSE StepOf(u[n - 1], t[n])]
  <2> DEFINE F(n) == IF n = 0 THEN NoSteps ELSE StepOf(u[n - 1], t[n])
  <2>1. \A n \in 0 .. m : w[n] = F(n)
    BY <1>2
  <2> HIDE DEF F
  <2>2. [n \in 0 .. m |-> w[n]] = [n \in 0 .. m |-> F(n)]
    BY <2>1
  <2> QED BY <2>2 DEF F
<1>4. IsWalk(u, t)
  BY <1>3 DEF IsWalk, m
<1>5. u[m] = w[m]
  BY <1>1
<1> DEFINE chosen == CHOOSE x : IsWalk(x, t)
<1>6. IsWalk(chosen, t)
  <2> HIDE DEF u
  <2> QED BY <1>4
<1>7. chosen = u
  <2> HIDE DEF u, chosen
  <2> QED BY <1>4, <1>6, WalkUnique
<1>8. ToolSteps(t) = chosen[Len(t)].steps
  BY DEF ToolSteps, IsWalk
<1> HIDE DEF chosen, u
<1> QED BY <1>5, <1>7, <1>8 DEF m

LEMMA EndsCounted ==
  ASSUME NEW s, NEW n \in Nat
  PROVE  /\ IsFiniteSet(EndsTo(s, n)) /\ Nth(s, n) \in Nat
         /\ EndsTo(s, 0) = {} /\ Nth(s, 0) = 0
         /\ \A i \in EndsTo(s, n) : Nth(s, i) \in 1 .. Nth(s, n)
<1>1. \A k \in Nat : IsFiniteSet(EndsTo(s, k)) /\ Nth(s, k) \in Nat
  <2> TAKE k \in Nat
  <2>1. IsFiniteSet(1 .. k)
    BY FS_Interval
  <2>2. EndsTo(s, k) \subseteq 1 .. k
    BY DEF EndsTo
  <2>3. IsFiniteSet(EndsTo(s, k))
    BY <2>1, <2>2, FS_Subset
  <2> QED BY <2>3, FS_CardinalityType DEF Nth
<1>2. EndsTo(s, 0) = {} /\ Nth(s, 0) = 0
  BY FS_EmptySet DEF EndsTo, Nth
<1>3. ASSUME NEW i \in EndsTo(s, n) PROVE Nth(s, i) \in 1 .. Nth(s, n)
  <2>1. i \in Nat /\ i \in EndsTo(s, i) /\ EndsTo(s, i) \subseteq EndsTo(s, n)
    BY DEF EndsTo
  <2>2. Nth(s, i) <= Nth(s, n)
    BY <1>1, <2>1, FS_Subset DEF Nth
  <2>3. Nth(s, i) # 0
    BY <1>1, <2>1, FS_EmptySet DEF Nth
  <2> QED BY <1>1, <2>1, <2>2, <2>3
<1> QED BY <1>1, <1>2, <1>3

\* The next event, if it ends a tool, is the next end.
LEMMA EndsAppended ==
  ASSUME NEW s, NEW n \in Nat
  PROVE  /\ s[n + 1].type = "tool_end" =>
              /\ EndsTo(s, n + 1) = EndsTo(s, n) \cup {n + 1}
              /\ Nth(s, n + 1) = Nth(s, n) + 1
         /\ s[n + 1].type # "tool_end" =>
              EndsTo(s, n + 1) = EndsTo(s, n) /\ Nth(s, n + 1) = Nth(s, n)
<1>1. 1 .. n + 1 = (1 .. n) \cup {n + 1} /\ n + 1 \notin 1 .. n
  OBVIOUS
<1>2. n + 1 \notin EndsTo(s, n)
  BY <1>1 DEF EndsTo
<1>3. CASE s[n + 1].type = "tool_end"
  <2>1. EndsTo(s, n + 1) = EndsTo(s, n) \cup {n + 1}
    BY <1>1, <1>3 DEF EndsTo
  <2> QED BY <1>2, <1>3, <2>1, EndsCounted, FS_AddElement DEF Nth
<1>4. CASE s[n + 1].type # "tool_end"
  BY <1>1, <1>4 DEF EndsTo, Nth
<1> QED BY <1>3, <1>4

\* What a prefix determines.
LEMMA FoundSame ==
  ASSUME NEW s, NEW t, NEW w, NEW v, NEW told, NEW n \in Nat,
         \A i \in 1 .. n : s[i] = t[i], v[n] = w[n]
  PROVE  Found(w, s, told, n) <=> Found(v, t, told, n)
<1>1. ASSUME NEW k \in 0 .. n PROVE EndsTo(s, k) = EndsTo(t, k) /\ Nth(s, k) = Nth(t, k)
  <2>1. \A i \in 1 .. k : i \in 1 .. n
    OBVIOUS
  <2>2. EndsTo(s, k) = EndsTo(t, k)
    BY <2>1 DEF EndsTo
  <2> QED BY <2>2 DEF Nth
<1>2. EndsTo(s, n) = EndsTo(t, n) /\ Nth(s, n) = Nth(t, n)
  BY <1>1
<1>3. \A i \in EndsTo(s, n) : i \in 1 .. n /\ Nth(s, i) = Nth(t, i) /\ s[i] = t[i]
  BY <1>1 DEF EndsTo
<1> QED BY <1>2, <1>3 DEF Found

\* One more event.
LEMMA FoundNext ==
  ASSUME NEW s, NEW w, NEW told, NEW n \in Nat, Found(w, s, told, n),
         NEW e \in Event, e = s[n + 1], w[n + 1] = StepOf(w[n], e),
         e.type = "tool_end" /\ e.of \in told =>
           e.call = e.of /\ w[n].pending \in {None, e.of}
  PROVE  Found(w, s, told, n + 1)
<1>1. /\ w[n] \in StepState /\ w[n].steps \in Seq(StepRecords)
      /\ w[n].pending \in Tool \cup {None} /\ w[n].args \in BOOLEAN /\ e.args \in BOOLEAN
      /\ e.call \in Tool \cup {None} /\ e.of \in Tool \cup {None} /\ n + 1 \in Nat
      /\ Nth(s, n) \in Nat /\ Len(w[n].steps) = Nth(s, n)
  BY EndsCounted DEF Found, StepState, Event
<1>2. CASE e.type # "tool_end"
  <2>1. w[n + 1].steps = w[n].steps /\ w[n + 1] \in StepState
    BY <1>1, <1>2 DEF StepOf, StepState
  <2>2. EndsTo(s, n + 1) = EndsTo(s, n) /\ Nth(s, n + 1) = Nth(s, n)
    BY <1>2, EndsAppended
  <2> QED BY <2>1, <2>2 DEF Found
<1>3. CASE e.type = "tool_end"
  <2> DEFINE step == StepAt(w[n], e)
  <2>1. w[n + 1] = [steps |-> Append(w[n].steps, step), pending |-> None, args |-> FALSE]
    BY <1>3 DEF StepOf
  <2>2. step \in StepRecords
    BY <1>1 DEF StepAt, StepRecords
  <2>3. step.result = e.of /\ (e.of \in told => step.call = e.of)
    BY <1>3 DEF StepAt
  <2> HIDE DEF step
  <2>4. /\ Append(w[n].steps, step) \in Seq(StepRecords)
        /\ Len(Append(w[n].steps, step)) = Nth(s, n) + 1
        /\ Append(w[n].steps, step)[Nth(s, n) + 1] = step
        /\ \A k \in 1 .. Nth(s, n) : Append(w[n].steps, step)[k] = w[n].steps[k]
    BY <1>1, <2>2, AppendProperties
  <2>5. EndsTo(s, n + 1) = EndsTo(s, n) \cup {n + 1} /\ Nth(s, n + 1) = Nth(s, n) + 1
    BY <1>3, EndsAppended
  <2>6. w[n + 1] \in StepState /\ Len(w[n + 1].steps) = Nth(s, n + 1)
    BY <2>1, <2>4, <2>5 DEF StepState
  <2>7. ASSUME NEW i \in EndsTo(s, n)
        PROVE  /\ w[n + 1].steps[Nth(s, i)].result = s[i].of
               /\ s[i].of \in told => w[n + 1].steps[Nth(s, i)].call = s[i].of
    <3>1. Nth(s, i) \in 1 .. Nth(s, n)
      BY EndsCounted
    <3>2. w[n + 1].steps = Append(w[n].steps, step)
      BY <2>1
    <3>3. Append(w[n].steps, step)[Nth(s, i)] = w[n].steps[Nth(s, i)]
      BY <2>4, <3>1
    <3>4. w[n + 1].steps[Nth(s, i)] = w[n].steps[Nth(s, i)]
      BY <3>2, <3>3
    <3> QED BY <3>4 DEF Found
  <2>8. w[n + 1].steps[Nth(s, n + 1)] = step
    BY <2>1, <2>4, <2>5
  <2> QED BY <2>3, <2>5, <2>6, <2>7, <2>8 DEF Found
<1> QED BY <1>2, <1>3

LEMMA WalkExtended ==
  ASSUME NEW s \in Seq(Event), NEW e \in Event, NEW w, IsWalk(w, s)
  PROVE  \E v : /\ IsWalk(v, Append(s, e))
                /\ \A n \in 0 .. Len(s) : v[n] = w[n]
                /\ v[Len(s) + 1] = StepOf(w[Len(s)], e)
<1> DEFINE n == Len(s)
           t == Append(s, e)
           v == [i \in 0 .. n + 1 |-> IF i = n + 1 THEN StepOf(w[n], e) ELSE w[i]]
<1>1. n \in Nat /\ t \in Seq(Event) /\ Len(t) = n + 1 /\ t[n + 1] = e
      /\ \A i \in 1 .. n : t[i] = s[i]
  BY AppendProperties, LenProperties
<1>2. w[0] = NoSteps /\ \A i \in 1 .. n : w[i] = StepOf(w[i - 1], s[i])
  BY WalkValues
<1> HIDE DEF n, t
<1>3. v[n + 1] = StepOf(w[n], e) /\ \A i \in 0 .. n : v[i] = w[i]
  BY <1>1
<1>4. ASSUME NEW i \in 0 .. n + 1
      PROVE  v[i] = IF i = 0 THEN NoSteps ELSE StepOf(v[i - 1], t[i])
  <2> HIDE DEF v
  <2>1. CASE i = 0
    BY <1>1, <1>2, <1>3, <2>1
  <2>2. CASE i \in 1 .. n
    <3>1. i - 1 \in 0 .. n /\ i \in 0 .. n /\ i # 0
      BY <1>1, <2>2
    <3> QED BY <1>1, <1>2, <1>3, <2>2, <3>1
  <2>3. CASE i = n + 1
    <3>1. i - 1 = n /\ n \in 0 .. n /\ i # 0
      BY <1>1, <2>3
    <3> QED BY <1>1, <1>3, <2>3, <3>1
  <2> QED BY <1>1, <2>1, <2>2, <2>3
<1>5. v = [i \in 0 .. n + 1 |-> IF i = 0 THEN NoSteps ELSE StepOf(v[i - 1], t[i])]
  <2> DEFINE F(i) == IF i = 0 THEN NoSteps ELSE StepOf(v[i - 1], t[i])
  <2>1. \A i \in 0 .. n + 1 : v[i] = F(i)
    BY <1>4
  <2>2. v = [i \in 0 .. n + 1 |-> v[i]]
    OBVIOUS
  <2> HIDE DEF F, v
  <2>3. [i \in 0 .. n + 1 |-> v[i]] = [i \in 0 .. n + 1 |-> F(i)]
    BY <2>1
  <2> QED BY <2>2, <2>3 DEF F
<1> HIDE DEF v
<1>6. IsWalk(v, t)
  BY <1>1, <1>5 DEF IsWalk
<1> QED BY <1>3, <1>6 DEF n, t

(* The walk of the stream: what is found and, while a single call is asked for, whose start is *)
(* pending.                                                                                    *)
StepsInv ==
  \E w : /\ IsWalk(w, Stream)
         /\ \A n \in 0 .. Len(Stream) : Found(w, Stream, Told, n)
         /\ ~seen.parallel /\ Asked \cap Started # {} =>
              w[Len(Stream)].pending \in {None} \cup Asked

LEMMA FoundWeaker ==
  ASSUME NEW w, NEW s, NEW p, NEW q, q \subseteq p, NEW n, Found(w, s, p, n)
  PROVE  Found(w, s, q, n)
BY DEF Found

LEMMA StepsAppended ==
  ASSUME TypeOK, TypeOK', NEW e, Appends(e), Told' \subseteq Told, NEW w,
         IsWalk(w, Stream),
         \A n \in 0 .. Len(Stream) : Found(w, Stream, Told, n),
         e.type = "tool_end" /\ e.of \in Told =>
           e.call = e.of /\ w[Len(Stream)].pending \in {None, e.of}
  PROVE  \E v : /\ IsWalk(v, Stream')
                /\ \A n \in 0 .. Len(Stream') : Found(v, Stream', Told', n)
                /\ v[Len(Stream')] = StepOf(w[Len(Stream)], e)
<1> DEFINE s == Stream
           t == Append(s, e)
           p == Told
           m == Len(s)
<1>1. s \in Seq(Event) /\ e \in Event /\ Stream' = t
  BY StreamTyped DEF Appends
<1>2. m \in Nat /\ Len(t) = m + 1 /\ t[m + 1] = e /\ \A i \in 1 .. m : t[i] = s[i]
  BY <1>1, AppendProperties, LenProperties
<1>3. PICK v : /\ IsWalk(v, t) /\ \A n \in 0 .. m : v[n] = w[n]
               /\ v[m + 1] = StepOf(w[m], e)
  BY <1>1, WalkExtended
<1> HIDE DEF t, m, s
<1>4. \A n \in 0 .. m : Found(w, s, p, n)
  BY DEF m, s
<1> HIDE DEF p
<1>5. ASSUME NEW n \in 0 .. m PROVE Found(v, t, p, n)
  <2>1. n \in Nat /\ (\A i \in 1 .. n : s[i] = t[i]) /\ v[n] = w[n]
    BY <1>2, <1>3
  <2> QED BY <1>4, <2>1, FoundSame
<1>6. Found(v, t, p, m + 1)
  <2>1. m \in 0 .. m /\ v[m] = w[m] /\ v[m + 1] = StepOf(v[m], e)
    BY <1>2, <1>3
  <2>2. e.type = "tool_end" /\ e.of \in p => e.call = e.of /\ v[m].pending \in {None, e.of}
    BY <2>1 DEF p, m, s
  <2>3. Found(v, t, p, m)
    BY <1>5, <2>1
  <2> QED BY <1>1, <1>2, <2>1, <2>2, <2>3, FoundNext
<1>7. ASSUME NEW n \in 0 .. m + 1 PROVE Found(v, t, Told', n)
  <2>1. Found(v, t, p, n)
    BY <1>2, <1>5, <1>6
  <2> QED BY <2>1, FoundWeaker DEF p
<1> QED BY <1>1, <1>2, <1>3, <1>7 DEF m, s

LEMMA AskedStays ==
  ASSUME ToolInv, ToolInv', [Next]_vars
  PROVE  Asked' = Asked \/ (Asked' \cap Started') = {}
<1>1. CASE BeginCall
  <2>1. /\ fw'.shown = 0 /\ Streaming'
    BY <1>1 DEF BeginCall, ToolInv, TypeOK, FrameworkType, Streaming
  <2>2. fw'.asked \in Seq(Tool)
    BY DEF ToolInv, TypeOK, FrameworkType
  <2>3. /\ Asked' = {fw'.asked[i] : i \in 1 .. Len(fw'.asked)}
        /\ Hidden' = {fw'.asked[i] : i \in 0 + 1 .. Len(fw'.asked)}
    BY <2>1, <2>2, LenProperties DEF Asked, Hidden, ToSet
  <2>4. Hidden' = Asked'
    BY <2>3
  <2> QED BY <2>1, <2>4 DEF ToolInv, AskInv
<1>2. CASE Chunk
  <2>1. fw'.asked = fw.asked
    BY <1>2 DEF Chunk, ToolInv, TypeOK, FrameworkType
  <2> QED BY <2>1 DEF Asked
<1>4. CASE FrameworkError \/ StreamClosed
  <2>1. fw'.asked = <<>>
    BY <1>4 DEF FrameworkError, StreamClosed, Dropped, ToolInv, TypeOK, FrameworkType
  <2> QED BY <2>1, ToSetEmpty DEF Asked
<1>3. CASE ~BeginCall /\ ~Chunk /\ ~FrameworkError /\ ~StreamClosed
  <2>0. fw \in FrameworkType
    BY DEF ToolInv, TypeOK
  <2>1. fw'.asked = fw.asked
    BY <1>3, <2>0 DEF FrameworkType, Next, Goroutine, Framework, Start, OpenCall,
       StartTool, SkipTool, EndChunk, EndCall, RunEnds, CloseOut, StartRefused, AgentStarts,
       NamelessChunk, LastChunk, Completion, Answered, ToolResponds, BuilderReceives,
       BuilderEnds, Over, vars
  <2> QED BY <2>1 DEF Asked
<1> QED BY <1>1, <1>2, <1>3, <1>4

LEMMA StepsStep ==
  ASSUME ToolStreamInv, StepsInv, [Next]_vars
  PROVE  StepsInv'
<1>1. /\ ToolInv /\ ToolInv' /\ TypeOK /\ TypeOK' /\ (~seen'.parallel => ~seen.parallel)
      /\ fw \in FrameworkType /\ Told' \subseteq Told
  BY ToolStep, HistoryGrows DEF ToolStreamInv, ToolInv, TypeOK, Told
<1>2. PICK w : /\ IsWalk(w, Stream)
               /\ \A n \in 0 .. Len(Stream) : Found(w, Stream, Told, n)
               /\ ~seen.parallel /\ Asked \cap Started # {} =>
                    w[Len(Stream)].pending \in {None} \cup Asked
  BY DEF StepsInv
<1>3. ASSUME Stream' = Stream PROVE StepsInv'
  <2>1. Started' = Started
    BY <1>3 DEF Started
  <2>2. \A n \in 0 .. Len(Stream) : Found(w, Stream, Told', n)
    BY <1>1, <1>2, FoundWeaker
  <2>3. ~seen'.parallel /\ (Asked' \cap Started') # {} =>
          w[Len(Stream)].pending \in {None} \cup Asked'
    BY <1>1, <1>2, <2>1, AskedStays
  <2> QED BY <1>2, <1>3, <2>2, <2>3 DEF StepsInv
<1>4. ASSUME NEW e, Appends(e),
             e.type = "tool_end" /\ e.of \in Told =>
               e.call = e.of /\ w[Len(Stream)].pending \in {None, e.of},
             NEW p, p = StepOf(w[Len(Stream)], e).pending,
             ~seen'.parallel /\ (Asked' \cap Started') # {} => p \in {None} \cup Asked'
      PROVE  StepsInv'
  <2>1. PICK v : /\ IsWalk(v, Stream')
                 /\ \A n \in 0 .. Len(Stream') : Found(v, Stream', Told', n)
                 /\ v[Len(Stream')] = StepOf(w[Len(Stream)], e)
    BY <1>1, <1>2, <1>4, StepsAppended
  <2> QED BY <1>4, <2>1 DEF StepsInv
<1>5. CASE StartTool
  <2> DEFINE e == StartEvent(Head(frame.todo))
  <2>1. Appends(e)
    BY <1>1, <1>5, StartToolEvent
  <2>2. e.type = "tool_start" /\ e.call = Head(frame.todo)
    BY DEF StartEvent, Numbered, RunEvent
  <2>3. Head(frame.todo) \in Asked
    BY <1>1, <1>5, HeadOfTodo DEF ToolInv, AskInv, StartTool
  <2>4. Asked' = Asked
    BY <1>5 DEF StartTool, Asked
  <2> HIDE DEF e
  <2>5. StepOf(w[Len(Stream)], e).pending = Head(frame.todo)
    <3>1. Len(Stream) \in 0 .. Len(Stream)
      BY <1>1, StreamTyped, LenProperties
    <3>2. w[Len(Stream)] \in StepState
      BY <1>2, <3>1 DEF Found
    <3> QED BY <2>2, <3>2 DEF StepOf, StepState
  <2> QED BY <1>4, <2>1, <2>2, <2>3, <2>4, <2>5
<1>6. CASE ToolResponds
  <2> PICK t \in fw.waiting : Send([Numbered("tool_end") EXCEPT !.call = NameOf(IdOf(t)), !.of = t])
    BY <1>6 DEF ToolResponds
  <2> DEFINE e == [Numbered("tool_end") EXCEPT !.call = NameOf(IdOf(t)), !.of = t]
  <2>1. norm.seq + 1 \in Nat /\ norm \in NormalizerType
    BY <1>1 DEF TypeOK, NormalizerType
  <2>2. t \in Tool /\ NameOf(IdOf(t)) \in Tool \cup {None}
    BY <1>1, <2>1, StreamAssumption DEF FrameworkType, IdOf, Ids, NameOf, NormalizerType
  <2>3. e \in Event
    BY <2>1, <2>2 DEF Numbered, RunEvent, Event
  <2>4. e.type = "tool_end" /\ e.call = NameOf(IdOf(t)) /\ e.of = t
    BY DEF Numbered, RunEvent
  <2>5. Appends(e)
    BY <1>1, <1>6, <2>3, SendAppends DEF ToolResponds
  <2>6. Ready
    BY <1>6 DEF ToolResponds
  <2> HIDE DEF e
  <2>8. e.of \in Told => e.call = e.of /\ w[Len(Stream)].pending \in {None, e.of}
    <3> SUFFICES ASSUME e.of \in Told
                 PROVE  e.call = e.of /\ w[Len(Stream)].pending \in {None, e.of}
      OBVIOUS
    <3>1. ~seen.parallel /\ t \notin seen.nameless
      BY <2>4 DEF Told
    <3>2. t \in Started /\ t \in Asked /\ e.call = e.of
      BY <1>1, <2>4, <2>6, <3>1, ResponseNamed
    <3>3. Asked = {t}
      BY <1>1, <3>1, <3>2 DEF ToolInv, NameInv
    <3> QED BY <1>2, <2>4, <3>1, <3>2, <3>3
  <2>9. StepOf(w[Len(Stream)], e).pending = None
    BY <2>4 DEF StepOf
  <2> QED BY <1>4, <2>5, <2>8, <2>9
<1>7. CASE ~StartTool /\ ~ToolResponds
  <2>1. ASSUME NEW e, Appends(e), e.type \notin {"tool_start", "tool_end"} PROVE StepsInv'
    <3>1. StepOf(w[Len(Stream)], e).pending = w[Len(Stream)].pending
      BY <2>1 DEF StepOf
    <3>2. Started' = Started
      BY <1>1, <2>1, StartedAppended
    <3>3. ~seen'.parallel /\ (Asked' \cap Started') # {} =>
            w[Len(Stream)].pending \in {None} \cup Asked'
      BY <1>1, <1>2, <3>2, AskedStays
    <3> QED BY <1>4, <2>1, <3>1, <3>3
  <2> QED BY <1>1, <1>3, <1>7, <2>1, OtherEvents DEF OtherEvent
<1> QED BY <1>5, <1>6, <1>7

LEMMA InitSteps == Init => StepsInv
<1> SUFFICES ASSUME Init PROVE StepsInv
  OBVIOUS
<1>1. Stream = <<>> /\ Len(Stream) = 0 /\ Started = {}
  BY InitTools, EmptySeq, ConcatEmptySeq DEF Init, Stream, Started
<1> DEFINE w == [n \in 0 .. 0 |-> NoSteps]
<1>2. w = [n \in 0 .. 0 |-> IF n = 0 THEN NoSteps ELSE StepOf(w[n - 1], Stream[n])]
  <2>1. \A n \in 0 .. 0 : n = 0
    OBVIOUS
  <2> HIDE DEF w
  <2>2. [n \in 0 .. 0 |-> IF n = 0 THEN NoSteps ELSE StepOf(w[n - 1], Stream[n])]
          = [n \in 0 .. 0 |-> NoSteps]
    BY <2>1
  <2> QED BY <2>2 DEF w
<1>3. IsWalk(w, Stream)
  BY <1>1, <1>2 DEF IsWalk
<1>4. w[0] = NoSteps
  OBVIOUS
<1> HIDE DEF w
<1>5. Found(w, Stream, Told, 0)
  <2>1. EndsTo(Stream, 0) = {} /\ Nth(Stream, 0) = 0
    BY EndsCounted
  <2>2. NoSteps \in StepState /\ Len(NoSteps.steps) = 0
    BY EmptySeq DEF NoSteps, StepState
  <2> QED BY <1>4, <2>1, <2>2 DEF Found
<1> QED BY <1>1, <1>3, <1>5 DEF StepsInv

\* diff.BuildSteps (diff.go) makes one step of each result of a tool, in their order; when no
\* answer asks for two tools at once, its call is the one that the result answers, though an
\* error may have left a started call without a result.
THEOREM StepsAreSequential == Spec => []SequentialSteps
<1>1. ToolStreamInv /\ StepsInv => SequentialSteps
  <2> SUFFICES ASSUME ToolStreamInv, StepsInv PROVE SequentialSteps
    OBVIOUS
  <2> DEFINE m     == Len(trace)
             steps == ToolSteps(trace)
             ends  == {i \in DOMAIN trace : trace[i].type = "tool_end"}
  <2>1. PICK w : /\ IsWalk(w, Stream)
                 /\ \A n \in 0 .. Len(Stream) : Found(w, Stream, Told, n)
    BY DEF StepsInv
  <2>2. /\ trace \in Seq(Event) /\ out \in Seq(Event) /\ Stream \in Seq(Event)
        /\ m \in 0 .. Len(Stream) /\ m \in Nat /\ DOMAIN trace = 1 .. m
        /\ \A i \in 1 .. m : trace[i] = Stream[i]
    <3>1. trace \in Seq(Event) /\ out \in Seq(Event)
      BY DEF ToolStreamInv, ToolInv, TypeOK
    <3> QED BY <3>1, ConcatProperties, LenProperties DEF Stream
  <2>3. steps = w[m].steps
    BY <2>1, <2>2, StepsOfPrefix
  <2>4. Found(w, trace, Told, m)
    BY <2>1, <2>2, FoundSame
  <2>5. ends = EndsTo(trace, m)
    BY <2>2 DEF EndsTo
  <2>6. ASSUME NEW i \in ends PROVE Cardinality({j \in ends : j =< i}) = Nth(trace, i)
    <3>1. {j \in ends : j =< i} = EndsTo(trace, i)
      BY <2>2, <2>5 DEF EndsTo
    <3> QED BY <3>1 DEF Nth
  <2>7. Len(steps) = Cardinality(ends)
    BY <2>3, <2>4, <2>5 DEF Found, Nth
  <2>8. ASSUME NEW i \in ends
        PROVE  /\ steps[Nth(trace, i)].result = trace[i].of
               /\ trace[i].of \in Told => steps[Nth(trace, i)].call = trace[i].of
    BY <2>3, <2>4, <2>5 DEF Found
  <2> HIDE DEF steps, ends
  <2>9. \A i \in ends :
          /\ steps[Cardinality({j \in ends : j =< i})].result = trace[i].of
          /\ trace[i].of \in Told => steps[Cardinality({j \in ends : j =< i})].call = trace[i].of
    BY <2>6, <2>8
  <2> QED BY <2>7, <2>9 DEF SequentialSteps, steps, ends
<1>2. Init => ToolStreamInv
  <2> SUFFICES ASSUME Init PROVE ToolStreamInv
    OBVIOUS
  <2>1. DOMAIN Stream = {}
    BY EmptySeq, ConcatEmptySeq DEF Init, Stream
  <2> QED BY <2>1, InitTools DEF ToolStreamInv, StartedOnce, ToolEndsMatch
<1> QED BY <1>1, <1>2, InitSteps, ToolStreamStep, StepsStep, PTL DEF Spec

-----------------------------------------------------------------------------
(* The comparison of two traces (TraceDiff) *)

(* The values of first, and of an entry of the listing. *)
Divergence == [stepA : Nat, stepB : Nat, A : Steps \cup {NoStep}, B : Steps \cup {NoStep}]
Entry == [a : Nat, b : Nat]

LEMMA CompareInitType == CompareInit => CompareTypeOK
<1> SUFFICES ASSUME CompareInit PROVE CompareTypeOK
  OBVIOUS
<1>1. PICK n \in 0..MaxSteps, m \in 0..MaxSteps :
        stepsA \in [1..n -> Steps] /\ stepsB \in [1..m -> Steps]
  BY DEF CompareInit
<1>2. n \in Nat /\ m \in Nat
  BY TraceDiffAssumption
<1>3. stepsA \in Seq(Steps) /\ stepsB \in Seq(Steps)
  BY <1>1, <1>2
<1>4. 0 \in 0..Len(stepsA) /\ 0 \in 0..Len(stepsB)
  BY <1>3
<1>5. NoDivergence \in Divergence
  BY DEF NoDivergence, Divergence
<1>6. <<>> \in Seq(Line) /\ <<>> \in Seq(Entry)
  BY EmptySeq
<1> QED BY <1>3, <1>4, <1>5, <1>6 DEF CompareInit, CompareTypeOK, Divergence, Entry

LEMMA RestTyped ==
  ASSUME CompareTypeOK
  PROVE  /\ RestA \in Seq(Entry) /\ RestB \in Seq(Entry)
         /\ [k \in 1..Limit |-> Described(lines[k])] \in Seq(Entry)
         /\ Limit \in 0..Len(lines)
<1>0. /\ Len(stepsA) \in Nat /\ Len(stepsB) \in Nat /\ Len(lines) \in Nat
      /\ first.stepA \in Nat /\ first.stepB \in Nat
      /\ \A k \in 1..Len(lines) : lines[k] \in Line
      /\ full \in BOOLEAN
  BY DEF CompareTypeOK
<1>1. RestA \in Seq(Entry)
  <2>1. CASE full /\ first # NoDivergence /\ first.stepA < Len(stepsA)
    <3> DEFINE n == Len(stepsA) - first.stepA
    <3>1. n \in Nat
      BY <1>0, <2>1
    <3>2. \A k \in 1..n : [a |-> first.stepA + k, b |-> 0] \in Entry
      BY <1>0, <3>1 DEF Entry
    <3> HIDE DEF n
    <3>3. [k \in 1..n |-> [a |-> first.stepA + k, b |-> 0]] \in Seq(Entry)
      BY <3>1, <3>2
    <3> QED BY <2>1, <3>3 DEF RestA, n
  <2>2. CASE ~(full /\ first # NoDivergence /\ first.stepA < Len(stepsA))
    BY <2>2, EmptySeq DEF RestA
  <2> QED BY <2>1, <2>2
<1>2. RestB \in Seq(Entry)
  <2>1. CASE full /\ first # NoDivergence /\ first.stepB < Len(stepsB)
    <3> DEFINE n == Len(stepsB) - first.stepB
    <3>1. n \in Nat
      BY <1>0, <2>1
    <3>2. \A k \in 1..n : [a |-> 0, b |-> first.stepB + k] \in Entry
      BY <1>0, <3>1 DEF Entry
    <3> HIDE DEF n
    <3>3. [k \in 1..n |-> [a |-> 0, b |-> first.stepB + k]] \in Seq(Entry)
      BY <3>1, <3>2
    <3> QED BY <2>1, <3>3 DEF RestB, n
  <2>2. CASE ~(full /\ first # NoDivergence /\ first.stepB < Len(stepsB))
    BY <2>2, EmptySeq DEF RestB
  <2> QED BY <2>1, <2>2
<1>3. Limit \in 0..Len(lines)
  BY <1>0, TraceDiffAssumption DEF Limit
<1>4. \A k \in 1..Limit : Described(lines[k]) \in Entry
  <2> SUFFICES ASSUME NEW k \in 1..Limit PROVE Described(lines[k]) \in Entry
    OBVIOUS
  <2>1. lines[k] \in Line
    BY <1>0, <1>3
  <2> QED BY <2>1 DEF Described, Line, Entry
<1>5. [k \in 1..Limit |-> Described(lines[k])] \in Seq(Entry)
  BY <1>3, <1>4
<1> QED BY <1>1, <1>2, <1>3, <1>5

LEMMA CompareTypeStep == CompareTypeOK /\ [CompareNext]_compareVars => CompareTypeOK'
<1> SUFFICES ASSUME CompareTypeOK, [CompareNext]_compareVars PROVE CompareTypeOK'
  OBVIOUS
<1>0. /\ stepsA \in Seq(Steps) /\ stepsB \in Seq(Steps)
      /\ Len(stepsA) \in Nat /\ Len(stepsB) \in Nat
      /\ posA \in 0..Len(stepsA) /\ posB \in 0..Len(stepsB)
      /\ \A n \in 1..Len(stepsA) : stepsA[n] \in Steps
      /\ \A n \in 1..Len(stepsB) : stepsB[n] \in Steps
      /\ lines \in Seq(Line) /\ first \in Divergence /\ listing \in Seq(Entry)
      /\ identical \in BOOLEAN /\ full \in BOOLEAN
      /\ phase \in {"walk", "trail", "compared", "listed"}
  BY DEF CompareTypeOK, Divergence, Entry
<1> SUFFICES /\ stepsA' \in Seq(Steps) /\ stepsB' \in Seq(Steps)
             /\ posA' \in 0..Len(stepsA') /\ posB' \in 0..Len(stepsB')
             /\ lines' \in Seq(Line) /\ first' \in Divergence /\ listing' \in Seq(Entry)
             /\ identical' \in BOOLEAN /\ full' \in BOOLEAN
             /\ phase' \in {"walk", "trail", "compared", "listed"}
  BY DEF CompareTypeOK, Divergence, Entry
<1>1. CASE UNCHANGED compareVars
  BY <1>0, <1>1 DEF compareVars
<1>8. /\ posA \in Nat /\ posB \in Nat /\ posA + 1 \in Nat /\ posB + 1 \in Nat
      /\ posA < Len(stepsA) => stepsA[posA + 1] \in Steps /\ posA + 1 \in 0..Len(stepsA)
      /\ posB < Len(stepsB) => stepsB[posB + 1] \in Steps /\ posB + 1 \in 0..Len(stepsB)
  BY <1>0
<1>2. CASE Match
  <2>1. [a |-> posA + 1, b |-> posB + 1, divergence |-> FALSE] \in Line
    BY <1>8 DEF Line
  <2>2. lines' \in Seq(Line)
    BY <1>0, <1>2, <2>1 DEF Match
  <2> QED BY <1>0, <1>2, <1>8, <2>2 DEF Match
<1>3. CASE Diverge
  <2>1. [a |-> posA + 1, b |-> posB + 1, divergence |-> TRUE] \in Line
    BY <1>8 DEF Line
  <2>7. lines' = Append(lines, [a |-> posA + 1, b |-> posB + 1, divergence |-> TRUE])
    BY <1>3 DEF Diverge
  <2>2. lines' \in Seq(Line)
    BY <1>0, <2>1, <2>7
  <2>3. [stepA |-> posA + 1, stepB |-> posB + 1,
         A |-> stepsA[posA + 1], B |-> stepsB[posB + 1]] \in Divergence
    BY <1>3, <1>8 DEF Diverge, Divergence
  <2>4. first' \in Divergence
    BY <1>0, <1>3, <2>3 DEF Diverge, MarkDivergence
  <2>5. (posA' = posA + 1 /\ posB' = posB) \/ (posA' = posA /\ posB' = posB + 1)
    BY <1>3 DEF Diverge
  <2>6. posA' \in 0..Len(stepsA) /\ posB' \in 0..Len(stepsB)
    BY <1>0, <1>3, <1>8, <2>5 DEF Diverge
  <2> QED BY <1>0, <1>3, <2>2, <2>4, <2>6 DEF Diverge
<1>4. CASE TrailA
  <2>1. [a |-> posA + 1, b |-> 0, divergence |-> first = NoDivergence] \in Line
    BY <1>8 DEF Line
  <2>2. lines' \in Seq(Line)
    BY <1>0, <1>4, <2>1 DEF TrailA
  <2>3. [stepA |-> posA + 1, stepB |-> posB + 1,
         A |-> stepsA[posA + 1], B |-> NoStep] \in Divergence
    BY <1>4, <1>8 DEF TrailA, Divergence
  <2>4. first' \in Divergence
    BY <1>0, <1>4, <2>3 DEF TrailA, MarkDivergence
  <2> QED BY <1>0, <1>4, <1>8, <2>2, <2>4 DEF TrailA
<1>5. CASE TrailB
  <2>1. [a |-> 0, b |-> posB + 1, divergence |-> first = NoDivergence] \in Line
    BY <1>8 DEF Line
  <2>2. lines' \in Seq(Line)
    BY <1>0, <1>5, <2>1 DEF TrailB
  <2>3. [stepA |-> posA + 1, stepB |-> posB + 1,
         A |-> NoStep, B |-> stepsB[posB + 1]] \in Divergence
    BY <1>5, <1>8 DEF TrailB, Divergence
  <2>4. first' \in Divergence
    BY <1>0, <1>5, <2>3 DEF TrailB, MarkDivergence
  <2> QED BY <1>0, <1>5, <1>8, <2>2, <2>4 DEF TrailB
<1>6. CASE Finish
  BY <1>0, <1>6 DEF Finish
<1>7. CASE PrintTrajectory
  <2>1. listing' \in Seq(Entry)
    BY <1>7, RestTyped DEF PrintTrajectory
  <2> QED BY <1>0, <1>7, <2>1 DEF PrintTrajectory
<1> QED BY <1>1, <1>2, <1>3, <1>4, <1>5, <1>6, <1>7 DEF CompareNext

(* What Compare has found: the runs agree on their first c steps and have  *)
(* a line for each. Then they are still being walked, or differ, or one of *)
(* them has ended and the other has a line for each further step so far,   *)
(* or both have ended.                                                     *)
Common(c) ==
  /\ c =< Len(stepsA) /\ c =< Len(stepsB) /\ c =< Len(lines)
  /\ \A n \in 1..c :
       /\ KeyOf(stepsA[n]) = KeyOf(stepsB[n])
       /\ lines[n] = [a |-> n, b |-> n, divergence |-> FALSE]

Walking(c) ==
  /\ phase = "walk"
  /\ posA = c /\ posB = c /\ Len(lines) = c
  /\ first = NoDivergence /\ identical = FALSE

Diverged(c) ==
  /\ phase \in {"compared", "listed"}
  /\ c < Len(stepsA) /\ c < Len(stepsB)
  /\ KeyOf(stepsA[c + 1]) # KeyOf(stepsB[c + 1])
  /\ Len(lines) = c + 1
  /\ lines[c + 1] = [a |-> c + 1, b |-> c + 1, divergence |-> TRUE]
  /\ first = [stepA |-> c + 1, stepB |-> c + 1, A |-> stepsA[c + 1], B |-> stepsB[c + 1]]
  /\ identical = FALSE

LongerA(c) ==
  /\ phase \in {"trail", "compared", "listed"}
  /\ c = Len(stepsB) /\ posB = c /\ c < posA
  /\ phase # "trail" => posA = Len(stepsA)
  /\ Len(lines) = posA
  /\ \A n \in (c + 1)..posA : lines[n] = [a |-> n, b |-> 0, divergence |-> n = c + 1]
  /\ first = [stepA |-> c + 1, stepB |-> c + 1, A |-> stepsA[c + 1], B |-> NoStep]
  /\ identical = FALSE

LongerB(c) ==
  /\ phase \in {"trail", "compared", "listed"}
  /\ c = Len(stepsA) /\ posA = c /\ c < posB
  /\ phase # "trail" => posB = Len(stepsB)
  /\ Len(lines) = posB
  /\ \A n \in (c + 1)..posB : lines[n] = [a |-> 0, b |-> n, divergence |-> n = c + 1]
  /\ first = [stepA |-> c + 1, stepB |-> c + 1, A |-> NoStep, B |-> stepsB[c + 1]]
  /\ identical = FALSE

Equal(c) ==
  /\ phase \in {"compared", "listed"}
  /\ c = Len(stepsA) /\ c = Len(stepsB) /\ Len(lines) = c
  /\ first = NoDivergence /\ identical = TRUE

Result(c) == Common(c) /\ (Walking(c) \/ Diverged(c) \/ LongerA(c) \/ LongerB(c) \/ Equal(c))

CompareInv == CompareTypeOK /\ \E c \in Nat : Result(c)

LEMMA CompareInitInv == CompareInit => CompareInv
<1> SUFFICES ASSUME CompareInit PROVE CompareInv
  OBVIOUS
<1>1. CompareTypeOK
  BY CompareInitType
<1>2. Result(0)
  BY <1>1 DEF CompareInit, CompareTypeOK, Result, Common, Walking
<1> QED BY <1>1, <1>2 DEF CompareInv

LEMMA CompareStep == CompareInv /\ [CompareNext]_compareVars => CompareInv'
<1> SUFFICES ASSUME CompareInv, [CompareNext]_compareVars PROVE CompareInv'
  OBVIOUS
<1>0. CompareTypeOK /\ CompareTypeOK'
  BY CompareTypeStep DEF CompareInv
<1>1. PICK c \in Nat : Result(c)
  BY DEF CompareInv
<1> SUFFICES (\E d \in Nat : Result(d))'
  BY <1>0 DEF CompareInv
<1>2. /\ Len(stepsA) \in Nat /\ Len(stepsB) \in Nat /\ Len(lines) \in Nat
      /\ posA \in Nat /\ posB \in Nat /\ posA =< Len(stepsA) /\ posB =< Len(stepsB)
      /\ lines \in Seq(Line)
  BY <1>0 DEF CompareTypeOK
<1>3. CASE UNCHANGED compareVars
  BY <1>1, <1>3 DEF compareVars, Result, Common, Walking, Diverged, LongerA, LongerB, Equal
<1>4. CASE Match
  <2>1. Walking(c) /\ Common(c)
    BY <1>1, <1>4 DEF Match, Result, Diverged, LongerA, LongerB, Equal
  <2>2. /\ Len(lines') = c + 1 /\ lines'[c + 1] = [a |-> c + 1, b |-> c + 1, divergence |-> FALSE]
        /\ \A n \in 1..c : lines'[n] = lines[n]
    BY <1>2, <1>4, <2>1 DEF Match, Walking
  <2>3. ASSUME NEW n \in 1..(c + 1)
        PROVE  /\ KeyOf(stepsA[n]) = KeyOf(stepsB[n])
               /\ lines'[n] = [a |-> n, b |-> n, divergence |-> FALSE]
    <3>1. CASE n = c + 1
      BY <1>4, <2>1, <2>2, <3>1 DEF Match, Walking
    <3>2. CASE n # c + 1
      <4>1. n \in 1..c
        BY <3>2
      <4> QED BY <2>1, <2>2, <4>1 DEF Common
    <3> QED BY <3>1, <3>2
  <2>4. Common(c + 1)'
    <3>1. c + 1 =< Len(stepsA) /\ c + 1 =< Len(stepsB) /\ c + 1 =< Len(lines')
      BY <1>2, <1>4, <2>1, <2>2 DEF Match, Walking
    <3> QED BY <1>4, <2>3, <3>1 DEF Match, Common
  <2>5. Walking(c + 1)'
    BY <1>2, <1>4, <2>1, <2>2 DEF Match, Walking
  <2> QED BY <2>4, <2>5 DEF Result
<1>5. CASE Diverge
  <2>1. Walking(c) /\ Common(c)
    BY <1>1, <1>5 DEF Diverge, Result, Diverged, LongerA, LongerB, Equal
  <2>2. lines' = Append(lines, [a |-> c + 1, b |-> c + 1, divergence |-> TRUE])
    BY <1>5, <2>1 DEF Diverge, Walking
  <2>3. /\ Len(lines') = c + 1 /\ lines'[c + 1] = [a |-> c + 1, b |-> c + 1, divergence |-> TRUE]
        /\ \A n \in 1..c : lines'[n] = lines[n]
    BY <1>2, <2>1, <2>2 DEF Walking
  <2>4. stepsA' = stepsA /\ stepsB' = stepsB
    BY <1>5 DEF Diverge
  <2>5. Common(c)'
    BY <2>1, <2>3, <2>4 DEF Common
  <2>6. Diverged(c)'
    BY <1>2, <1>5, <2>1, <2>3 DEF Diverge, MarkDivergence, Walking, Diverged
  <2> QED BY <2>5, <2>6 DEF Result
<1>6. CASE TrailA
  <2>1. Common(c) /\ (Walking(c) \/ LongerA(c))
    BY <1>1, <1>2, <1>6 DEF TrailA, Result, Diverged, LongerB, Equal
  <2>2. c = Len(stepsB) /\ posB = c /\ c =< posA /\ Len(lines) = posA
    BY <1>2, <1>6, <2>1 DEF TrailA, Walking, LongerA, Common
  <2>3. first = NoDivergence <=> posA = c
    BY <1>2, <2>1 DEF Walking, LongerA, NoDivergence
  <2>4. /\ Len(lines') = posA + 1
        /\ lines'[posA + 1] = [a |-> posA + 1, b |-> 0, divergence |-> first = NoDivergence]
        /\ \A n \in 1..posA : lines'[n] = lines[n]
    BY <1>2, <1>6, <2>2 DEF TrailA
  <2>5. Common(c)'
    BY <1>2, <1>6, <2>1, <2>2, <2>4 DEF TrailA, Common
  <2>6. ASSUME NEW n \in (c + 1)..(posA + 1)
        PROVE  lines'[n] = [a |-> n, b |-> 0, divergence |-> n = c + 1]
    <3>1. CASE n = posA + 1
      <4>1. (first = NoDivergence) = (n = c + 1)
        BY <1>2, <2>2, <2>3, <3>1
      <4> QED BY <2>4, <3>1, <4>1
    <3>2. CASE n # posA + 1
      <4>1. n \in (c + 1)..posA /\ n \in 1..posA
        BY <1>2, <3>2
      <4>2. LongerA(c)
        BY <1>2, <2>1, <4>1 DEF Walking
      <4> QED BY <2>4, <4>1, <4>2 DEF LongerA
    <3> QED BY <3>1, <3>2
  <2>7. first' = [stepA |-> c + 1, stepB |-> c + 1, A |-> stepsA[c + 1], B |-> NoStep]
    <3>1. CASE Walking(c)
      BY <1>6, <2>2, <3>1 DEF TrailA, MarkDivergence, Walking
    <3>2. CASE LongerA(c)
      BY <1>2, <1>6, <2>2, <2>3, <3>2 DEF TrailA, MarkDivergence, LongerA
    <3> QED BY <2>1, <3>1, <3>2
  <2>8. identical' = FALSE
    BY <1>6, <2>1 DEF TrailA, Walking, LongerA
  <2>9. LongerA(c)'
    BY <1>2, <1>6, <2>2, <2>4, <2>6, <2>7, <2>8 DEF TrailA, LongerA
  <2> QED BY <2>5, <2>9 DEF Result
<1>7. CASE TrailB
  <2>1. Common(c) /\ (Walking(c) \/ LongerB(c))
    BY <1>1, <1>2, <1>7 DEF TrailB, Result, Diverged, LongerA, Equal
  <2>2. c = Len(stepsA) /\ posA = c /\ c =< posB /\ Len(lines) = posB
    BY <1>2, <1>7, <2>1 DEF TrailB, Walking, LongerB, Common
  <2>3. first = NoDivergence <=> posB = c
    BY <1>2, <2>1 DEF Walking, LongerB, NoDivergence
  <2>4. /\ Len(lines') = posB + 1
        /\ lines'[posB + 1] = [a |-> 0, b |-> posB + 1, divergence |-> first = NoDivergence]
        /\ \A n \in 1..posB : lines'[n] = lines[n]
    BY <1>2, <1>7, <2>2 DEF TrailB
  <2>5. Common(c)'
    BY <1>2, <1>7, <2>1, <2>2, <2>4 DEF TrailB, Common
  <2>6. ASSUME NEW n \in (c + 1)..(posB + 1)
        PROVE  lines'[n] = [a |-> 0, b |-> n, divergence |-> n = c + 1]
    <3>1. CASE n = posB + 1
      <4>1. (first = NoDivergence) = (n = c + 1)
        BY <1>2, <2>2, <2>3, <3>1
      <4> QED BY <2>4, <3>1, <4>1
    <3>2. CASE n # posB + 1
      <4>1. n \in (c + 1)..posB /\ n \in 1..posB
        BY <1>2, <3>2
      <4>2. LongerB(c)
        BY <1>2, <2>1, <4>1 DEF Walking
      <4> QED BY <2>4, <4>1, <4>2 DEF LongerB
    <3> QED BY <3>1, <3>2
  <2>7. first' = [stepA |-> c + 1, stepB |-> c + 1, A |-> NoStep, B |-> stepsB[c + 1]]
    <3>1. CASE Walking(c)
      BY <1>7, <2>2, <3>1 DEF TrailB, MarkDivergence, Walking
    <3>2. CASE LongerB(c)
      BY <1>2, <1>7, <2>2, <2>3, <3>2 DEF TrailB, MarkDivergence, LongerB
    <3> QED BY <2>1, <3>1, <3>2
  <2>8. identical' = FALSE
    BY <1>7, <2>1 DEF TrailB, Walking, LongerB
  <2>9. LongerB(c)'
    BY <1>2, <1>7, <2>2, <2>4, <2>6, <2>7, <2>8 DEF TrailB, LongerB
  <2> QED BY <2>5, <2>9 DEF Result
<1>8. CASE Finish
  <2>1. Common(c)'
    BY <1>1, <1>8 DEF Finish, Result, Common
  <2>2. Walking(c) => Equal(c)'
    BY <1>2, <1>8 DEF Finish, Walking, Equal
  <2>3. ASSUME LongerA(c) PROVE LongerA(c)'
    <3>1. /\ phase' = "compared" /\ UNCHANGED <<stepsA, stepsB, posA, posB, lines, first>>
          /\ posA = Len(stepsA) /\ c = Len(stepsB)
      BY <1>8, <2>3 DEF Finish, LongerA
    <3>2. identical' = FALSE
      <4>1. Len(stepsA) # Len(stepsB)
        BY <1>2, <1>8, <2>3 DEF Finish, LongerA
      <4>2. identical' = (Len(stepsA) = Len(stepsB))
        BY <1>8 DEF Finish
      <4> QED BY <4>1, <4>2, Zenon
    <3> QED BY <2>3, <3>1, <3>2 DEF LongerA
  <2>4. ASSUME LongerB(c) PROVE LongerB(c)'
    <3>1. /\ phase' = "compared" /\ UNCHANGED <<stepsA, stepsB, posA, posB, lines, first>>
          /\ posB = Len(stepsB) /\ c = Len(stepsA)
      BY <1>8, <2>4 DEF Finish, LongerB
    <3>2. identical' = FALSE
      <4>1. Len(stepsA) # Len(stepsB)
        BY <1>2, <1>8, <2>4 DEF Finish, LongerB
      <4>2. identical' = (Len(stepsA) = Len(stepsB))
        BY <1>8 DEF Finish
      <4> QED BY <4>1, <4>2, Zenon
    <3> QED BY <2>4, <3>1, <3>2 DEF LongerB
  <2>5. Walking(c) \/ LongerA(c) \/ LongerB(c)
    BY <1>1, <1>8 DEF Finish, Result, Diverged, Equal
  <2> QED BY <2>1, <2>2, <2>3, <2>4, <2>5 DEF Result
<1>9. CASE PrintTrajectory
  <2>1. Common(c)'
    BY <1>1, <1>9 DEF PrintTrajectory, Result, Common
  <2>2. Diverged(c) => Diverged(c)'
    BY <1>9 DEF PrintTrajectory, Diverged
  <2>3. LongerA(c) => LongerA(c)'
    BY <1>9 DEF PrintTrajectory, LongerA
  <2>4. LongerB(c) => LongerB(c)'
    BY <1>9 DEF PrintTrajectory, LongerB
  <2>5. Equal(c) => Equal(c)'
    BY <1>9 DEF PrintTrajectory, Equal
  <2> QED BY <1>1, <1>9, <2>1, <2>2, <2>3, <2>4, <2>5 DEF Result, Walking, PrintTrajectory
<1> QED BY <1>3, <1>4, <1>5, <1>6, <1>7, <1>8, <1>9 DEF CompareNext

LEMMA CompareInvariant == CompareSpec => []CompareInv
BY CompareInitInv, CompareStep, PTL DEF CompareSpec

(* The line of the divergence, and that the longer run has a step there.   *)
AIsLonger(c) ==
  /\ c = Len(stepsB) /\ c < Len(stepsA)
  /\ first.stepA = c + 1 /\ first.stepB = c + 1
  /\ first.A = stepsA[c + 1] /\ first.B = NoStep
  /\ c + 1 \in 1..Len(lines)
  /\ lines[c + 1] = [a |-> c + 1, b |-> 0, divergence |-> TRUE]
  /\ identical = FALSE /\ Len(lines) = posA
  /\ phase # "trail" => posA = Len(stepsA)

LEMMA LongerAFacts == CompareTypeOK => \A c \in Nat : LongerA(c) => AIsLonger(c)
<1> SUFFICES ASSUME CompareTypeOK, NEW c \in Nat, LongerA(c) PROVE AIsLonger(c)
  OBVIOUS
<1>1. /\ phase \in {"trail", "compared", "listed"}
      /\ c = Len(stepsB) /\ posB = c /\ c < posA
      /\ phase # "trail" => posA = Len(stepsA)
      /\ Len(lines) = posA
      /\ first = [stepA |-> c + 1, stepB |-> c + 1, A |-> stepsA[c + 1], B |-> NoStep]
      /\ identical = FALSE
  BY DEF LongerA
<1>2. posA \in 0..Len(stepsA) /\ Len(stepsA) \in Nat /\ Len(stepsB) \in Nat
  BY DEF CompareTypeOK
<1>3. c + 1 \in (c + 1)..posA
  BY <1>1, <1>2
<1>4. lines[c + 1] = [a |-> c + 1, b |-> 0, divergence |-> TRUE]
  BY <1>3 DEF LongerA
<1> QED BY <1>1, <1>2, <1>4 DEF AIsLonger

BIsLonger(c) ==
  /\ c = Len(stepsA) /\ c < Len(stepsB)
  /\ first.stepA = c + 1 /\ first.stepB = c + 1
  /\ first.A = NoStep /\ first.B = stepsB[c + 1]
  /\ c + 1 \in 1..Len(lines)
  /\ lines[c + 1] = [a |-> 0, b |-> c + 1, divergence |-> TRUE]
  /\ identical = FALSE /\ Len(lines) = posB
  /\ phase # "trail" => posB = Len(stepsB)

LEMMA LongerBFacts == CompareTypeOK => \A c \in Nat : LongerB(c) => BIsLonger(c)
<1> SUFFICES ASSUME CompareTypeOK, NEW c \in Nat, LongerB(c) PROVE BIsLonger(c)
  OBVIOUS
<1>1. /\ phase \in {"trail", "compared", "listed"}
      /\ c = Len(stepsA) /\ posA = c /\ c < posB
      /\ phase # "trail" => posB = Len(stepsB)
      /\ Len(lines) = posB
      /\ first = [stepA |-> c + 1, stepB |-> c + 1, A |-> NoStep, B |-> stepsB[c + 1]]
      /\ identical = FALSE
  BY DEF LongerB
<1>2. posB \in 0..Len(stepsB) /\ Len(stepsA) \in Nat /\ Len(stepsB) \in Nat
  BY DEF CompareTypeOK
<1>3. c + 1 \in (c + 1)..posB
  BY <1>1, <1>2
<1>4. lines[c + 1] = [a |-> 0, b |-> c + 1, divergence |-> TRUE]
  BY <1>3 DEF LongerB
<1> QED BY <1>1, <1>2, <1>4 DEF BIsLonger

LEMMA ConcatParts ==
  \A s, t \in Seq(Entry) :
    /\ Len(s) \in Nat /\ Len(t) \in Nat
    /\ s \o t \in Seq(Entry) /\ Len(s \o t) = Len(s) + Len(t)
    /\ DOMAIN (s \o t) = 1..(Len(s) + Len(t))
    /\ \A k \in 1..Len(s) : (s \o t)[k] = s[k]
    /\ \A k \in 1..Len(t) : (s \o t)[Len(s) + k] = t[k]
<1> TAKE s \in Seq(Entry), t \in Seq(Entry)
<1>1. /\ Len(s) \in Nat /\ Len(t) \in Nat
      /\ s \o t \in Seq(Entry) /\ Len(s \o t) = Len(s) + Len(t)
      /\ DOMAIN (s \o t) = 1..(Len(s) + Len(t))
  BY ConcatProperties, LenProperties
<1>2. ASSUME NEW k \in 1..Len(s) PROVE (s \o t)[k] = s[k]
  <2>1. k \in 1..(Len(s) + Len(t)) /\ k =< Len(s)
    BY <1>1
  <2> QED BY <2>1, ConcatProperties
<1>3. ASSUME NEW k \in 1..Len(t) PROVE (s \o t)[Len(s) + k] = t[k]
  <2>1. Len(s) + k \in 1..(Len(s) + Len(t)) /\ ~(Len(s) + k =< Len(s)) /\ (Len(s) + k) - Len(s) = k
    BY <1>1
  <2>2. (s \o t)[Len(s) + k] = IF Len(s) + k =< Len(s) THEN s[Len(s) + k] ELSE t[(Len(s) + k) - Len(s)]
    BY <2>1, ConcatProperties
  <2> QED BY <2>1, <2>2
<1> QED BY <1>1, <1>2, <1>3

(* The comparison keeps its variables in their types. *)
THEOREM CompareTypeCorrect == CompareSpec => []CompareTypeOK
<1>1. CompareInv => CompareTypeOK
  BY DEF CompareInv
<1> QED BY <1>1, CompareInvariant, PTL

(* Whatever the steps of two runs, the divergence that Compare reports is  *)
(* the first place where they differ, and names what each run did there.   *)
LEMMA DivergenceIsFirst == CompareSpec => []FirstDivergenceIsFirst
<1>1. CompareInv => FirstDivergenceIsFirst
  <2> SUFFICES ASSUME CompareInv, first # NoDivergence PROVE FirstDivergenceIsFirst
    BY DEF FirstDivergenceIsFirst
  <2>1. PICK c \in Nat : Result(c)
    BY DEF CompareInv
  <2>2. /\ Len(stepsA) \in Nat /\ Len(stepsB) \in Nat
        /\ DOMAIN stepsA = 1..Len(stepsA) /\ DOMAIN stepsB = 1..Len(stepsB)
    BY DEF CompareInv, CompareTypeOK
  <2>3. \A n \in 1..c : n \in DOMAIN stepsA \cap DOMAIN stepsB /\ KeyOf(stepsA[n]) = KeyOf(stepsB[n])
    <3> TAKE n \in 1..c
    <3>1. c =< Len(stepsA) /\ c =< Len(stepsB)
      BY <2>1 DEF Result, Common
    <3>2. n \in DOMAIN stepsA /\ n \in DOMAIN stepsB
      BY <2>2, <3>1
    <3>3. KeyOf(stepsA[n]) = KeyOf(stepsB[n])
      BY <2>1 DEF Result, Common
    <3> QED BY <3>2, <3>3
  <2>4. (c + 1) - 1 = c
    OBVIOUS
  <2>5. CASE Diverged(c)
    <3>1. /\ first.stepA = c + 1 /\ first.stepB = c + 1
          /\ first.A = stepsA[c + 1] /\ first.B = stepsB[c + 1]
          /\ c + 1 \in DOMAIN stepsA /\ c + 1 \in DOMAIN stepsB
          /\ KeyOf(stepsA[c + 1]) # KeyOf(stepsB[c + 1])
      BY <2>2, <2>5 DEF Diverged
    <3> QED BY <2>3, <2>4, <3>1 DEF FirstDivergenceIsFirst, Place
  <2>6. CASE LongerA(c)
    <3>1. /\ first.stepA = c + 1 /\ first.stepB = c + 1
          /\ first.A = stepsA[c + 1] /\ first.B = NoStep
          /\ c + 1 \in DOMAIN stepsA /\ c + 1 \notin DOMAIN stepsB
      <4>1. AIsLonger(c)
        BY <2>6, LongerAFacts DEF CompareInv
      <4> QED BY <2>2, <4>1 DEF AIsLonger
    <3> QED BY <2>3, <2>4, <3>1 DEF FirstDivergenceIsFirst, Place
  <2>7. CASE LongerB(c)
    <3>1. /\ first.stepA = c + 1 /\ first.stepB = c + 1
          /\ first.A = NoStep /\ first.B = stepsB[c + 1]
          /\ c + 1 \notin DOMAIN stepsA /\ c + 1 \in DOMAIN stepsB
      <4>1. BIsLonger(c)
        BY <2>7, LongerBFacts DEF CompareInv
      <4> QED BY <2>2, <4>1 DEF BIsLonger
    <3> QED BY <2>3, <2>4, <3>1 DEF FirstDivergenceIsFirst, Place
  <2> QED BY <2>1, <2>5, <2>6, <2>7 DEF Result, Walking, Equal
<1> QED BY <1>1, CompareInvariant, PTL

(* Compare's verdict is right for every two runs. *)
LEMMA IdenticalIsEqual == CompareSpec => []IdenticalIffEqual
<1>1. CompareInv => IdenticalIffEqual
  <2> SUFFICES ASSUME CompareInv, Compared PROVE IdenticalIffEqual
    BY DEF IdenticalIffEqual
  <2> DEFINE Agree == /\ Len(stepsA) = Len(stepsB)
                      /\ \A n \in DOMAIN stepsA : KeyOf(stepsA[n]) = KeyOf(stepsB[n])
  <2>1. PICK c \in Nat : Result(c)
    BY DEF CompareInv
  <2>2. /\ Len(stepsA) \in Nat /\ Len(stepsB) \in Nat /\ posA \in Nat /\ posB \in Nat
        /\ DOMAIN stepsA = 1..Len(stepsA)
    BY DEF CompareInv, CompareTypeOK
  <2>3. phase \in {"compared", "listed"}
    BY DEF Compared
  <2>6. Len(stepsA) \in Nat /\ Len(stepsB) \in Nat
    BY <2>2
  <2>4. CASE Equal(c)
    <3>1. Agree
      BY <2>1, <2>2, <2>4 DEF Equal, Result, Common
    <3>2. identical = TRUE /\ first = NoDivergence
      BY <2>4 DEF Equal
    <3> QED BY <3>1, <3>2 DEF IdenticalIffEqual
  <2>5. CASE Diverged(c) \/ LongerA(c) \/ LongerB(c)
    <3>1. ~Agree
      <4>1. CASE Diverged(c)
        <5>1. c + 1 \in DOMAIN stepsA
          BY <2>2, <4>1 DEF Diverged
        <5> QED BY <4>1, <5>1 DEF Diverged
      <4>2. CASE LongerA(c)
        <5>1. AIsLonger(c)
          BY <4>2, LongerAFacts DEF CompareInv
        <5>2. Len(stepsA) \in Nat /\ Len(stepsB) \in Nat /\ Len(stepsA) # Len(stepsB)
          <6>1. c = Len(stepsB) /\ c < Len(stepsA)
            BY <5>1 DEF AIsLonger
          <6>2. c < Len(stepsA) => Len(stepsA) # c
            BY <2>6
          <6>3. c < Len(stepsB) => Len(stepsB) # c
            BY <2>6
          <6> QED BY <2>6, <6>1, <6>2, <6>3
        <5> QED BY <5>2
      <4>3. CASE LongerB(c)
        <5>1. BIsLonger(c)
          BY <4>3, LongerBFacts DEF CompareInv
        <5>2. Len(stepsA) \in Nat /\ Len(stepsB) \in Nat /\ Len(stepsA) # Len(stepsB)
          <6>1. c = Len(stepsA) /\ c < Len(stepsB)
            BY <5>1 DEF BIsLonger
          <6>2. c < Len(stepsA) => Len(stepsA) # c
            BY <2>6
          <6>3. c < Len(stepsB) => Len(stepsB) # c
            BY <2>6
          <6> QED BY <2>6, <6>1, <6>2, <6>3
        <5> QED BY <5>2
      <4> QED BY <2>5, <4>1, <4>2, <4>3
    <3>2. identical = FALSE
      BY <2>5 DEF Diverged, LongerA, LongerB
    <3>3. first.stepA = c + 1
      BY <2>5 DEF Diverged, LongerA, LongerB
    <3>4. first # NoDivergence
      BY <3>3 DEF NoDivergence
    <3> QED BY <3>1, <3>2, <3>4 DEF IdenticalIffEqual
  <2> QED BY <2>1, <2>3, <2>4, <2>5 DEF Result, Walking
<1> QED BY <1>1, CompareInvariant, PTL

(* The listing marks the line of the divergence and no other. *)
LEMMA OneMark == CompareSpec => []OneLineIsMarked
<1>1. CompareInv => OneLineIsMarked
  <2> SUFFICES ASSUME CompareInv, NEW n \in DOMAIN lines
               PROVE  /\ lines[n].divergence <=> (first # NoDivergence /\ n = Place)
                      /\ first = NoDivergence \/ n < Place => lines[n].a = n /\ lines[n].b = n
                      /\ first # NoDivergence /\ n > Place => lines[n].a = 0 \/ lines[n].b = 0
    BY DEF OneLineIsMarked
  <2>1. PICK c \in Nat : Result(c)
    BY DEF CompareInv
  <2>2. /\ DOMAIN lines = 1..Len(lines) /\ Len(lines) \in Nat /\ n \in Nat
        /\ posA \in Nat /\ posB \in Nat
    BY DEF CompareInv, CompareTypeOK
  <2>3. CASE Walking(c) \/ Equal(c)
    <3>1. n \in 1..c /\ first = NoDivergence
      BY <2>2, <2>3 DEF Walking, Equal
    <3>2. lines[n] = [a |-> n, b |-> n, divergence |-> FALSE]
      BY <2>1, <3>1 DEF Result, Common
    <3> QED BY <3>1, <3>2
  <2>4. CASE Diverged(c) \/ LongerA(c) \/ LongerB(c)
    <3>1. first.stepA = c + 1 /\ first.stepB = c + 1 /\ Place = c + 1
      BY <2>4 DEF Diverged, LongerA, LongerB, Place
    <3>2. first # NoDivergence
      BY <3>1 DEF NoDivergence
    <3>3. CASE n \in 1..c
      <4>1. lines[n] = [a |-> n, b |-> n, divergence |-> FALSE]
        BY <2>1, <3>3 DEF Result, Common
      <4>2. n # c + 1 /\ ~(n > c + 1)
        BY <3>3
      <4> QED BY <3>1, <3>2, <4>1, <4>2
    <3>4. CASE n = c + 1
      <4>1. lines[n].divergence
        <5>1. Diverged(c) \/ AIsLonger(c) \/ BIsLonger(c)
          BY <2>4, LongerAFacts, LongerBFacts DEF CompareInv
        <5> QED BY <3>4, <5>1 DEF Diverged, AIsLonger, BIsLonger
      <4>2. ~(n < c + 1) /\ ~(n > c + 1)
        BY <3>4
      <4> QED BY <3>1, <3>2, <3>4, <4>1, <4>2
    <3>5. CASE n > c + 1
      <4>1. LongerA(c) \/ LongerB(c)
        BY <2>2, <2>4, <3>5 DEF Diverged
      <4>2. CASE LongerA(c)
        <5>1. n \in (c + 1)..posA /\ n # c + 1 /\ ~(n < c + 1)
          BY <2>2, <3>5, <4>2 DEF LongerA
        <5>2. lines[n] = [a |-> n, b |-> 0, divergence |-> FALSE]
          BY <4>2, <5>1 DEF LongerA
        <5>3. ~lines[n].divergence /\ (lines[n].a = 0 \/ lines[n].b = 0)
          BY <5>1, <5>2
        <5> QED BY <3>1, <3>2, <5>1, <5>3
      <4>3. CASE LongerB(c)
        <5>1. n \in (c + 1)..posB /\ n # c + 1 /\ ~(n < c + 1)
          BY <2>2, <3>5, <4>3 DEF LongerB
        <5>2. lines[n] = [a |-> 0, b |-> n, divergence |-> FALSE]
          BY <4>3, <5>1 DEF LongerB
        <5>3. ~lines[n].divergence /\ (lines[n].a = 0 \/ lines[n].b = 0)
          BY <5>1, <5>2
        <5> QED BY <3>1, <3>2, <5>1, <5>3
      <4> QED BY <4>1, <4>2, <4>3
    <3>6. n \in 1..c \/ n = c + 1 \/ n > c + 1
      BY <2>2
    <3> QED BY <3>3, <3>4, <3>5, <3>6
  <2> QED BY <2>1, <2>3, <2>4 DEF Result
<1> QED BY <1>1, CompareInvariant, PTL

(* What diff.Compare (diff.go) returns of any two runs: their first        *)
(* divergence, whether they are identical, and the one marked line.        *)
THEOREM ComparisonCorrect == CompareSpec => []ComparisonIsRight
BY DivergenceIsFirst, IdenticalIsEqual, OneMark, PTL DEF ComparisonIsRight

(* What printTrajectory has printed: the aligned lines, and the rest of    *)
(* each run.                                                               *)
Listed ==
  phase = "listed" =>
    listing = [k \in 1..Limit |-> Described(lines[k])] \o RestA \o RestB

LEMMA ListedInvariant == CompareSpec => []Listed
<1>1. CompareInit => Listed
  BY DEF CompareInit, Listed
<1>2. Listed /\ [CompareNext]_compareVars => Listed'
  <2> SUFFICES ASSUME Listed, [CompareNext]_compareVars, phase' = "listed" PROVE Listed'
    BY DEF Listed
  <2>1. UNCHANGED <<stepsA, stepsB, lines, first, full>> /\ (UNCHANGED <<phase, listing>> \/ PrintTrajectory)
    BY DEF CompareNext, compareVars, Match, Diverge, TrailA, TrailB, Finish, PrintTrajectory
  <2>2. Limit' = Limit /\ RestA' = RestA /\ RestB' = RestB /\ lines' = lines
    BY <2>1 DEF Limit, RestA, RestB
  <2> QED BY <2>1, <2>2 DEF Listed, PrintTrajectory, Described
<1> QED BY <1>1, <1>2, PTL DEF CompareSpec

(* With --full, every step of each run is printed. *)
THEOREM FullListing == CompareSpec => []FullListingIsComplete
<1>1. CompareInv /\ Listed => FullListingIsComplete
  <2> SUFFICES ASSUME CompareInv, Listed, phase = "listed", full = TRUE
               PROVE  /\ \A n \in DOMAIN stepsA : \E k \in DOMAIN listing : listing[k].a = n
                      /\ \A n \in DOMAIN stepsB : \E k \in DOMAIN listing : listing[k].b = n
    BY DEF FullListingIsComplete, CompareInv, CompareTypeOK
  <2> DEFINE P == [k \in 1..Limit |-> Described(lines[k])]
             RA == RestA
             RB == RestB
  <2>1. PICK c \in Nat : Result(c)
    BY DEF CompareInv
  <2>2. /\ Len(stepsA) \in Nat /\ Len(stepsB) \in Nat /\ Len(lines) \in Nat
        /\ DOMAIN stepsA = 1..Len(stepsA) /\ DOMAIN stepsB = 1..Len(stepsB)
        /\ posA \in Nat /\ posB \in Nat
    BY DEF CompareInv, CompareTypeOK
  <2>3. P \in Seq(Entry) /\ RA \in Seq(Entry) /\ RB \in Seq(Entry)
    BY RestTyped DEF CompareInv
  <2>4. Limit = Len(lines)
    BY DEF Limit
  <2>5. Len(P) = Len(lines) /\ \A k \in 1..Len(lines) : P[k] = Described(lines[k])
    BY <2>2, <2>4
  <2>6. listing = (P \o RA) \o RB
    BY DEF Listed
  <2> HIDE DEF P, RA, RB
  <2>7. /\ Len(RA) \in Nat /\ Len(RB) \in Nat
        /\ P \o RA \in Seq(Entry) /\ Len(P \o RA) = Len(lines) + Len(RA)
        /\ \A k \in 1..Len(lines) : (P \o RA)[k] = P[k]
        /\ \A k \in 1..Len(RA) : (P \o RA)[Len(lines) + k] = RA[k]
    <3>1. /\ Len(P) \in Nat /\ Len(RA) \in Nat
          /\ P \o RA \in Seq(Entry) /\ Len(P \o RA) = Len(P) + Len(RA)
          /\ \A k \in 1..Len(P) : (P \o RA)[k] = P[k]
          /\ \A k \in 1..Len(RA) : (P \o RA)[Len(P) + k] = RA[k]
      BY <2>3, ConcatParts, Zenon
    <3>2. Len(RB) \in Nat
      BY <2>3, LenProperties
    <3> QED BY <2>5, <3>1, <3>2
  <2> DEFINE PA == P \o RA
  <2> HIDE DEF PA
  <2>8. /\ DOMAIN listing = 1..(Len(lines) + Len(RA) + Len(RB))
        /\ \A k \in 1..(Len(lines) + Len(RA)) : listing[k] = PA[k]
        /\ \A k \in 1..Len(RB) : listing[Len(lines) + Len(RA) + k] = RB[k]
    <3>1. PA \in Seq(Entry) /\ Len(PA) = Len(lines) + Len(RA) /\ listing = PA \o RB
      BY <2>6, <2>7 DEF PA
    <3>2. /\ DOMAIN (PA \o RB) = 1..(Len(PA) + Len(RB))
          /\ \A k \in 1..Len(PA) : (PA \o RB)[k] = PA[k]
          /\ \A k \in 1..Len(RB) : (PA \o RB)[Len(PA) + k] = RB[k]
      BY <2>3, <3>1, ConcatParts, Zenon
    <3> QED BY <3>1, <3>2, Zenon
  <2>9. \A k \in 1..Len(lines) : k \in DOMAIN listing /\ listing[k] = Described(lines[k])
    <3> TAKE k \in 1..Len(lines)
    <3>1. k \in 1..(Len(lines) + Len(RA)) /\ k \in 1..(Len(lines) + Len(RA) + Len(RB))
      BY <2>2, <2>7
    <3>2. listing[k] = PA[k] /\ PA[k] = P[k]
      BY <2>7, <2>8, <3>1 DEF PA
    <3> QED BY <2>5, <2>8, <3>1, <3>2
  <2>10. \A k \in 1..Len(RA) : \E l \in DOMAIN listing : listing[l] = RA[k]
    <3> TAKE k \in 1..Len(RA)
    <3>1. Len(lines) + k \in 1..(Len(lines) + Len(RA)) /\ Len(lines) + k \in DOMAIN listing
      BY <2>2, <2>7, <2>8
    <3>2. listing[Len(lines) + k] = RA[k]
      BY <2>7, <2>8, <3>1 DEF PA
    <3> QED BY <3>1, <3>2
  <2>11. \A k \in 1..Len(RB) : \E l \in DOMAIN listing : listing[l] = RB[k]
    <3> TAKE k \in 1..Len(RB)
    <3>1. Len(lines) + Len(RA) + k \in DOMAIN listing
      BY <2>2, <2>7, <2>8
    <3> QED BY <2>8, <3>1
  <2>12. \A n \in 1..c : n \in DOMAIN listing /\ listing[n].a = n /\ listing[n].b = n
    <3> TAKE n \in 1..c
    <3>1. n \in 1..Len(lines) /\ lines[n] = [a |-> n, b |-> n, divergence |-> FALSE] /\ n # 0
      BY <2>1, <2>2 DEF Result, Common
    <3>2. Described(lines[n]) = [a |-> n, b |-> n]
      BY <3>1 DEF Described
    <3> QED BY <2>9, <3>1, <3>2
  <2>13. ASSUME first # NoDivergence, first.stepA = c + 1, NEW n \in (c + 2)..Len(stepsA)
         PROVE  \E k \in DOMAIN listing : listing[k].a = n
    <3>1. /\ c + 1 < Len(stepsA) /\ n - (c + 1) \in 1..(Len(stepsA) - (c + 1))
          /\ (c + 1) + (n - (c + 1)) = n /\ Len(stepsA) - (c + 1) \in Nat
      BY <2>2
    <3>2. RA = [k \in 1..(Len(stepsA) - (c + 1)) |-> [a |-> (c + 1) + k, b |-> 0]]
      BY <2>13, <3>1 DEF RA, RestA
    <3>3. n - (c + 1) \in 1..Len(RA) /\ RA[n - (c + 1)].a = n
      BY <3>1, <3>2
    <3> QED BY <2>10, <3>3
  <2>14. ASSUME first # NoDivergence, first.stepB = c + 1, NEW n \in (c + 2)..Len(stepsB)
         PROVE  \E k \in DOMAIN listing : listing[k].b = n
    <3>1. /\ c + 1 < Len(stepsB) /\ n - (c + 1) \in 1..(Len(stepsB) - (c + 1))
          /\ (c + 1) + (n - (c + 1)) = n /\ Len(stepsB) - (c + 1) \in Nat
      BY <2>2
    <3>2. RB = [k \in 1..(Len(stepsB) - (c + 1)) |-> [a |-> 0, b |-> (c + 1) + k]]
      BY <2>14, <3>1 DEF RB, RestB
    <3>3. n - (c + 1) \in 1..Len(RB) /\ RB[n - (c + 1)].b = n
      BY <3>1, <3>2
    <3> QED BY <2>11, <3>3
  <2>15. CASE Equal(c)
    BY <2>2, <2>12, <2>15 DEF Equal
  <2>16. CASE Diverged(c) \/ LongerA(c) \/ LongerB(c)
    <3>1. first.stepA = c + 1 /\ first.stepB = c + 1
      BY <2>16 DEF Diverged, LongerA, LongerB
    <3>2. first # NoDivergence
      BY <3>1 DEF NoDivergence
    <3>3. ASSUME NEW n \in DOMAIN stepsA, n = c + 1
          PROVE  \E k \in DOMAIN listing : listing[k].a = n
      <4>1. ~LongerB(c)
        <5> SUFFICES ASSUME LongerB(c) PROVE FALSE
          OBVIOUS
        <5>1. BIsLonger(c)
          BY LongerBFacts DEF CompareInv
        <5> QED BY <2>2, <3>3, <5>1 DEF BIsLonger
      <4>3. Diverged(c) \/ AIsLonger(c)
        BY <2>16, <4>1, LongerAFacts DEF CompareInv
      <4>2. n \in 1..Len(lines) /\ lines[n].a = n
        <5>1. CASE Diverged(c)
          BY <2>2, <3>3, <5>1 DEF Diverged
        <5>2. CASE AIsLonger(c)
          BY <2>2, <3>3, <5>2 DEF AIsLonger
        <5> QED BY <4>3, <5>1, <5>2
      <4>4. Described(lines[n]).a = n
        BY <4>2 DEF Described
      <4> QED BY <2>9, <4>2, <4>4
    <3>4. ASSUME NEW n \in DOMAIN stepsB, n = c + 1
          PROVE  \E k \in DOMAIN listing : listing[k].b = n
      <4>1. ~LongerA(c)
        <5> SUFFICES ASSUME LongerA(c) PROVE FALSE
          OBVIOUS
        <5>1. AIsLonger(c)
          BY LongerAFacts DEF CompareInv
        <5> QED BY <2>2, <3>4, <5>1 DEF AIsLonger
      <4>3. Diverged(c) \/ BIsLonger(c)
        BY <2>16, <4>1, LongerBFacts DEF CompareInv
      <4>2. n \in 1..Len(lines) /\ lines[n].b = n /\ lines[n].divergence
        <5>1. CASE Diverged(c)
          BY <2>2, <3>4, <5>1 DEF Diverged
        <5>2. CASE BIsLonger(c)
          BY <2>2, <3>4, <5>2 DEF BIsLonger
        <5> QED BY <4>3, <5>1, <5>2
      <4>4. Described(lines[n]).b = n
        BY <4>2 DEF Described
      <4> QED BY <2>9, <4>2, <4>4
    <3>5. ASSUME NEW n \in Nat, NEW m \in Nat, n \in 1..m
          PROVE  n \in 1..c \/ n = c + 1 \/ n \in (c + 2)..m
      BY <3>5
    <3> QED BY <2>2, <2>12, <2>13, <2>14, <3>1, <3>2, <3>3, <3>4, <3>5
  <2> QED BY <2>1, <2>15, <2>16 DEF Result, Walking
<1> QED BY <1>1, CompareInvariant, ListedInvariant, PTL
================================================================================
