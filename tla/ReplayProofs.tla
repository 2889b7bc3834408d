----------------------------- MODULE ReplayProofs -----------------------------
(***************************************************************************)
(* What a strict replay promises, for any answers of models and tools and  *)
(* any number of faults: it stays off the live model, and each answer it   *)
(* gives the agent is the recorded run's at the same place of the same     *)
(* conversation.  It follows from what the recorder puts on the tape.      *)
(***************************************************************************)
EXTENDS Replay, FiniteSetTheorems, TLAPS

USE ReplayAssumption

\* An entry of the run r: a model's answer is filed under the conversation before it.
Recorded(e, r) ==
  /\ e.kind = "model" => e.out.from = "model"
  /\ e.kind = "model" =>
       \E n \in DOMAIN r.talk : /\ e.key.talk = Normalized(r.root, r.talk, n - 1)
                                /\ e.out = r.talk[n]
  /\ e.kind = "tool" => e.out.from = "tool"

TapeInv ==
  /\ \A i \in DOMAIN entries : Recorded(entries[i], rec)
  /\ \A e \in rec.pend : Recorded(e, rec)
  /\ \A b \in bundle : \A i \in DOMAIN b.entries : Recorded(b.entries[i], rec)

\* ReplayFollowsRecord of a session s of the run r.
Follows(s, r) ==
  (s.strict /\ s.models) =>
    \A i \in DOMAIN s.talk :
       s.talk[i].from = "model" =>
         /\ i \in DOMAIN r.talk
         /\ s.talk[i] = r.talk[i]
         /\ Normalized(s.root, s.talk, i - 1) = Normalized(r.root, r.talk, i - 1)

Inductive ==
  /\ TypeOK
  /\ TapeInv
  /\ rec.phase = "tool" => rec.talk # <<>>
  /\ ses.how = "bundle" => bundle # {}
  /\ Follows(ses, rec)
  /\ StrictStaysOffline

-----------------------------------------------------------------------------
(* Conversations and the tape *)

\* The canonicalizer changes the path of a message only.
LEMMA NormalizeType ==
  ASSUME NEW root, NEW m \in Messages
  PROVE  Normalize(root, m) \in Messages /\ Normalize(root, m).from = m.from
BY DEF Normalize, Messages, Paths

\* The key of a model call is the normalized conversation.
LEMMA RequestType ==
  ASSUME NEW spec \in Specs, NEW root, NEW talk \in Talks
  PROVE  /\ Request(spec, root, talk) \in Requests
         /\ Request(spec, root, talk).talk = Normalized(root, talk, Len(talk))
<1>1. DOMAIN talk = 1..Len(talk) /\ Len(talk) \in Nat
  BY DEF Talks
<1>2. \A i \in 1..Len(talk) : talk[i] \in Messages
  BY DEF Talks
<1>3. \A i \in 1..Len(talk) : Normalize(root, talk[i]) \in Messages
  BY <1>2, NormalizeType
<1>4. [i \in 1..Len(talk) |-> Normalize(root, talk[i])] \in Seq(Messages)
  BY <1>1, <1>3
<1> QED BY <1>1, <1>4 DEF Request, Requests, Normalized, Talks

\* What an answer or a result mentions is a path of a message.
LEMMA AnswerType ==
  ASSUME NEW root \in {Worktree, Fresh, NoRoot}
  PROVE  /\ LiveAnswers(root) \subseteq Messages
         /\ LiveResults(root) \subseteq Messages
         /\ \A a \in LiveAnswers(root) : a.from = "model"
         /\ \A r \in LiveResults(root) : r.from = "tool"
<1>1. \A b : Mention(root, b) \in Paths
  BY DEF Mention, Paths
<1> QED BY <1>1 DEF LiveAnswers, LiveResults, Message, Messages

\* A longer conversation begins as the shorter one did.
LEMMA AppendKeepsPrefix ==
  ASSUME NEW root, NEW talk \in Talks, NEW m \in Messages, NEW n \in DOMAIN talk
  PROVE  /\ n \in DOMAIN Append(talk, m)
         /\ Append(talk, m)[n] = talk[n]
         /\ Normalized(root, Append(talk, m), n - 1) = Normalized(root, talk, n - 1)
<1>1. /\ n \in DOMAIN Append(talk, m)
      /\ Append(talk, m)[n] = talk[n]
  BY DEF Talks
<1>2. \A i \in 1..(n - 1) : Append(talk, m)[i] = talk[i]
  BY DEF Talks
<1> QED BY <1>1, <1>2 DEF Normalized

\* Put adds the entry or, behind a torn one, nothing.
LEMMA PutAdds ==
  ASSUME NEW es \in Seq(Entries), NEW e \in Entries
  PROVE  /\ Put(es, e) \in Seq(Entries)
         /\ \A i \in DOMAIN Put(es, e) :
              Put(es, e)[i] = e \/ (i \in DOMAIN es /\ Put(es, e)[i] = es[i])
<1>1. CASE Cut(es)
  BY <1>1 DEF Put
<1>2. CASE ~Cut(es)
  BY <1>2 DEF Put
<1> QED BY <1>1, <1>2

\* What Lookup returns is the output of an entry with the kind and the key.
LEMMA LookupFinds ==
  ASSUME NEW es \in Seq(Entries), NEW kind \in {"model", "tool"}, NEW key, Found(es, kind, key)
  PROVE  \E i \in DOMAIN es : /\ es[i].kind = kind /\ es[i].key = key
                              /\ es[i].out \in Messages
                              /\ Lookup(es, kind, key) = es[i].out
<1>1. PICK i \in Hits(es, kind, key) : Lookup(es, kind, key) = es[i].out
  BY DEF Found, Lookup
<1>2. i \in DOMAIN es /\ es[i].kind = kind /\ es[i].key = key
  BY <1>1 DEF Hits, Matches
<1>3. es[i] \in Entries
  BY <1>2
<1>4. es[i].out \in Messages
  BY <1>2, <1>3 DEF Entries, Torn, Entry
<1> QED BY <1>1, <1>2, <1>4

LEMMA TornType == Torn \in Entries /\ \A r : Recorded(Torn, r)
BY DEF Torn, Entry, Entries, Recorded

\* An entry of a run stays one while the conversation goes on.
LEMMA RecordedStays ==
  ASSUME NEW e, NEW r \in Recording, NEW s \in Recording, Recorded(e, r), s.root = r.root,
         s.talk = r.talk \/ \E m \in Messages : s.talk = Append(r.talk, m)
  PROVE  Recorded(e, s)
<1>1. CASE s.talk = r.talk
  BY <1>1 DEF Recorded
<1>2. ASSUME NEW m \in Messages, s.talk = Append(r.talk, m) PROVE Recorded(e, s)
  <2>1. r.talk \in Talks
    BY DEF Recording
  <2>2. ASSUME NEW n \in DOMAIN r.talk,
               e.key.talk = Normalized(r.root, r.talk, n - 1), e.out = r.talk[n]
        PROVE  /\ n \in DOMAIN s.talk
               /\ e.key.talk = Normalized(s.root, s.talk, n - 1) /\ e.out = s.talk[n]
    BY <1>2, <2>1, <2>2, AppendKeepsPrefix
  <2> QED BY <2>2 DEF Recorded
<1> QED BY <1>1, <1>2

\* ... and a session that followed it still does.
LEMMA FollowsStays ==
  ASSUME NEW ss \in Sessions, NEW r \in Recording, NEW s \in Recording, Follows(ss, r),
         s.root = r.root, s.talk = r.talk \/ \E m \in Messages : s.talk = Append(r.talk, m)
  PROVE  Follows(ss, s)
<1>1. CASE s.talk = r.talk
  BY <1>1 DEF Follows
<1>2. ASSUME NEW m \in Messages, s.talk = Append(r.talk, m) PROVE Follows(ss, s)
  <2>1. r.talk \in Talks
    BY DEF Recording
  <2>2. ASSUME ss.strict, ss.models, NEW i \in DOMAIN ss.talk, ss.talk[i].from = "model"
        PROVE  /\ i \in DOMAIN s.talk /\ ss.talk[i] = s.talk[i]
               /\ Normalized(ss.root, ss.talk, i - 1) = Normalized(s.root, s.talk, i - 1)
    <3>1. /\ i \in DOMAIN r.talk /\ ss.talk[i] = r.talk[i]
          /\ Normalized(ss.root, ss.talk, i - 1) = Normalized(r.root, r.talk, i - 1)
      BY <2>2 DEF Follows
    <3> QED BY <1>2, <2>1, <3>1, AppendKeepsPrefix
  <2> QED BY <2>2 DEF Follows
<1> QED BY <1>1, <1>2

-----------------------------------------------------------------------------
(* The recorded run and its user *)

\* A step of the recorder that leaves the tape a tape of the run.
LEMMA RecorderKeeps ==
  ASSUME Inductive, UNCHANGED <<machine, bundle, ses>>,
         rec' \in Recording, faults' \in 0..MaxFaults,
         rec'.root = rec.root,
         rec'.talk = rec.talk \/ \E m \in Messages : rec'.talk = Append(rec.talk, m),
         rec'.phase = "tool" => rec'.talk # <<>>,
         \A e \in rec'.pend : Recorded(e, rec'),
         entries' = entries \/ \E e \in Entries : entries' = Put(entries, e) /\ Recorded(e, rec')
  PROVE  Inductive'
<1>1. rec \in Recording /\ ses \in Sessions /\ entries \in Seq(Entries)
  BY DEF Inductive, TypeOK
<1>2. ASSUME NEW e, Recorded(e, rec) PROVE Recorded(e, rec')
  BY <1>1, <1>2, RecordedStays
<1>3. entries' \in Seq(Entries) /\ \A i \in DOMAIN entries' : Recorded(entries'[i], rec')
  <2>1. \A i \in DOMAIN entries : Recorded(entries[i], rec')
    BY <1>2 DEF Inductive, TapeInv
  <2>2. CASE entries' = entries
    BY <1>1, <2>1, <2>2
  <2>3. ASSUME NEW e \in Entries, entries' = Put(entries, e), Recorded(e, rec')
        PROVE  entries' \in Seq(Entries) /\ \A i \in DOMAIN entries' : Recorded(entries'[i], rec')
    BY <1>1, <2>1, <2>3, PutAdds
  <2> QED BY <2>2, <2>3
<1>4. TapeInv'
  <2>1. \A b \in bundle : \A i \in DOMAIN b.entries : Recorded(b.entries[i], rec')
    BY <1>2 DEF Inductive, TapeInv
  <2> QED BY <1>3, <2>1 DEF TapeInv
<1>5. Follows(ses, rec')
  BY <1>1, FollowsStays DEF Inductive
<1>6. TypeOK'
  BY <1>3 DEF Inductive, TypeOK
<1>7. StrictStaysOffline'
  BY DEF Inductive, StrictStaysOffline
<1> QED BY <1>4, <1>5, <1>6, <1>7 DEF Inductive

\* The entry of an answer to the conversation so far is one of the run that hears it.
LEMMA AnswerIsRecorded ==
  ASSUME NEW r \in Recording, NEW a \in Messages, NEW s \in Recording,
         a.from = "model", s.root = r.root, s.talk = Append(r.talk, a)
  PROVE  LET e == Entry("model", Request(r.spec, r.root, r.talk), a)
         IN  e \in Entries /\ Recorded(e, s)
<1> DEFINE e == Entry("model", Request(r.spec, r.root, r.talk), a)
           n == Len(r.talk) + 1
<1>1. r.talk \in Talks /\ r.spec \in Specs /\ r.root \in {Worktree, NoRoot}
  BY DEF Recording
<1>2. /\ Request(r.spec, r.root, r.talk) \in Requests
      /\ Request(r.spec, r.root, r.talk).talk = Normalized(r.root, r.talk, Len(r.talk))
  BY <1>1, RequestType
<1>3. e \in Entries
  BY <1>2 DEF Entry, Entries
<1>4. n \in DOMAIN s.talk /\ s.talk[n] = a
  BY <1>1 DEF Talks
<1>5. \A i \in 1..Len(r.talk) : s.talk[i] = r.talk[i]
  BY <1>1 DEF Talks
<1>6. Normalized(s.root, s.talk, n - 1) = Normalized(r.root, r.talk, Len(r.talk))
  <2>1. n - 1 = Len(r.talk)
    BY <1>1 DEF Talks
  <2> QED BY <1>5, <2>1 DEF Normalized
<1>7. e.key.talk = Normalized(s.root, s.talk, n - 1) /\ e.out = s.talk[n] /\ e.kind = "model"
  BY <1>2, <1>4, <1>6 DEF Entry
<1>8. Recorded(e, s)
  BY <1>4, <1>7 DEF Recorded
<1> QED BY <1>3, <1>8

\* An answer and a broken stream: the conversation grows by a, which may be stored.
LEMMA AnswerStep ==
  ASSUME Inductive, UNCHANGED <<machine, entries, bundle, ses>>, faults' \in 0..MaxFaults,
         NEW a \in Messages, a.from = "model", NEW phase \in {"tool", "closing"}, NEW status \in {"running", "passed", "failed"},
         NEW pend \in {{}, ToStore(a)},
         rec' = [rec EXCEPT !.talk = Append(@, a), !.phase = phase,
                            !.status = status, !.pend = pend]
  PROVE  Inductive'
<1>1. rec \in Recording
  BY DEF Inductive, TypeOK
<1>2. /\ rec'.talk = Append(rec.talk, a) /\ rec'.root = rec.root
      /\ rec'.phase = phase /\ rec'.pend = pend
  BY <1>1 DEF Recording
<1>3. rec.talk \in Talks /\ Append(rec.talk, a) \in Talks /\ Append(rec.talk, a) # <<>>
  BY <1>1 DEF Recording, Talks
<1> DEFINE s == [rec EXCEPT !.talk = Append(@, a), !.phase = phase,
                            !.status = status, !.pend = {}]
           e == Entry("model", Request(rec.spec, rec.root, rec.talk), a)
<1>4. s \in Recording /\ s.root = rec.root /\ s.talk = Append(rec.talk, a)
  BY <1>1, <1>3 DEF Recording
<1>5. e \in Entries /\ Recorded(e, s)
  BY <1>1, <1>4, AnswerIsRecorded
<1>6. pend \subseteq {e}
  BY DEF ToStore
<1>7. rec' \in Recording
  <2>1. pend \in SUBSET Entries
    BY <1>5, <1>6
  <2> QED BY <1>1, <1>3, <2>1 DEF Recording
<1>8. Recorded(e, rec')
  BY <1>2, <1>4, <1>5 DEF Recorded
<1>9. \A x \in rec'.pend : Recorded(x, rec')
  BY <1>2, <1>6, <1>8
<1> QED BY <1>2, <1>3, <1>7, <1>9, RecorderKeeps

\* A line is written, or torn.
LEMMA PutsTape ==
  ASSUME Inductive, NEW e \in Entries, NEW r, Recorded(e, r), Puts(e)
  PROVE  /\ faults' \in 0..MaxFaults
         /\ \E x \in Entries : entries' = Put(entries, x) /\ Recorded(x, r)
<1>1. faults \in 0..MaxFaults
  BY DEF Inductive, TypeOK
<1>2. CASE entries' = Put(entries, e) /\ UNCHANGED faults
  BY <1>1, <1>2
<1>3. CASE Fault /\ entries' = Put(entries, Torn)
  BY <1>1, <1>3, TornType DEF Fault
<1> QED BY <1>2, <1>3 DEF Puts

LEMMA RecordingStep ==
  ASSUME Inductive, \/ RecordAnswer \/ RecordBrokenStream \/ StoreAnswer \/ RecordTool
                    \/ RecordToolError \/ EndRecording \/ Crash
  PROVE  Inductive'
<1>1. /\ rec \in Recording /\ rec.talk \in Talks /\ rec.root \in {Worktree, NoRoot}
      /\ rec.pend \subseteq Entries /\ faults \in 0..MaxFaults
  BY DEF Inductive, TypeOK, Recording
<1>2. \A e \in rec.pend : Recorded(e, rec)
  BY DEF Inductive, TapeInv
<1>3. Fault => faults' \in 0..MaxFaults
  BY <1>1 DEF Fault
<1>4. CASE RecordAnswer
  <2>1. PICK a \in LiveAnswers(rec.root) :
          rec' = [rec EXCEPT !.talk = Append(@, a), !.phase = AfterAnswer(a, "closing"),
                             !.pend = ToStore(a)]
    BY <1>4 DEF RecordAnswer
  <2>2. a \in Messages /\ a.from = "model" /\ AfterAnswer(a, "closing") \in {"tool", "closing"}
    BY <1>1, <2>1, AnswerType DEF AfterAnswer
  <2>3. rec.status \in {"running", "passed", "failed"}
    BY <1>1 DEF Recording
  <2>4. rec' = [rec EXCEPT !.talk = Append(@, a), !.phase = AfterAnswer(a, "closing"),
                           !.status = rec.status, !.pend = ToStore(a)]
    BY <1>1, <2>1 DEF Recording
  <2>5. UNCHANGED <<machine, entries, bundle, ses, faults>>
    BY <1>4 DEF RecordAnswer
  <2> QED BY <1>1, <2>2, <2>3, <2>4, <2>5, AnswerStep
<1>5. CASE RecordBrokenStream
  <2> DEFINE a == Message("model", Partial, NoPath)
  <2>1. PICK pend \in {{}, ToStore(a)} :
          rec' = [rec EXCEPT !.talk = Append(@, a), !.phase = "closing",
                             !.status = "failed", !.pend = pend]
    BY <1>5 DEF RecordBrokenStream
  <2>2. a \in Messages /\ a.from = "model"
    BY DEF Message, Messages, Paths
  <2>3. UNCHANGED <<machine, entries, bundle, ses>> /\ faults' \in 0..MaxFaults
    BY <1>3, <1>5 DEF RecordBrokenStream
  <2> QED BY <2>1, <2>2, <2>3, AnswerStep
<1>6. CASE StoreAnswer
  <2>1. PICK e \in rec.pend : Puts(e)
    BY <1>6 DEF StoreAnswer
  <2>2. rec' = [rec EXCEPT !.pend = {}] /\ UNCHANGED <<machine, bundle, ses>>
    BY <1>6 DEF StoreAnswer
  <2>3. /\ rec' \in Recording /\ rec'.root = rec.root /\ rec'.talk = rec.talk
        /\ rec'.phase = rec.phase /\ rec'.pend = {}
    BY <1>1, <2>2 DEF Recording
  <2>4. Recorded(e, rec')
    BY <1>2, <2>1, <2>3 DEF Recorded
  <2>5. /\ faults' \in 0..MaxFaults
        /\ \E x \in Entries : entries' = Put(entries, x) /\ Recorded(x, rec')
    BY <1>1, <2>1, <2>4, PutsTape
  <2>6. rec'.phase = "tool" => rec'.talk # <<>>
    BY <2>3 DEF Inductive
  <2> QED BY <2>2, <2>3, <2>5, <2>6, RecorderKeeps
<1>7. CASE RecordTool
  <2>1. PICK r \in LiveResults(rec.root) :
          rec' = [rec EXCEPT !.talk = Append(@, r), !.phase = "model"] /\ Puts(ToolEntry(r))
    BY <1>7 DEF RecordTool
  <2>2. r \in Messages /\ r.from = "tool"
    BY <1>1, <2>1, AnswerType
  <2>3. LastCall(rec.talk) \in Messages
    <3>1. rec.talk \in Seq(Messages) /\ rec.talk # <<>>
      BY <1>1, <1>7 DEF RecordTool, Inductive, Talks
    <3>2. Len(rec.talk) \in DOMAIN rec.talk
      BY <3>1
    <3> QED BY <3>1, <3>2 DEF LastCall
  <2>4. ToolEntry(r) \in Entries /\ \A s : Recorded(ToolEntry(r), s)
    <3>1. Normalize(rec.root, r) \in Messages /\ Normalize(rec.root, r).from = "tool"
      BY <2>2, NormalizeType
    <3>2. CallKey(rec.root, LastCall(rec.talk)) \in Messages
      BY <2>3, NormalizeType DEF CallKey
    <3> QED BY <3>1, <3>2 DEF ToolEntry, Entry, Entries, Recorded
  <2>5. /\ rec' \in Recording /\ rec'.root = rec.root
        /\ rec'.talk = Append(rec.talk, r) /\ rec'.phase = "model" /\ rec'.pend = rec.pend
    <3>1. Append(rec.talk, r) \in Talks
      BY <1>1, <2>2 DEF Talks
    <3> QED BY <1>1, <2>1, <3>1 DEF Recording
  <2>6. /\ faults' \in 0..MaxFaults
        /\ \E x \in Entries : entries' = Put(entries, x) /\ Recorded(x, rec')
    BY <2>1, <2>4, PutsTape
  <2>7. \A e \in rec'.pend : Recorded(e, rec')
    <3>1. ASSUME NEW e \in rec.pend PROVE Recorded(e, rec')
      BY <1>1, <1>2, <2>2, <2>5, RecordedStays
    <3> QED BY <2>5, <3>1
  <2>8. UNCHANGED <<machine, bundle, ses>>
    BY <1>7 DEF RecordTool
  <2> QED BY <2>2, <2>5, <2>6, <2>7, <2>8, RecorderKeeps
<1>8. CASE RecordToolError
  <2> DEFINE r == ToolError
  <2>1. rec' = [rec EXCEPT !.talk = Append(@, r), !.phase = "model"]
    BY <1>8 DEF RecordToolError
  <2>2. r \in Messages
    BY DEF ToolError, Message, Messages, Paths
  <2>3. /\ rec' \in Recording /\ rec'.root = rec.root
        /\ rec'.talk = Append(rec.talk, r) /\ rec'.phase = "model" /\ rec'.pend = rec.pend
    <3>1. Append(rec.talk, r) \in Talks
      BY <1>1, <2>2 DEF Talks
    <3> QED BY <1>1, <2>1, <3>1 DEF Recording
  <2>4. \A e \in rec'.pend : Recorded(e, rec')
    <3>1. ASSUME NEW e \in rec.pend PROVE Recorded(e, rec')
      BY <1>1, <1>2, <2>2, <2>3, RecordedStays
    <3> QED BY <2>3, <3>1
  <2>5. UNCHANGED <<machine, entries, bundle, ses>> /\ faults' \in 0..MaxFaults
    BY <1>3, <1>8 DEF RecordToolError
  <2> QED BY <2>2, <2>3, <2>4, <2>5, RecorderKeeps
<1>9. CASE EndRecording
  <2>1. PICK ok \in BOOLEAN, restores \in Restores :
          rec' = [rec EXCEPT !.phase = "ended", !.verifies = {ok}, !.restores = restores,
                             !.status = IF @ = "running" /\ ok THEN "passed" ELSE "failed"]
    BY <1>9 DEF EndRecording
  <2>2. /\ rec' \in Recording /\ rec'.root = rec.root
        /\ rec'.talk = rec.talk /\ rec'.phase = "ended" /\ rec'.pend = rec.pend
    BY <1>1, <2>1 DEF Recording
  <2>3. \A e \in rec'.pend : Recorded(e, rec')
    BY <1>2, <2>2 DEF Recorded
  <2>4. UNCHANGED <<machine, entries, bundle, ses, faults>>
    BY <1>9 DEF EndRecording
  <2> QED BY <1>1, <2>2, <2>3, <2>4, RecorderKeeps
<1>10. CASE Crash
  <2>1. rec' = [rec EXCEPT !.phase = "ended", !.pend = {}]
    BY <1>10 DEF Crash
  <2>2. /\ rec' \in Recording /\ rec'.root = rec.root
        /\ rec'.talk = rec.talk /\ rec'.phase = "ended" /\ rec'.pend = {}
    BY <1>1, <2>1 DEF Recording
  <2>3. entries' = entries \/ entries' = Put(entries, Torn)
    BY <1>10 DEF Crash
  <2>4. UNCHANGED <<machine, bundle, ses>> /\ faults' \in 0..MaxFaults
    BY <1>3, <1>10 DEF Crash
  <2> QED BY <2>2, <2>3, <2>4, TornType, RecorderKeeps
<1> QED BY <1>4, <1>5, <1>6, <1>7, <1>8, <1>9, <1>10

\* A change of the machine, an export, and the start or the refusal of a session.
LEMMA UserStep ==
  ASSUME Inductive, \/ Change \/ Export \/ StartReplay \/ StartRun \/ StartReproduce
                    \/ StartFromBundle \/ RefuseDrift
  PROVE  Inductive'
<1>1. /\ machine \in Machines /\ machine.spec \in Specs /\ machine.env \in Envs
      /\ rec \in Recording /\ ses \in Sessions /\ entries \in Seq(Entries)
      /\ bundle \in SUBSET Bundles
  BY DEF Inductive, TypeOK, Specs, Envs
<1>2. CASE Change
  <2>1. /\ machine' \in Machines /\ ses.phase = "idle"
        /\ UNCHANGED <<entries, rec, bundle, ses, faults>>
    BY <1>2 DEF Change
  <2>2. TypeOK' /\ TapeInv' /\ StrictStaysOffline'
    BY <2>1 DEF Inductive, TypeOK, TapeInv, StrictStaysOffline
  <2> QED BY <2>1, <2>2 DEF Inductive
<1>3. CASE Export
  <2>1. /\ bundle' = {[entries |-> entries, spec |-> rec.spec, env |-> machine.env]}
        /\ ses.phase = "idle" /\ UNCHANGED <<machine, entries, rec, ses, faults>>
    BY <1>3 DEF Export
  <2>2. TypeOK'
    BY <1>1, <2>1 DEF Inductive, TypeOK, Bundles, Recording
  <2>3. TapeInv'
    BY <2>1 DEF Inductive, TapeInv
  <2>4. StrictStaysOffline'
    BY <2>1 DEF Inductive, StrictStaysOffline
  <2> QED BY <2>1, <2>2, <2>3, <2>4 DEF Inductive
<1>4. ASSUME NEW how \in {"replay", "run", "reproduce", "bundle"}, NEW strict \in BOOLEAN,
             NEW models \in BOOLEAN, NEW spec \in Specs,
             StartSession(how, strict, models, spec),
             how = "bundle" => bundle # {}
      PROVE  Inductive'
  <2> DEFINE s == [NoSession(spec) EXCEPT
                     !.phase = "model", !.how = how, !.strict = strict, !.models = models,
                     !.root = IF rec.root = NoRoot THEN NoRoot ELSE Fresh]
  <2>1. ses' = s /\ UNCHANGED <<machine, entries, rec, bundle, faults>>
    BY <1>4 DEF StartSession
  <2>2. s.talk = <<>> /\ s.live = {} /\ s.how = how
    BY DEF NoSession
  <2>3. s \in Sessions
    <3>1. <<>> \in Talks
      BY DEF Talks
    <3> QED BY <3>1 DEF NoSession, Sessions
  <2>4. TypeOK' /\ TapeInv'
    BY <2>1, <2>3 DEF Inductive, TypeOK, TapeInv
  <2>5. Follows(s, rec)
    BY <2>2 DEF Follows
  <2>6. StrictStaysOffline'
    BY <2>1, <2>2 DEF StrictStaysOffline
  <2> QED BY <1>4, <2>1, <2>2, <2>4, <2>5, <2>6 DEF Inductive
<1>5. CASE StartReplay
  BY <1>1, <1>4, <1>5 DEF StartReplay
<1>6. CASE StartRun
  BY <1>1, <1>4, <1>6 DEF StartRun
<1>7. CASE StartReproduce
  <2>1. rec.spec \in Specs
    BY <1>1 DEF Recording
  <2> QED BY <1>4, <1>7, <2>1 DEF StartReproduce
<1>8. CASE StartFromBundle
  <2>1. PICK b \in bundle : StartSession("bundle", TRUE, TRUE, b.spec)
    BY <1>8 DEF StartFromBundle
  <2>2. b.spec \in Specs
    BY <1>1, <2>1 DEF Bundles
  <2> QED BY <1>4, <2>1, <2>2
<1>9. CASE RefuseDrift
  <2>1. ses' = [ses EXCEPT !.phase = "refused"] /\ UNCHANGED <<machine, entries, rec, bundle, faults>>
    BY <1>9 DEF RefuseDrift
  <2>2. /\ ses' \in Sessions /\ ses'.talk = ses.talk /\ ses'.live = ses.live /\ ses'.how = ses.how
        /\ ses'.strict = ses.strict /\ ses'.models = ses.models /\ ses'.unread = ses.unread
        /\ ses'.root = ses.root
    BY <1>1, <2>1 DEF Sessions
  <2>3. TypeOK' /\ TapeInv'
    BY <2>1, <2>2 DEF Inductive, TypeOK, TapeInv
  <2>4. Follows(ses', rec) /\ StrictStaysOffline'
    BY <2>2 DEF Inductive, Follows, StrictStaysOffline
  <2> QED BY <2>1, <2>2, <2>3, <2>4 DEF Inductive
<1> QED BY <1>2, <1>3, <1>5, <1>6, <1>7, <1>8, <1>9

-----------------------------------------------------------------------------
(* The session *)

\* What a session hears is appended to its conversation, and nothing else changes
\* that it is judged by.
LEMMA HearsAppends ==
  ASSUME rec \in Recording,
         NEW s \in Sessions, NEW m \in Messages, NEW live \in SUBSET {"model", "tool"},
         NEW t \in Hears(s, m, live)
  PROVE  /\ t \in Sessions /\ t.phase # "idle"
         /\ t.talk = Append(s.talk, m) /\ t.live = s.live \cup live
         /\ t.strict = s.strict /\ t.unread = s.unread /\ t.root = s.root
         /\ t.how = s.how /\ t.models = s.models
<1>1. PICK ok \in BOOLEAN :
        t = [s EXCEPT !.talk = Append(@, m), !.live = @ \cup live,
                      !.phase = IF m.from = "tool" THEN "model"
                                ELSE AfterAnswer(m, IF ok THEN "passed" ELSE "unverified")]
  <2>1. Verdicts(s) \subseteq BOOLEAN
    BY DEF Verdicts, Recording
  <2> QED BY <2>1 DEF Hears
<1>2. Append(s.talk, m) \in Talks
  BY DEF Sessions, Talks
<1>3. s.live \cup live \in SUBSET {"model", "tool"}
  BY DEF Sessions
<1> QED BY <1>1, <1>2, <1>3 DEF Sessions, AfterAnswer

\* ... so a session that heard a tool, or the recorded answer to its conversation,
\* follows the record as it did.
LEMMA HearingFollows ==
  ASSUME NEW s \in Sessions, NEW r \in Recording, NEW m \in Messages, NEW t \in Sessions,
         t.talk = Append(s.talk, m), t.strict = s.strict, t.models = s.models, t.root = s.root,
         Follows(s, r),
         \/ ~(s.strict /\ s.models)
         \/ m.from = "tool"
         \/ \E n \in DOMAIN r.talk :
              /\ Normalized(s.root, s.talk, Len(s.talk)) = Normalized(r.root, r.talk, n - 1)
              /\ m = r.talk[n]
  PROVE  Follows(t, r)
<1> SUFFICES ASSUME s.strict, s.models, NEW i \in DOMAIN t.talk, t.talk[i].from = "model"
             PROVE  /\ i \in DOMAIN r.talk /\ t.talk[i] = r.talk[i]
                    /\ Normalized(t.root, t.talk, i - 1) = Normalized(r.root, r.talk, i - 1)
  BY DEF Follows
<1>1. s.talk \in Talks /\ r.talk \in Talks
  BY DEF Sessions, Recording
<1>2. CASE i \in DOMAIN s.talk
  <2>1. /\ t.talk[i] = s.talk[i]
        /\ Normalized(t.root, t.talk, i - 1) = Normalized(s.root, s.talk, i - 1)
    BY <1>1, <1>2, AppendKeepsPrefix
  <2> QED BY <1>2, <2>1 DEF Follows
<1>3. CASE i \notin DOMAIN s.talk
  <2>1. i = Len(s.talk) + 1 /\ t.talk[i] = m /\ Len(s.talk) \in Nat
    BY <1>1, <1>3 DEF Talks
  <2>2. PICK n \in DOMAIN r.talk :
          /\ Normalized(s.root, s.talk, Len(s.talk)) = Normalized(r.root, r.talk, n - 1)
          /\ m = r.talk[n]
    BY <2>1
  <2>3. n \in 1..Len(r.talk) /\ Len(r.talk) \in Nat
    BY <1>1, <2>2 DEF Talks
  <2>4. 1..Len(s.talk) = 1..(n - 1)
    <3>1. DOMAIN Normalized(s.root, s.talk, Len(s.talk)) = 1..Len(s.talk)
      BY DEF Normalized
    <3>2. DOMAIN Normalized(r.root, r.talk, n - 1) = 1..(n - 1)
      BY DEF Normalized
    <3> QED BY <2>2, <3>1, <3>2
  <2>5. Len(s.talk) = n - 1
    BY <2>1, <2>3, <2>4
  <2>6. \A j \in 1..(i - 1) : t.talk[j] = s.talk[j]
    BY <1>1, <2>1 DEF Talks
  <2>7. Normalized(t.root, t.talk, i - 1) = Normalized(s.root, s.talk, Len(s.talk))
    BY <2>1, <2>6 DEF Normalized
  <2> QED BY <2>1, <2>2, <2>3, <2>5, <2>7
<1> QED BY <1>2, <1>3

\* The tape of a session is one of the run.
LEMMA TapeIsRecorded ==
  ASSUME Inductive
  PROVE  Tape \in Seq(Entries) /\ \A i \in DOMAIN Tape : Recorded(Tape[i], rec)
<1>1. CASE ses.how = "bundle"
  <2>1. PICK b \in bundle : Tape = b.entries
    BY <1>1 DEF Inductive, Tape
  <2>2. b.entries \in Seq(Entries)
    BY <2>1 DEF Inductive, TypeOK, Bundles
  <2> QED BY <2>1, <2>2 DEF Inductive, TapeInv
<1>2. CASE ses.how # "bundle"
  BY <1>2 DEF Inductive, TypeOK, TapeInv, Tape
<1> QED BY <1>1, <1>2

\* StrictStaysOffline of a session s.
Offline(s) ==
  s.strict => s.live \subseteq (IF s.models THEN {} ELSE {"model"}) \cup
                               (IF s.unread THEN {"tool"} ELSE {})

\* A step of the session that keeps what it is judged by.
LEMMA SessionKeeps ==
  ASSUME Inductive, UNCHANGED <<machine, entries, rec, bundle>>, faults' \in 0..MaxFaults,
         ses.phase \in {"model", "tool"}, ses' \in Sessions, ses'.how = ses.how,
         Follows(ses', rec), Offline(ses')
  PROVE  Inductive'
<1>1. TypeOK' /\ TapeInv'
  BY DEF Inductive, TypeOK, TapeInv
<1>2. StrictStaysOffline'
  BY DEF StrictStaysOffline, Offline
<1> QED BY <1>1, <1>2 DEF Inductive

\* A session that hears m.
LEMMA HearingKeeps ==
  ASSUME Inductive, UNCHANGED <<machine, entries, rec, bundle>>, faults' \in 0..MaxFaults,
         ses.phase \in {"model", "tool"},
         NEW unread \in BOOLEAN, ses.unread => unread,
         NEW m \in Messages, NEW live \in SUBSET {"model", "tool"},
         ses' \in Hears([ses EXCEPT !.unread = unread], m, live),
         ses.strict => live \subseteq (IF ses.models THEN {} ELSE {"model"}) \cup
                                      (IF unread THEN {"tool"} ELSE {}),
         \/ ~(ses.strict /\ ses.models)
         \/ m.from = "tool"
         \/ \E n \in DOMAIN rec.talk :
              /\ Normalized(ses.root, ses.talk, Len(ses.talk)) = Normalized(rec.root, rec.talk, n - 1)
              /\ m = rec.talk[n]
  PROVE  Inductive'
<1> DEFINE s == [ses EXCEPT !.unread = unread]
<1>1. rec \in Recording /\ ses \in Sessions
  BY DEF Inductive, TypeOK
<1>2. /\ s \in Sessions /\ s.talk = ses.talk /\ s.live = ses.live /\ s.strict = ses.strict
      /\ s.root = ses.root /\ s.how = ses.how /\ s.models = ses.models /\ s.unread = unread
  BY <1>1 DEF Sessions
<1>3. /\ ses' \in Sessions /\ ses'.talk = Append(s.talk, m) /\ ses'.live = s.live \cup live
      /\ ses'.strict = s.strict /\ ses'.unread = s.unread /\ ses'.root = s.root
      /\ ses'.how = s.how /\ ses'.models = s.models
  <2>1. ses' \in Hears(s, m, live)
    OBVIOUS
  <2>2. rec \in Recording /\ s \in Sessions
    BY <1>1, <1>2
  <2> HIDE DEF s
  <2> QED BY ONLY <2>1, <2>2, m \in Messages, live \in SUBSET {"model", "tool"}, HearsAppends
<1>4. Follows(s, rec)
  BY <1>2 DEF Inductive, Follows
<1>5. Follows(ses', rec)
  <2> HIDE DEF s
  <2> QED BY <1>1, <1>2, <1>3, <1>4, HearingFollows
<1>6. Offline(ses)
  BY DEF Inductive, StrictStaysOffline, Offline
<1>7. Offline(ses')
  BY <1>2, <1>3, <1>6 DEF Offline
<1> QED BY <1>2, <1>3, <1>5, <1>7, SessionKeeps

\* A session that gives up.
LEMMA FailingKeeps ==
  ASSUME Inductive, UNCHANGED <<machine, entries, rec, bundle>>, faults' \in 0..MaxFaults,
         ses.phase \in {"model", "tool"},
         NEW unread \in BOOLEAN, ses.unread => unread,
         ses' \in Fails([ses EXCEPT !.unread = unread])
  PROVE  Inductive'
<1>1. ses \in Sessions
  BY DEF Inductive, TypeOK
<1>2. /\ ses' \in Sessions /\ ses'.talk = ses.talk /\ ses'.live = ses.live
      /\ ses'.strict = ses.strict /\ ses'.root = ses.root /\ ses'.how = ses.how
      /\ ses'.models = ses.models /\ ses'.unread = unread
  <2>1. ses' = [[ses EXCEPT !.unread = unread] EXCEPT !.phase = "failed"]
    BY DEF Fails
  <2> QED BY <1>1, <2>1 DEF Sessions
<1>3. Follows(ses', rec)
  BY <1>2 DEF Inductive, Follows
<1>4. Offline(ses')
  BY <1>2 DEF Inductive, StrictStaysOffline, Offline
<1> QED BY <1>2, <1>3, <1>4, SessionKeeps

LEMMA SessionStep ==
  ASSUME Inductive, AskModel \/ AskLiveModel \/ CallTool \/ ReadFails
  PROVE  Inductive'
<1>1. /\ ses \in Sessions /\ ses.talk \in Talks /\ ses.spec \in Specs /\ ses.unread \in BOOLEAN
      /\ ses.root \in {Worktree, Fresh, NoRoot} /\ faults \in 0..MaxFaults
  BY DEF Inductive, TypeOK, Sessions
<1>2. UNCHANGED <<machine, entries, rec, bundle>> /\ ses.phase \in {"model", "tool"}
  BY DEF AskModel, AskLiveModel, CallTool, ReadFails
<1>3. faults' \in 0..MaxFaults
  BY <1>1 DEF AskModel, AskLiveModel, CallTool, ReadFails, Fault
<1>4. ses = [ses EXCEPT !.unread = ses.unread]
  BY <1>1 DEF Sessions
<1>5. Tape \in Seq(Entries) /\ \A i \in DOMAIN Tape : Recorded(Tape[i], rec)
  BY TapeIsRecorded
<1>6. ASSUME NEW unread \in BOOLEAN, ses.unread => unread, ses.strict => ~ses.models,
              ses' \in LiveModel([ses EXCEPT !.unread = unread])
       PROVE  Inductive'
  <2> DEFINE s == [ses EXCEPT !.unread = unread]
  <2>1. s.root = ses.root
    BY <1>1 DEF Sessions
  <2>2. CASE ses' \in Fails(s)
    BY <1>2, <1>3, <1>6, <2>2, FailingKeeps
  <2>3. CASE \E a \in LiveAnswers(ses.root) : ses' \in Hears(s, a, {"model"})
    <3>1. PICK a \in LiveAnswers(ses.root) : ses' \in Hears(s, a, {"model"})
      BY <2>3
    <3>2. a \in Messages
      BY <1>1, <3>1, AnswerType
    <3> QED BY <1>2, <1>3, <1>6, <3>1, <3>2, HearingKeeps
  <2> QED BY <1>6, <2>1, <2>2, <2>3 DEF LiveModel
<1>7. ASSUME NEW unread \in BOOLEAN, ses.unread => unread,
             ses' \in ModelMiss([ses EXCEPT !.unread = unread])
      PROVE  Inductive'
  <2> DEFINE s == [ses EXCEPT !.unread = unread]
  <2>1. s.strict = ses.strict
    BY <1>1 DEF Sessions
  <2>2. CASE ses.strict
    BY <1>2, <1>3, <1>7, <2>1, <2>2, FailingKeeps DEF ModelMiss
  <2>3. CASE ~ses.strict
    BY <1>7, <1>6, <2>1, <2>3 DEF ModelMiss
  <2> QED BY <2>2, <2>3
<1>8. ASSUME NEW unread \in BOOLEAN, ses.unread => unread, ses.strict => unread,
             ses' \in LiveTool([ses EXCEPT !.unread = unread])
      PROVE  Inductive'
  <2> DEFINE s == [ses EXCEPT !.unread = unread]
  <2>1. s.root = ses.root
    BY <1>1 DEF Sessions
  <2>2. PICK r \in LiveResults(ses.root) \cup {ToolError} : ses' \in Hears(s, r, {"tool"})
    BY <1>8, <2>1 DEF LiveTool
  <2>3. r \in Messages /\ r.from = "tool"
    <3>1. ToolError \in Messages /\ ToolError.from = "tool"
      BY DEF ToolError, Message, Messages, Paths
    <3> QED BY <1>1, <2>2, <3>1, AnswerType
  <2> QED BY <1>2, <1>3, <1>8, <2>2, <2>3, HearingKeeps
<1>9. ASSUME NEW m \in Messages, ses' \in Hears(ses, m, {}),
             \/ m.from = "tool"
             \/ \E n \in DOMAIN rec.talk :
                  /\ Normalized(ses.root, ses.talk, Len(ses.talk)) = Normalized(rec.root, rec.talk, n - 1)
                  /\ m = rec.talk[n]
      PROVE  Inductive'
  BY <1>1, <1>2, <1>3, <1>4, <1>9, HearingKeeps
<1>10. CASE AskModel
  <2> DEFINE key == Request(ses.spec, ses.root, ses.talk)
  <2>1. ses' \in IF Found(Tape, "model", key) THEN Hears(ses, Lookup(Tape, "model", key), {})
                  ELSE ModelMiss(ses)
    BY <1>10 DEF AskModel
  <2>2. CASE Found(Tape, "model", key)
    <3>1. PICK i \in DOMAIN Tape :
            /\ Tape[i].kind = "model" /\ Tape[i].key = key /\ Tape[i].out \in Messages
            /\ Lookup(Tape, "model", key) = Tape[i].out
      BY <1>5, <2>2, LookupFinds
    <3>2. key.talk = Normalized(ses.root, ses.talk, Len(ses.talk))
      BY <1>1, RequestType
    <3>3. \E n \in DOMAIN rec.talk :
            /\ Normalized(ses.root, ses.talk, Len(ses.talk)) = Normalized(rec.root, rec.talk, n - 1)
            /\ Tape[i].out = rec.talk[n]
      BY <1>5, <3>1, <3>2 DEF Recorded
    <3>4. ses' \in Hears(ses, Tape[i].out, {})
      BY <2>1, <2>2, <3>1
    <3> QED BY <1>9, <3>1, <3>3, <3>4
  <2>3. CASE ~Found(Tape, "model", key)
    <3>1. ses' \in ModelMiss(ses)
      BY <2>1, <2>3
    <3> QED BY <1>1, <1>4, <1>7, <3>1
  <2> QED BY <2>2, <2>3
<1>11. CASE CallTool
  <2> DEFINE key == CallKey(ses.root, LastCall(ses.talk))
  <2>1. ses' \in IF Found(Tape, "tool", key) THEN Hears(ses, Lookup(Tape, "tool", key), {})
                  ELSE ToolMiss(ses)
    BY <1>11 DEF CallTool
  <2>2. CASE Found(Tape, "tool", key)
    <3>1. PICK i \in DOMAIN Tape :
            /\ Tape[i].kind = "tool" /\ Tape[i].key = key /\ Tape[i].out \in Messages
            /\ Lookup(Tape, "tool", key) = Tape[i].out
      BY <1>5, <2>2, LookupFinds
    <3>2. Tape[i].out.from = "tool"
      BY <1>5, <3>1 DEF Recorded
    <3>3. ses' \in Hears(ses, Tape[i].out, {})
      BY <2>1, <2>2, <3>1
    <3> QED BY <1>9, <3>1, <3>2, <3>3
  <2>3. CASE ~Found(Tape, "tool", key) /\ ses.strict
    <3> DEFINE m == Message("tool", Missed, NoPath)
    <3>1. m \in Messages /\ m.from = "tool"
      BY DEF Message, Messages, Paths
    <3>2. CASE ses' \in Hears(ses, m, {})
      <4> HIDE DEF m
      <4> QED BY <1>9, <3>1, <3>2
    <3>3. CASE ses' \in Fails(ses)
      BY <1>1, <1>2, <1>3, <1>4, <3>3, FailingKeeps
    <3> QED BY <2>1, <2>3, <3>2, <3>3 DEF ToolMiss
  <2>4. CASE ~Found(Tape, "tool", key) /\ ~ses.strict
    <3>1. ses' \in LiveTool(ses)
      BY <2>1, <2>4 DEF ToolMiss
    <3> QED BY <1>1, <1>4, <1>8, <2>4, <3>1
  <2> QED BY <2>2, <2>3, <2>4
<1>12. CASE AskLiveModel
  <2>1. ses' \in LiveModel([ses EXCEPT !.unread = ses.unread]) /\ ~ses.models
    BY <1>4, <1>12 DEF AskLiveModel
  <2> QED BY <1>1, <1>6, <2>1
<1>13. CASE ReadFails
  <2>1. CASE ses' \in ModelMiss([ses EXCEPT !.unread = TRUE])
    BY <1>7, <2>1
  <2>2. CASE ses' \in LiveTool([ses EXCEPT !.unread = TRUE])
    BY <1>8, <2>2
  <2> QED BY <1>13, <2>1, <2>2 DEF ReadFails
<1> QED BY <1>10, <1>11, <1>12, <1>13


-----------------------------------------------------------------------------
(* A clean run: what the recorder leaves on the tape *)

\* The model speaks first; its calls are answered by tools and it hears each answer.
TakesTurns(t) ==
  \A i \in DOMAIN t :
     /\ i = 1 => t[i].from = "model"
     /\ i < Len(t) => \/ IsCall(t[i]) /\ t[i + 1].from = "tool"
                      \/ t[i].from = "tool" /\ t[i + 1].from = "model"

\* The recorded run r: who speaks next, and what the end of a run says of it.
Conversation(r) ==
  /\ TakesTurns(r.talk)
  /\ \A i \in DOMAIN r.talk : r.talk[i].path \in {NoPath, r.root}
  /\ (r.phase = "model" /\ r.talk # <<>>) => LastCall(r.talk).from = "tool"
  /\ r.phase = "tool" => r.talk # <<>> /\ IsCall(LastCall(r.talk))
  /\ (r.phase = "closing" \/ r.status = "passed") =>
        r.talk # <<>> /\ LastCall(r.talk).from = "model" /\ ~IsCall(LastCall(r.talk))
  /\ r.status = "passed" => r.phase = "ended" /\ r.verifies = {TRUE}
  /\ \A d, e \in r.pend : d = e /\ d.kind = "model"
  /\ r.phase = "ended" => r.pend = {}

\* The entries of the run r: of its answer at i, and of its call at i with the result.
AnswerEntry(r, i) ==
  Entry("model", [spec |-> r.spec, talk |-> Normalized(r.root, r.talk, i - 1)], r.talk[i])
ResultEntry(r, i) ==
  Entry("tool", Normalize(r.root, r.talk[i]), Normalize(r.root, r.talk[i + 1]))

OnTape(es, e) == \E k \in DOMAIN es : es[k] = e

\* fs holds all that es does, unless a line of it was torn.
Grown(es, fs) == ~Cut(fs) => ~Cut(es) /\ \A x : OnTape(es, x) => OnTape(fs, x)

\* A run that neither failed nor was killed.
Sound(r) == r.status # "failed" /\ (r.phase = "ended" => r.status = "passed")

\* Unless a line was torn, the tape of a sound run misses nothing but what it has
\* still to write, and the result of each call that succeeded is there.
TapeComplete(es, r) ==
  ~Cut(es) =>
    /\ (r.models /\ Sound(r)) =>
         \A i \in DOMAIN r.talk :
            r.talk[i].from = "model" => OnTape(es, AnswerEntry(r, i)) \/ AnswerEntry(r, i) \in r.pend
    /\ \A i \in DOMAIN r.talk :
         (IsCall(r.talk[i]) /\ i < Len(r.talk) /\ r.talk[i + 1].body # Failed) =>
            OnTape(es, ResultEntry(r, i))

\* Each tool entry on the tape is the result of a call of the run.
ResultsRecorded(es, r) ==
  \A k \in DOMAIN es : es[k].kind = "tool" =>
     \E i \in DOMAIN r.talk : IsCall(r.talk[i]) /\ i < Len(r.talk) /\ es[k] = ResultEntry(r, i)

\* May the verification of a session end otherwise than the recorded run's?
Unsettled(s, r) == ~r.restores \/ s.how = "run" \/ machine.env # r.env

\* A session waits for what the recorded run heard next, after the same conversation.
Tracks(s, r) ==
  /\ s.live = {} /\ s.phase # "failed"
  /\ s.phase = "unverified" => Unsettled(s, r)
  /\ s.phase \in {"model", "tool"} =>
       /\ Len(s.talk) < Len(r.talk)
       /\ Normalized(s.root, s.talk, Len(s.talk)) = Normalized(r.root, r.talk, Len(s.talk))
       /\ r.talk[Len(s.talk) + 1].from = s.phase

Readable(s, r) == Clean /\ s.models /\ s.spec = r.spec /\ ~s.unread

CleanInductive ==
  /\ Conversation(rec)
  /\ TapeComplete(entries, rec)
  /\ ResultsRecorded(entries, rec)
  /\ ses.phase # "idle" => rec.phase = "ended"
  /\ ses.phase \in {"idle", "refused"} => ses.live = {} /\ ses.talk = <<>>
  /\ ses.root \in {Fresh, NoRoot}
  /\ \A b \in bundle : rec.phase = "ended" /\ b.entries = entries
  /\ Readable(ses, rec) => Tracks(ses, rec)

\* The least number principle for a set, from the library's order of finite sets.
LEMMA LeastNatural ==
  ASSUME NEW S, S \subseteq Nat, S # {}
  PROVE  \E m \in S : \A k \in S : m <= k
<1> DEFINE R == StrictSubsetOrdering(Nat)
           T == {0..m : m \in S}
<1>1. T \subseteq FiniteSubsetsOf(Nat) /\ T # {}
  <2>1. ASSUME NEW m \in S PROVE 0..m \in FiniteSubsetsOf(Nat)
    <3>1. m \in Nat /\ 0 \in Int /\ m \in Int /\ 0..m \in SUBSET Nat
      OBVIOUS
    <3> QED BY <3>1, FS_Interval DEF FiniteSubsetsOf
  <2> QED BY <2>1
<1>2. PICK x \in T : \A y \in T : <<y, x>> \notin R
  <2>1. IsWellFoundedOn(R, FiniteSubsetsOf(Nat))
    BY FS_StrictSubsetOrderingWellFounded
  <2> HIDE DEF R, T
  <2> QED BY <1>1, <2>1, WFMin
<1>3. PICK m \in S : x = 0..m
  BY <1>2
<1>4. ASSUME NEW k \in S, k < m PROVE FALSE
  <2>1. 0..k \subseteq 0..m /\ 0..k # 0..m /\ 0..k \in SUBSET Nat /\ 0..m \in SUBSET Nat
    <3>1. m \in 0..m /\ m \notin 0..k
      BY <1>4
    <3> QED BY <1>4, <3>1
  <2>2. <<0..k, x>> \in R
    BY <1>3, <2>1 DEF StrictSubsetOrdering
  <2>3. 0..k \in T
    OBVIOUS
  <2> HIDE DEF R, T
  <2> QED BY <1>2, <2>2, <2>3
<1> HIDE DEF R, T
<1>5. m \in Nat /\ \A k \in S : k \in Nat /\ ~(k < m)
  BY <1>4
<1>6. \A k \in S : m <= k
  BY <1>5
<1> QED BY <1>6

\* The least entry of a key, if the key is there and no line is torn.
LEMMA FoundOnTape ==
  ASSUME NEW es \in Seq(Entries), NEW kind, NEW key, NEW e, ~Cut(es), OnTape(es, e),
         e.kind = kind, e.key = key
  PROVE  Found(es, kind, key)
<1> DEFINE S == {i \in DOMAIN es : Matches(es[i], kind, key)}
<1>1. S \subseteq Nat /\ S # {}
  BY DEF OnTape, Matches
<1>2. PICK m \in S : \A k \in S : m <= k
  <2> HIDE DEF S
  <2> QED BY <1>1, LeastNatural
<1>3. \A j \in 1..(m - 1) : j \in DOMAIN es /\ ~(m <= j)
  BY <1>2
<1>4. \A j \in 1..(m - 1) : ~IsTorn(es[j]) /\ ~Matches(es[j], kind, key)
  BY <1>2, <1>3 DEF Cut
<1>5. m \in Hits(es, kind, key)
  BY <1>2, <1>4 DEF Hits
<1> QED BY <1>5 DEF Found

\* A conversation that goes on in turn is still one.
LEMMA TurnsGrow ==
  ASSUME NEW t \in Talks, NEW m \in Messages, TakesTurns(t),
         t = <<>> => m.from = "model",
         t # <<>> => \/ IsCall(LastCall(t)) /\ m.from = "tool"
                     \/ LastCall(t).from = "tool" /\ m.from = "model"
  PROVE  TakesTurns(Append(t, m)) /\ LastCall(Append(t, m)) = m
<1> DEFINE u == Append(t, m)
<1>1. /\ Len(t) \in Nat /\ DOMAIN t = 1..Len(t)
      /\ Len(u) = Len(t) + 1 /\ DOMAIN u = 1..(Len(t) + 1)
      /\ \A i \in 1..Len(t) : u[i] = t[i]
      /\ u[Len(t) + 1] = m /\ (t = <<>> <=> Len(t) = 0)
  BY DEF Talks
<1>2. ASSUME NEW i \in DOMAIN u, i = 1 PROVE u[i].from = "model"
  BY <1>1, <1>2 DEF TakesTurns
<1>3. ASSUME NEW i \in DOMAIN u, i < Len(u)
      PROVE  \/ IsCall(u[i]) /\ u[i + 1].from = "tool"
             \/ u[i].from = "tool" /\ u[i + 1].from = "model"
  <2>1. CASE i < Len(t)
    BY <1>1, <1>3, <2>1 DEF TakesTurns
  <2>2. CASE i = Len(t)
    <3>1. t # <<>> /\ u[i] = LastCall(t) /\ u[i + 1] = m
      BY <1>1, <1>3, <2>2 DEF LastCall
    <3> QED BY <3>1
  <2> QED BY <1>1, <1>3, <2>1, <2>2
<1>4. LastCall(u) = m
  BY <1>1 DEF LastCall
<1> QED BY <1>2, <1>3, <1>4 DEF TakesTurns

\* What was said of the conversation so far stays as it was.
LEMMA EntriesStay ==
  ASSUME NEW r \in Recording, NEW s \in Recording, s.root = r.root, s.spec = r.spec,
         s.talk = r.talk \/ \E m \in Messages : s.talk = Append(r.talk, m),
         NEW n \in DOMAIN r.talk
  PROVE  /\ n \in DOMAIN s.talk /\ s.talk[n] = r.talk[n]
         /\ AnswerEntry(s, n) = AnswerEntry(r, n)
         /\ n < Len(r.talk) => /\ n < Len(s.talk) /\ s.talk[n + 1] = r.talk[n + 1]
                               /\ ResultEntry(s, n) = ResultEntry(r, n)
<1>1. r.talk \in Talks /\ n \in 1..Len(r.talk) /\ Len(r.talk) \in Nat
  BY DEF Recording, Talks
<1>2. CASE s.talk = r.talk
  BY <1>2 DEF AnswerEntry, ResultEntry
<1>3. ASSUME NEW m \in Messages, s.talk = Append(r.talk, m)
      PROVE  /\ n \in DOMAIN s.talk /\ s.talk[n] = r.talk[n]
             /\ AnswerEntry(s, n) = AnswerEntry(r, n)
             /\ n < Len(r.talk) => /\ n < Len(s.talk) /\ s.talk[n + 1] = r.talk[n + 1]
                                   /\ ResultEntry(s, n) = ResultEntry(r, n)
  <2>1. /\ n \in DOMAIN s.talk /\ s.talk[n] = r.talk[n]
        /\ Normalized(s.root, s.talk, n - 1) = Normalized(r.root, r.talk, n - 1)
    BY <1>1, <1>3, AppendKeepsPrefix
  <2>2. AnswerEntry(s, n) = AnswerEntry(r, n)
    BY <2>1 DEF AnswerEntry
  <2>3. ASSUME n < Len(r.talk) PROVE n < Len(s.talk) /\ s.talk[n + 1] = r.talk[n + 1]
    BY <1>1, <1>3, <2>3 DEF Talks
  <2>4. n < Len(r.talk) => ResultEntry(s, n) = ResultEntry(r, n)
    BY <2>1, <2>3 DEF ResultEntry
  <2> QED BY <2>1, <2>2, <2>3, <2>4
<1> QED BY <1>2, <1>3

\* A whole line behind whole lines: it is on the tape, and what was there still is.
LEMMA PutWhole ==
  ASSUME NEW es \in Seq(Entries), NEW e \in Entries, ~Cut(Put(es, e))
  PROVE  /\ ~Cut(es) /\ ~IsTorn(e) /\ OnTape(Put(es, e), e)
         /\ \A x : OnTape(es, x) => OnTape(Put(es, e), x)
<1>1. ~Cut(es) /\ Put(es, e) = Append(es, e)
  BY DEF Put
<1>2. /\ DOMAIN Append(es, e) = 1..(Len(es) + 1) /\ DOMAIN es = 1..Len(es) /\ Len(es) \in Nat
      /\ Append(es, e)[Len(es) + 1] = e
      /\ \A k \in DOMAIN es : Append(es, e)[k] = es[k]
  OBVIOUS
<1>3. ~IsTorn(e)
  BY <1>1, <1>2 DEF Cut
<1>4. OnTape(Append(es, e), e)
  BY <1>2 DEF OnTape
<1>5. \A x : OnTape(es, x) => OnTape(Append(es, e), x)
  BY <1>2 DEF OnTape
<1> QED BY <1>1, <1>3, <1>4, <1>5

LEMMA ResultsStay ==
  ASSUME NEW r \in Recording, NEW s \in Recording, s.root = r.root, s.spec = r.spec,
         s.talk = r.talk \/ \E m \in Messages : s.talk = Append(r.talk, m),
         NEW es, ResultsRecorded(es, r)
  PROVE  ResultsRecorded(es, s)
<1> SUFFICES ASSUME NEW k \in DOMAIN es, es[k].kind = "tool"
             PROVE  \E i \in DOMAIN s.talk : IsCall(s.talk[i]) /\ i < Len(s.talk) /\ es[k] = ResultEntry(s, i)
  BY DEF ResultsRecorded
<1>1. PICK i \in DOMAIN r.talk : IsCall(r.talk[i]) /\ i < Len(r.talk) /\ es[k] = ResultEntry(r, i)
  BY DEF ResultsRecorded
<1>2. /\ i \in DOMAIN s.talk /\ s.talk[i] = r.talk[i]
      /\ i < Len(s.talk) /\ ResultEntry(s, i) = ResultEntry(r, i)
  BY <1>1, EntriesStay
<1> QED BY <1>1, <1>2

\* Another line on the tape: a model's answer, a torn line, or the result of a call.
LEMMA PutResults ==
  ASSUME NEW es \in Seq(Entries), NEW e \in Entries, NEW r, ResultsRecorded(es, r),
         e.kind = "tool" =>
           \E i \in DOMAIN r.talk : IsCall(r.talk[i]) /\ i < Len(r.talk) /\ e = ResultEntry(r, i)
  PROVE  ResultsRecorded(Put(es, e), r)
<1> SUFFICES ASSUME NEW k \in DOMAIN Put(es, e), Put(es, e)[k].kind = "tool"
             PROVE  \E i \in DOMAIN r.talk :
                       IsCall(r.talk[i]) /\ i < Len(r.talk) /\ Put(es, e)[k] = ResultEntry(r, i)
  BY DEF ResultsRecorded
<1>1. Put(es, e)[k] = e \/ (k \in DOMAIN es /\ Put(es, e)[k] = es[k])
  BY PutAdds
<1> QED BY <1>1 DEF ResultsRecorded

\* While the run is being recorded there is no session and no bundle.
LEMMA RecorderKeepsClean ==
  ASSUME Inductive, CleanInductive, rec.phase # "ended", UNCHANGED <<bundle, ses>>,
         Conversation(rec'), TapeComplete(entries', rec'), ResultsRecorded(entries', rec')
  PROVE  CleanInductive'
<1>1. bundle = {} /\ ses.phase = "idle" /\ ses.live = {}
  BY DEF CleanInductive
<1>2. Conversation(rec)' /\ TapeComplete(entries, rec)' /\ ResultsRecorded(entries, rec)'
  OBVIOUS
<1>3. Tracks(ses, rec)'
  BY <1>1 DEF Tracks
<1>4. ses'.root \in {Fresh, NoRoot}
  BY DEF CleanInductive
<1> QED BY <1>1, <1>2, <1>3, <1>4 DEF CleanInductive

\* The conversation grows by m, and the tape has or will have what it should.
LEMMA TalkGrows ==
  ASSUME NEW r \in Recording, NEW s \in Recording, NEW m \in Messages,
         NEW es \in Seq(Entries), NEW fs \in Seq(Entries),
         s.root = r.root, s.spec = r.spec, s.models = r.models, s.talk = Append(r.talk, m),
         TapeComplete(es, r), Grown(es, fs),
         Sound(s) => Sound(r) /\ r.pend \subseteq s.pend,
         (~Cut(fs) /\ s.models /\ Sound(s) /\ m.from = "model") =>
            AnswerEntry(s, Len(r.talk) + 1) \in s.pend,
         (~Cut(fs) /\ r.talk # <<>> /\ IsCall(LastCall(r.talk)) /\ m.body # Failed) =>
            OnTape(fs, ResultEntry(s, Len(r.talk)))
  PROVE  TapeComplete(fs, s)
<1> SUFFICES ASSUME ~Cut(fs)
             PROVE  /\ (s.models /\ Sound(s)) =>
                         \A i \in DOMAIN s.talk :
                            s.talk[i].from = "model" => OnTape(fs, AnswerEntry(s, i)) \/ AnswerEntry(s, i) \in s.pend
                    /\ \A i \in DOMAIN s.talk :
                         (IsCall(s.talk[i]) /\ i < Len(s.talk) /\ s.talk[i + 1].body # Failed) =>
                            OnTape(fs, ResultEntry(s, i))
  BY DEF TapeComplete
<1>1. /\ r.talk \in Talks /\ Len(r.talk) \in Nat /\ DOMAIN r.talk = 1..Len(r.talk)
      /\ DOMAIN s.talk = 1..(Len(r.talk) + 1) /\ Len(s.talk) = Len(r.talk) + 1
      /\ s.talk[Len(r.talk) + 1] = m /\ \A i \in DOMAIN r.talk : s.talk[i] = r.talk[i]
  BY DEF Recording, Talks
<1>2. ASSUME s.models, Sound(s), NEW i \in DOMAIN s.talk, s.talk[i].from = "model"
      PROVE  OnTape(fs, AnswerEntry(s, i)) \/ AnswerEntry(s, i) \in s.pend
  <2>1. CASE i \in DOMAIN r.talk
    <3>1. AnswerEntry(s, i) = AnswerEntry(r, i) /\ s.talk[i] = r.talk[i]
      BY <2>1, EntriesStay
    <3>2. OnTape(es, AnswerEntry(r, i)) \/ AnswerEntry(r, i) \in r.pend
      BY <1>2, <2>1, <3>1 DEF TapeComplete, Grown
    <3> QED BY <1>2, <3>1, <3>2 DEF Grown
  <2>2. CASE i = Len(r.talk) + 1
    BY <1>1, <1>2, <2>2
  <2> QED BY <1>1, <2>1, <2>2
<1>3. ASSUME NEW i \in DOMAIN s.talk, IsCall(s.talk[i]), i < Len(s.talk), s.talk[i + 1].body # Failed
      PROVE  OnTape(fs, ResultEntry(s, i))
  <2>1. i \in DOMAIN r.talk /\ s.talk[i] = r.talk[i]
    BY <1>1, <1>3
  <2>2. CASE i < Len(r.talk)
    <3>1. ResultEntry(s, i) = ResultEntry(r, i) /\ s.talk[i + 1] = r.talk[i + 1]
      BY <2>1, <2>2, EntriesStay
    <3>2. OnTape(es, ResultEntry(r, i))
      BY <1>3, <2>1, <2>2, <3>1 DEF TapeComplete, Grown
    <3> QED BY <3>1, <3>2 DEF Grown
  <2>3. CASE i = Len(r.talk)
    BY <1>1, <1>3, <2>1, <2>3 DEF LastCall
  <2> QED BY <1>1, <2>1, <2>2, <2>3
<1> QED BY <1>2, <1>3

\* The entry the recorder makes of the answer a to the conversation of r.
LEMMA StoredIsAnswerEntry ==
  ASSUME NEW r \in Recording, NEW s \in Recording, NEW a \in Messages,
         s.root = r.root, s.spec = r.spec, s.talk = Append(r.talk, a)
  PROVE  Entry("model", Request(r.spec, r.root, r.talk), a) = AnswerEntry(s, Len(r.talk) + 1)
<1>1. r.talk \in Talks /\ Len(r.talk) \in Nat /\ DOMAIN r.talk = 1..Len(r.talk)
  BY DEF Recording, Talks
<1>2. s.talk[Len(r.talk) + 1] = a /\ \A i \in 1..Len(r.talk) : s.talk[i] = r.talk[i]
  BY <1>1 DEF Talks
<1>3. (Len(r.talk) + 1) - 1 = Len(r.talk)
  BY <1>1
<1>4. Normalized(s.root, s.talk, (Len(r.talk) + 1) - 1) = [i \in DOMAIN r.talk |-> Normalize(r.root, r.talk[i])]
  BY <1>1, <1>2, <1>3 DEF Normalized
<1> QED BY <1>2, <1>4 DEF AnswerEntry, Request

\* A sound run that hears an answer has its entry still to write.
LEMMA AnswerTape ==
  ASSUME NEW r \in Recording, NEW s \in Recording, NEW a \in Messages, NEW es \in Seq(Entries),
         s.root = r.root, s.spec = r.spec, s.models = r.models, s.talk = Append(r.talk, a),
         TapeComplete(es, r), r.talk # <<>> => ~IsCall(LastCall(r.talk)),
         Sound(s) =>
           /\ Sound(r) /\ r.pend \subseteq s.pend
           /\ s.models => Entry("model", Request(r.spec, r.root, r.talk), a) \in s.pend
  PROVE  TapeComplete(es, s)
<1>1. Grown(es, es)
  BY DEF Grown
<1>2. Entry("model", Request(r.spec, r.root, r.talk), a) = AnswerEntry(s, Len(r.talk) + 1)
  BY StoredIsAnswerEntry
<1>3. (~Cut(es) /\ s.models /\ Sound(s) /\ a.from = "model") =>
        AnswerEntry(s, Len(r.talk) + 1) \in s.pend
  BY <1>2
<1>4. (~Cut(es) /\ r.talk # <<>> /\ IsCall(LastCall(r.talk)) /\ a.body # Failed) =>
        OnTape(es, ResultEntry(s, Len(r.talk)))
  OBVIOUS
<1> QED BY <1>1, <1>3, <1>4, TalkGrows

\* What the model and the tools of a run say.
LEMMA LiveSays ==
  ASSUME NEW root \in {Worktree, NoRoot}
  PROVE  /\ \A a \in LiveAnswers(root) :
               a \in Messages /\ a.from = "model" /\ a.path \in {NoPath, root}
         /\ \A x \in LiveResults(root) :
               x \in Messages /\ x.from = "tool" /\ x.path \in {NoPath, root}
<1>1. \A b : Mention(root, b) \in {NoPath, root}
  BY DEF Mention
<1>2. \A b, f : Message(f, b, Mention(root, b)).path \in {NoPath, root}
  BY <1>1 DEF Message
<1> QED BY <1>2, AnswerType DEF LiveAnswers, LiveResults

\* An answer, whole or broken, that may still have to be stored.
LEMMA CleanAnswer ==
  ASSUME Inductive, CleanInductive, rec.phase = "model", rec.pend = {},
         UNCHANGED <<entries, bundle, ses>>,
         NEW a \in Messages, a.from = "model", a.path \in {NoPath, rec.root},
         NEW phase, NEW status, NEW pend \in {{}, ToStore(a)},
         phase = IF IsCall(a) THEN "tool" ELSE "closing",
         \/ status = rec.status /\ pend = ToStore(a)
         \/ status = "failed",
         rec' = [rec EXCEPT !.talk = Append(@, a), !.phase = phase,
                            !.status = status, !.pend = pend],
         rec' \in Recording
  PROVE  CleanInductive'
<1>1. /\ rec \in Recording /\ rec.talk \in Talks /\ entries \in Seq(Entries)
      /\ rec.status \in {"running", "passed", "failed"}
  BY DEF Inductive, TypeOK, Recording
<1>2. /\ rec'.talk = Append(rec.talk, a) /\ rec'.root = rec.root /\ rec'.spec = rec.spec
      /\ rec'.phase = phase /\ rec'.pend = pend /\ rec'.status = status /\ rec'.models = rec.models
  BY <1>1 DEF Recording
<1>3. Conversation(rec) /\ rec.status # "passed"
  BY DEF CleanInductive, Conversation
<1>4. TakesTurns(rec'.talk) /\ LastCall(rec'.talk) = a /\ rec'.talk # <<>>
  <2>1. TakesTurns(Append(rec.talk, a)) /\ LastCall(Append(rec.talk, a)) = a
    BY <1>1, <1>3, TurnsGrow DEF Conversation
  <2> QED BY <1>1, <1>2, <2>1 DEF Talks
<1>5. \A i \in DOMAIN rec'.talk : rec'.talk[i].path \in {NoPath, rec'.root}
  <2>1. \A i \in DOMAIN rec'.talk : rec'.talk[i] = a \/ (i \in DOMAIN rec.talk /\ rec'.talk[i] = rec.talk[i])
    BY <1>1, <1>2 DEF Talks
  <2> QED BY <1>2, <1>3, <2>1 DEF Conversation
<1>6. pend \subseteq {Entry("model", Request(rec.spec, rec.root, rec.talk), a)}
  BY DEF ToStore
<1>7. \A d, e \in pend : d = e /\ d.kind = "model"
  BY <1>6 DEF Entry
<1>8. Conversation(rec')
  BY <1>2, <1>3, <1>4, <1>5, <1>7 DEF Conversation
<1>9. TapeComplete(entries', rec')
  <2>1. TapeComplete(entries, rec)
    BY DEF CleanInductive
  <2>2. Sound(rec') => Sound(rec) /\ pend = ToStore(a)
    BY <1>2, <1>3 DEF Sound
  <2>3. Sound(rec') =>
          /\ Sound(rec) /\ rec.pend \subseteq rec'.pend
          /\ rec'.models => Entry("model", Request(rec.spec, rec.root, rec.talk), a) \in rec'.pend
    BY <1>2, <2>2 DEF ToStore
  <2>4. rec.talk # <<>> => ~IsCall(LastCall(rec.talk))
    BY <1>3 DEF Conversation, IsCall
  <2>5. /\ rec'.root = rec.root /\ rec'.spec = rec.spec /\ rec'.models = rec.models
        /\ rec'.talk = Append(rec.talk, a)
    BY <1>2
  <2>6. TapeComplete(entries, rec')
    BY <1>1, <2>1, <2>3, <2>4, <2>5, AnswerTape
  <2> QED BY <2>6
<1>10. ResultsRecorded(entries', rec')
  <2>1. ResultsRecorded(entries, rec)
    BY DEF CleanInductive
  <2> QED BY <1>1, <1>2, <2>1, ResultsStay
<1> QED BY <1>8, <1>9, <1>10, RecorderKeepsClean

\* A tool has spoken: m, whose result is on the tape unless it failed.
LEMMA CleanResult ==
  ASSUME Inductive, CleanInductive, rec.phase = "tool", UNCHANGED <<bundle, ses>>,
         NEW m \in Messages, m.from = "tool", m.path \in {NoPath, rec.root},
         rec' = [rec EXCEPT !.talk = Append(@, m), !.phase = "model"],
         entries' \in Seq(Entries),
         Grown(entries, entries'),
         (~Cut(entries') /\ m.body # Failed) => OnTape(entries', ResultEntry(rec', Len(rec.talk))),
         ResultsRecorded(entries', rec')
  PROVE  CleanInductive'
<1>1. rec \in Recording /\ rec.talk \in Talks /\ entries \in Seq(Entries)
  BY DEF Inductive, TypeOK, Recording
<1>2. Append(rec.talk, m) \in Talks
  BY <1>1 DEF Talks
<1>3. /\ rec' \in Recording
      /\ rec'.talk = Append(rec.talk, m) /\ rec'.root = rec.root /\ rec'.spec = rec.spec
      /\ rec'.phase = "model" /\ rec'.pend = rec.pend /\ rec'.status = rec.status
      /\ rec'.models = rec.models
  BY <1>1, <1>2 DEF Recording
<1>4. Conversation(rec) /\ rec.status # "passed" /\ rec.talk # <<>> /\ IsCall(LastCall(rec.talk))
  BY DEF CleanInductive, Conversation
<1>5. TakesTurns(rec'.talk) /\ LastCall(rec'.talk) = m /\ rec'.talk # <<>>
  <2>1. TakesTurns(rec.talk)
    BY <1>4 DEF Conversation
  <2>2. TakesTurns(Append(rec.talk, m)) /\ LastCall(Append(rec.talk, m)) = m
    BY <1>1, <1>4, <2>1, TurnsGrow
  <2>3. Append(rec.talk, m) # <<>>
    <3> DEFINE t == rec.talk
    <3>1. t \in Seq(Messages)
      BY <1>1 DEF Talks
    <3> HIDE DEF t
    <3>2. Len(Append(t, m)) = Len(t) + 1 /\ Len(t) \in Nat
      BY ONLY <3>1
    <3>3. Append(t, m) # <<>>
      BY ONLY <3>2
    <3> QED BY ONLY <3>3 DEF t
  <2> QED BY <1>3, <2>2, <2>3
<1>6. \A i \in DOMAIN rec'.talk : rec'.talk[i].path \in {NoPath, rec'.root}
  <2>1. \A i \in DOMAIN rec'.talk : rec'.talk[i] = m \/ (i \in DOMAIN rec.talk /\ rec'.talk[i] = rec.talk[i])
    BY <1>1, <1>3 DEF Talks
  <2> QED BY <1>3, <1>4, <2>1 DEF Conversation
<1>7. Conversation(rec')
  BY <1>3, <1>4, <1>5, <1>6 DEF Conversation
<1>8. TapeComplete(entries', rec')
  <2>1. TapeComplete(entries, rec) /\ (Sound(rec') => Sound(rec) /\ rec.pend \subseteq rec'.pend)
    BY <1>3 DEF CleanInductive, Sound
  <2>2. (~Cut(entries') /\ rec'.models /\ Sound(rec') /\ m.from = "model") =>
          AnswerEntry(rec', Len(rec.talk) + 1) \in rec'.pend
    OBVIOUS
  <2>3. (~Cut(entries') /\ rec.talk # <<>> /\ IsCall(LastCall(rec.talk)) /\ m.body # Failed) =>
          OnTape(entries', ResultEntry(rec', Len(rec.talk)))
    OBVIOUS
  <2> QED BY <1>1, <1>3, <2>1, <2>2, <2>3, TalkGrows
<1> QED BY <1>7, <1>8, RecorderKeepsClean

LEMMA CleanRecording ==
  ASSUME Inductive, CleanInductive, TypeOK',
         \/ RecordAnswer \/ RecordBrokenStream \/ StoreAnswer \/ RecordTool
         \/ RecordToolError \/ EndRecording \/ Crash
  PROVE  CleanInductive'
<1>1. /\ rec \in Recording /\ rec.talk \in Talks /\ rec.root \in {Worktree, NoRoot}
      /\ rec.pend \subseteq Entries /\ entries \in Seq(Entries)
      /\ rec' \in Recording /\ entries' \in Seq(Entries)
      /\ rec.status \in {"running", "passed", "failed"}
  BY DEF Inductive, TypeOK, Recording
<1>2. /\ Conversation(rec) /\ TapeComplete(entries, rec) /\ ResultsRecorded(entries, rec)
  BY DEF CleanInductive
<1>3. Torn \in Entries /\ IsTorn(Torn) /\ Torn.kind # "tool"
  BY TornType DEF IsTorn, Torn, Entry
<1>4. CASE RecordAnswer
  <2>1. PICK a \in LiveAnswers(rec.root) :
          rec' = [rec EXCEPT !.talk = Append(@, a), !.phase = AfterAnswer(a, "closing"),
                             !.pend = ToStore(a)]
    BY <1>4 DEF RecordAnswer
  <2>2. a \in Messages /\ a.from = "model" /\ a.path \in {NoPath, rec.root}
    BY <1>1, <2>1, LiveSays
  <2>3. rec' = [rec EXCEPT !.talk = Append(@, a), !.phase = AfterAnswer(a, "closing"),
                           !.status = rec.status, !.pend = ToStore(a)]
    BY <1>1, <2>1 DEF Recording
  <2>4. rec.phase = "model" /\ rec.pend = {} /\ UNCHANGED <<entries, bundle, ses>>
    BY <1>4 DEF RecordAnswer
  <2>5. AfterAnswer(a, "closing") = IF IsCall(a) THEN "tool" ELSE "closing"
    BY DEF AfterAnswer
  <2> QED BY <1>1, <2>2, <2>3, <2>4, <2>5, CleanAnswer
<1>5. CASE RecordBrokenStream
  <2> DEFINE a == Message("model", Partial, NoPath)
  <2>1. PICK pend \in {{}, ToStore(a)} :
          rec' = [rec EXCEPT !.talk = Append(@, a), !.phase = "closing",
                             !.status = "failed", !.pend = pend]
    BY <1>5 DEF RecordBrokenStream
  <2>2. a \in Messages /\ a.from = "model" /\ a.path \in {NoPath, rec.root} /\ ~IsCall(a)
    BY DEF Message, Messages, Paths, IsCall
  <2>3. rec.phase = "model" /\ rec.pend = {} /\ UNCHANGED <<entries, bundle, ses>>
    BY <1>5 DEF RecordBrokenStream
  <2> HIDE DEF a
  <2> QED BY <1>1, <2>1, <2>2, <2>3, CleanAnswer
<1>6. CASE StoreAnswer
  <2>1. PICK e \in rec.pend : Puts(e)
    BY <1>6 DEF StoreAnswer
  <2>2. /\ rec.phase # "ended" /\ rec' = [rec EXCEPT !.pend = {}] /\ UNCHANGED <<bundle, ses>>
    BY <1>6 DEF StoreAnswer
  <2>3. /\ rec'.root = rec.root /\ rec'.talk = rec.talk /\ rec'.spec = rec.spec
        /\ rec'.phase = rec.phase /\ rec'.pend = {} /\ rec'.status = rec.status
        /\ rec'.models = rec.models /\ rec'.verifies = rec.verifies
    BY <1>1, <2>2 DEF Recording
  <2>4. e \in Entries /\ e.kind = "model" /\ rec.pend = {e}
    BY <1>1, <1>2, <2>1 DEF Conversation
  <2>5. PICK x \in {e, Torn} : entries' = Put(entries, x)
    BY <2>1 DEF Puts
  <2>6. x \in Entries /\ x.kind # "tool"
    BY <1>3, <2>4
  <2>7. Conversation(rec')
    BY <1>2, <2>3 DEF Conversation
  <2>8. ResultsRecorded(entries', rec')
    <3>1. ResultsRecorded(entries, rec')
      BY <1>1, <1>2, <2>3, ResultsStay
    <3> QED BY <1>1, <2>5, <2>6, <3>1, PutResults
  <2>9. TapeComplete(entries', rec')
    <3>1. \A i : AnswerEntry(rec', i) = AnswerEntry(rec, i) /\ ResultEntry(rec', i) = ResultEntry(rec, i)
      BY <2>3 DEF AnswerEntry, ResultEntry
    <3>2. ASSUME ~Cut(entries')
          PROVE  ~Cut(entries) /\ OnTape(entries', e) /\ \A y : OnTape(entries, y) => OnTape(entries', y)
      <4>1. ~Cut(entries) /\ ~IsTorn(x) /\ OnTape(entries', x) /\ \A y : OnTape(entries, y) => OnTape(entries', y)
        BY <1>1, <2>5, <2>6, <3>2, PutWhole
      <4> QED BY <1>3, <4>1
    <3>3. Sound(rec') => Sound(rec)
      BY <2>3 DEF Sound
    <3> SUFFICES ASSUME ~Cut(entries') PROVE TapeComplete(entries', rec')
      BY DEF TapeComplete
    <3>4. ASSUME rec'.models, Sound(rec'), NEW i \in DOMAIN rec'.talk, rec'.talk[i].from = "model"
          PROVE  OnTape(entries', AnswerEntry(rec', i))
      <4>1. OnTape(entries, AnswerEntry(rec, i)) \/ AnswerEntry(rec, i) \in rec.pend
        BY <1>2, <2>3, <3>2, <3>3, <3>4 DEF TapeComplete
      <4> QED BY <2>4, <3>1, <3>2, <4>1
    <3>5. ASSUME NEW i \in DOMAIN rec'.talk, IsCall(rec'.talk[i]), i < Len(rec'.talk),
                 rec'.talk[i + 1].body # Failed
          PROVE  OnTape(entries', ResultEntry(rec', i))
      <4>1. OnTape(entries, ResultEntry(rec, i))
        BY <1>2, <2>3, <3>2, <3>5 DEF TapeComplete
      <4> QED BY <3>1, <3>2, <4>1
    <3> QED BY <3>4, <3>5 DEF TapeComplete
  <2> QED BY <2>2, <2>7, <2>8, <2>9, RecorderKeepsClean
<1>7. CASE RecordTool
  <2>1. PICK r \in LiveResults(rec.root) :
          rec' = [rec EXCEPT !.talk = Append(@, r), !.phase = "model"] /\ Puts(ToolEntry(r))
    BY <1>7 DEF RecordTool
  <2>2. r \in Messages /\ r.from = "tool" /\ r.path \in {NoPath, rec.root}
    BY <1>1, <2>1, LiveSays
  <2>3. rec.phase = "tool" /\ UNCHANGED <<bundle, ses>>
    BY <1>7 DEF RecordTool
  <2>4. /\ rec'.talk = Append(rec.talk, r) /\ rec'.root = rec.root /\ rec'.spec = rec.spec
    BY <1>1, <2>1 DEF Recording
  <2>5. /\ rec.talk # <<>> /\ Len(rec.talk) \in DOMAIN rec.talk /\ IsCall(rec.talk[Len(rec.talk)])
        /\ Len(rec.talk) \in Nat
    BY <1>1, <1>2, <2>3 DEF Conversation, Talks, LastCall
  <2>6. /\ Len(rec.talk) \in DOMAIN rec'.talk /\ Len(rec.talk) < Len(rec'.talk)
        /\ rec'.talk[Len(rec.talk)] = rec.talk[Len(rec.talk)] /\ rec'.talk[Len(rec.talk) + 1] = r
    BY <1>1, <2>4, <2>5 DEF Talks
  <2>7. ToolEntry(r) = ResultEntry(rec', Len(rec.talk))
    BY <2>4, <2>6 DEF ToolEntry, ResultEntry, CallKey, LastCall
  <2>8. ToolEntry(r) \in Entries
    <3>1. Normalize(rec.root, r) \in Messages /\ CallKey(rec.root, LastCall(rec.talk)) \in Messages
      BY <1>1, <2>2, <2>5, NormalizeType DEF CallKey, LastCall, Talks
    <3> QED BY <3>1 DEF ToolEntry, Entry, Entries
  <2>9. PICK x \in {ToolEntry(r), Torn} : entries' = Put(entries, x)
    BY <2>1 DEF Puts
  <2>10. x \in Entries
    BY <1>3, <2>8
  <2>11. Grown(entries, entries') /\ (~Cut(entries') => OnTape(entries', ResultEntry(rec', Len(rec.talk))))
    <3>1. ~Cut(entries') => /\ ~Cut(entries) /\ \A y : OnTape(entries, y) => OnTape(entries', y)
                            /\ ~IsTorn(x) /\ OnTape(entries', x)
      BY <1>1, <2>9, <2>10, PutWhole
    <3> QED BY <1>3, <2>7, <3>1 DEF Grown
  <2>12. ResultsRecorded(entries', rec')
    <3>1. ResultsRecorded(entries, rec')
      BY <1>1, <1>2, <2>2, <2>4, ResultsStay
    <3>2. x.kind = "tool" => x = ResultEntry(rec', Len(rec.talk))
      BY <1>3, <2>7
    <3>3. x.kind = "tool" =>
            \E i \in DOMAIN rec'.talk : IsCall(rec'.talk[i]) /\ i < Len(rec'.talk) /\ x = ResultEntry(rec', i)
      BY <2>5, <2>6, <3>2
    <3> QED BY <1>1, <2>9, <2>10, <3>1, <3>3, PutResults
  <2>13. rec' = [rec EXCEPT !.talk = Append(@, r), !.phase = "model"]
    BY <2>1
  <2> QED BY <1>1, <2>2, <2>3, <2>11, <2>12, <2>13, CleanResult
<1>8. CASE RecordToolError
  <2> DEFINE m == ToolError
  <2>1. /\ rec.phase = "tool" /\ rec' = [rec EXCEPT !.talk = Append(@, m), !.phase = "model"]
        /\ UNCHANGED <<entries, bundle, ses>>
    BY <1>8 DEF RecordToolError
  <2>2. m \in Messages /\ m.from = "tool" /\ m.path \in {NoPath, rec.root} /\ m.body = Failed
    BY DEF ToolError, Message, Messages, Paths
  <2>3. ResultsRecorded(entries', rec')
    <3>1. rec'.talk = Append(rec.talk, m) /\ rec'.root = rec.root /\ rec'.spec = rec.spec
      BY <1>1, <2>1 DEF Recording
    <3>2. UNCHANGED entries
      BY <2>1
    <3> HIDE DEF m
    <3> QED BY <1>1, <1>2, <2>2, <3>1, <3>2, ResultsStay
  <2>4. Grown(entries, entries')
    BY <2>1 DEF Grown
  <2> HIDE DEF m
  <2> QED BY <1>1, <2>1, <2>2, <2>3, <2>4, CleanResult
<1>9. CASE EndRecording
  <2>1. PICK ok \in BOOLEAN, restores \in Restores :
          rec' = [rec EXCEPT !.phase = "ended", !.verifies = {ok}, !.restores = restores,
                             !.status = IF @ = "running" /\ ok THEN "passed" ELSE "failed"]
    BY <1>9 DEF EndRecording
  <2>2. rec.phase = "closing" /\ rec.pend = {} /\ UNCHANGED <<entries, bundle, ses>>
    BY <1>9 DEF EndRecording
  <2>3. /\ rec'.root = rec.root /\ rec'.spec = rec.spec /\ rec'.talk = rec.talk
        /\ rec'.phase = "ended" /\ rec'.pend = {} /\ rec'.models = rec.models
        /\ rec'.status = (IF rec.status = "running" /\ ok THEN "passed" ELSE "failed")
        /\ rec'.verifies = {ok}
    BY <1>1, <2>1, <2>2 DEF Recording
  <2>4. Conversation(rec')
    BY <1>2, <2>2, <2>3 DEF Conversation
  <2>5. Sound(rec') => Sound(rec)
    BY <2>2, <2>3 DEF Sound
  <2>6. \A i : AnswerEntry(rec', i) = AnswerEntry(rec, i) /\ ResultEntry(rec', i) = ResultEntry(rec, i)
    BY <2>3 DEF AnswerEntry, ResultEntry
  <2>7. TapeComplete(entries', rec')
    BY <1>2, <2>2, <2>3, <2>5, <2>6 DEF TapeComplete
  <2>8. ResultsRecorded(entries', rec')
    BY <1>2, <2>2, <2>3, <2>6 DEF ResultsRecorded
  <2> QED BY <2>2, <2>4, <2>7, <2>8, RecorderKeepsClean
<1>10. CASE Crash
  <2>1. rec' = [rec EXCEPT !.phase = "ended", !.pend = {}] /\ rec.phase # "ended"
        /\ UNCHANGED <<bundle, ses>>
    BY <1>10 DEF Crash
  <2>2. /\ rec'.root = rec.root /\ rec'.spec = rec.spec /\ rec'.talk = rec.talk
        /\ rec'.phase = "ended" /\ rec'.pend = {} /\ rec'.models = rec.models
        /\ rec'.status = rec.status /\ rec'.verifies = rec.verifies
    BY <1>1, <2>1 DEF Recording
  <2>3. entries' = entries \/ entries' = Put(entries, Torn)
    BY <1>10 DEF Crash
  <2>4. rec.status # "passed"
    BY <1>2, <2>1 DEF Conversation
  <2>5. Conversation(rec')
    BY <1>2, <2>2, <2>4 DEF Conversation
  <2>6. ~Sound(rec')
    BY <2>2, <2>4 DEF Sound
  <2>7. \A i : ResultEntry(rec', i) = ResultEntry(rec, i)
    BY <2>2 DEF ResultEntry
  <2>8. ~Cut(entries') => entries' = entries
    BY <1>1, <1>3, <2>3, PutWhole
  <2>9. TapeComplete(entries', rec')
    BY <1>2, <2>2, <2>6, <2>7, <2>8 DEF TapeComplete
  <2>10. ResultsRecorded(entries', rec')
    <3>1. ResultsRecorded(entries, rec')
      BY <1>1, <1>2, <2>2, ResultsStay
    <3> QED BY <1>1, <1>3, <2>3, <3>1, PutResults
  <2> QED BY <2>1, <2>5, <2>9, <2>10, RecorderKeepsClean
<1> QED BY <1>4, <1>5, <1>6, <1>7, <1>8, <1>9, <1>10

\* The user between recording and replay.
LEMMA CleanUser ==
  ASSUME Inductive, CleanInductive,
         \/ Change \/ Export \/ StartReplay \/ StartRun \/ StartReproduce
         \/ StartFromBundle \/ RefuseDrift
  PROVE  CleanInductive'
<1>1. rec \in Recording /\ rec.talk \in Talks /\ Conversation(rec)
  BY DEF Inductive, TypeOK, Recording, CleanInductive
<1>2. CASE Change
  <2>1. ses.phase = "idle" /\ UNCHANGED <<entries, rec, bundle, ses>>
    BY <1>2 DEF Change
  <2>2. Tracks(ses, rec) => Tracks(ses, rec)'
    BY <2>1 DEF Tracks
  <2> QED BY <2>1, <2>2 DEF CleanInductive, Readable, Clean, CallPlaces, CallAt, AnswerAt
<1>3. CASE Export
  <2>1. /\ bundle' = {[entries |-> entries, spec |-> rec.spec, env |-> machine.env]}
        /\ rec.phase = "ended" /\ UNCHANGED <<machine, entries, rec, ses>>
    BY <1>3 DEF Export
  <2>2. \A b \in bundle' : rec.phase = "ended" /\ b.entries = entries
    BY <2>1
  <2>3. Tracks(ses, rec) => Tracks(ses, rec)'
    BY <2>1 DEF Tracks, Unsettled
  <2> QED BY <2>1, <2>2, <2>3 DEF CleanInductive, Readable, Clean, CallPlaces, CallAt, AnswerAt
<1>4. ASSUME NEW how, NEW strict, NEW models, NEW spec, StartSession(how, strict, models, spec)
      PROVE  CleanInductive'
  <2>1. rec.phase = "ended" /\ UNCHANGED <<entries, rec, bundle>>
    BY <1>4 DEF StartSession
  <2>2. /\ ses'.talk = <<>> /\ ses'.live = {} /\ ses'.phase = "model"
        /\ ses'.root \in {Fresh, NoRoot}
    BY <1>4 DEF StartSession, NoSession
  <2>3. ASSUME Clean PROVE Tracks(ses, rec)'
    <3>1. Len(rec.talk) \in Nat /\ rec.talk # <<>> /\ Len(<<>>) = 0 /\ Len(rec.talk) # 0
      BY <1>1, <2>3 DEF Clean, Conversation, Talks
    <3>2. rec.talk[1].from = "model" /\ 0 + 1 = 1
      <4>1. 1 \in DOMAIN rec.talk
        BY <1>1, <3>1 DEF Talks
      <4>2. TakesTurns(rec.talk)
        BY <1>1 DEF Conversation
      <4> QED BY <4>1, <4>2 DEF TakesTurns
    <3>3. Normalized(ses'.root, ses'.talk, 0) = Normalized(rec.root, rec.talk, 0)
      <4>1. 1..0 = {}
        OBVIOUS
      <4> QED BY <4>1 DEF Normalized
    <3> QED BY <2>1, <2>2, <3>1, <3>2, <3>3 DEF Tracks
  <2>4. (Readable(ses, rec) => Tracks(ses, rec))'
    BY <2>1, <2>3 DEF Readable, Clean, CallPlaces, CallAt, AnswerAt
  <2> QED BY <2>1, <2>2, <2>4 DEF CleanInductive
<1>5. CASE RefuseDrift
  <2>1. /\ ses' = [ses EXCEPT !.phase = "refused"] /\ ses.phase = "idle" /\ rec.phase = "ended"
        /\ UNCHANGED <<machine, entries, rec, bundle>>
    BY <1>5 DEF RefuseDrift
  <2>2. ses \in Sessions
    BY DEF Inductive, TypeOK
  <2>3. /\ ses'.phase = "refused" /\ ses'.live = ses.live /\ ses'.talk = ses.talk
        /\ ses'.root = ses.root /\ ses'.spec = ses.spec /\ ses'.models = ses.models
        /\ ses'.unread = ses.unread
    BY <2>1, <2>2 DEF Sessions
  <2>4. Tracks(ses, rec)'
    BY <2>1, <2>3 DEF CleanInductive, Tracks
  <2> QED BY <2>1, <2>3, <2>4 DEF CleanInductive
<1> QED BY <1>2, <1>3, <1>4, <1>5 DEF StartReplay, StartRun, StartReproduce, StartFromBundle

\* What hearing and giving up leave alone.
LEMMA SessionSteps ==
  ASSUME Inductive, AskModel \/ AskLiveModel \/ CallTool \/ ReadFails
  PROVE  /\ UNCHANGED <<machine, entries, rec, bundle>> /\ ses.phase \in {"model", "tool"}
         /\ ses'.root = ses.root /\ ses'.spec = ses.spec /\ ses'.how = ses.how
         /\ ses'.models = ses.models /\ ses'.strict = ses.strict /\ ses'.phase \notin {"idle", "refused"}
         /\ ses.unread => ses'.unread
         /\ ReadFails => ses'.unread
<1> DEFINE Kept == ses'.how = ses.how /\ ses'.models = ses.models /\ ses'.strict = ses.strict
<1>1. ses \in Sessions
  BY DEF Inductive, TypeOK
<1>2. ASSUME NEW unread \in {ses.unread, TRUE}, NEW m, NEW live,
             ses' \in Hears([ses EXCEPT !.unread = unread], m, live)
      PROVE  /\ ses'.root = ses.root /\ ses'.spec = ses.spec /\ Kept
             /\ ses'.phase \notin {"idle", "refused"} /\ ses'.unread = unread
  <2> DEFINE s == [ses EXCEPT !.unread = unread]
  <2>1. PICK phase \in {"model", "tool", "passed", "unverified"} :
          ses' = [s EXCEPT !.talk = Append(@, m), !.live = @ \cup live, !.phase = phase]
    BY <1>2 DEF Hears, AfterAnswer
  <2>2. /\ DOMAIN s = DOMAIN ses /\ s.root = ses.root /\ s.spec = ses.spec /\ s.how = ses.how
        /\ s.models = ses.models /\ s.strict = ses.strict /\ s.unread = unread
        /\ DOMAIN ses = {"phase", "how", "strict", "models", "spec", "root", "talk", "live", "unread"}
    BY <1>1 DEF Sessions
  <2> HIDE DEF s
  <2>3. /\ ses'.root = s.root /\ ses'.spec = s.spec /\ ses'.how = s.how
        /\ ses'.models = s.models /\ ses'.strict = s.strict /\ ses'.unread = s.unread
        /\ ses'.phase = phase
    BY ONLY <2>1, <2>2
  <2> QED BY <2>2, <2>3
<1>3. ASSUME NEW unread \in {ses.unread, TRUE}, ses' \in Fails([ses EXCEPT !.unread = unread])
      PROVE  /\ ses'.root = ses.root /\ ses'.spec = ses.spec /\ Kept
             /\ ses'.phase \notin {"idle", "refused"} /\ ses'.unread = unread
  <2> DEFINE s == [ses EXCEPT !.unread = unread]
  <2>1. ses' = [s EXCEPT !.phase = "failed"]
    BY <1>3 DEF Fails
  <2>2. /\ DOMAIN s = DOMAIN ses /\ s.root = ses.root /\ s.spec = ses.spec /\ s.how = ses.how
        /\ s.models = ses.models /\ s.strict = ses.strict /\ s.unread = unread
        /\ DOMAIN ses = {"phase", "how", "strict", "models", "spec", "root", "talk", "live", "unread"}
    BY <1>1 DEF Sessions
  <2> HIDE DEF s
  <2>3. /\ ses'.root = s.root /\ ses'.spec = s.spec /\ ses'.how = s.how
        /\ ses'.models = s.models /\ ses'.strict = s.strict /\ ses'.unread = s.unread
        /\ ses'.phase = "failed"
    BY ONLY <2>1, <2>2
  <2> QED BY <2>2, <2>3
<1>4. ASSUME NEW unread \in {ses.unread, TRUE},
             LET s == [ses EXCEPT !.unread = unread]
             IN  \/ \E m, live : ses' \in Hears(s, m, live)
                 \/ ses' \in Fails(s)
                 \/ ses' \in ModelMiss(s) \/ ses' \in LiveModel(s)
                 \/ ses' \in LiveTool(s) \/ ses' \in ToolMiss(s)
      PROVE  /\ ses'.root = ses.root /\ ses'.spec = ses.spec /\ Kept
             /\ ses'.phase \notin {"idle", "refused"} /\ ses'.unread = unread
  <2> DEFINE s == [ses EXCEPT !.unread = unread]
  <2>4. ses' \in LiveModel(s) => (\E m, live : ses' \in Hears(s, m, live)) \/ ses' \in Fails(s)
    BY DEF LiveModel
  <2>1. ses' \in ModelMiss(s) => (\E m, live : ses' \in Hears(s, m, live)) \/ ses' \in Fails(s)
    BY <2>4 DEF ModelMiss
  <2>2. ses' \in LiveTool(s) => \E m, live : ses' \in Hears(s, m, live)
    BY DEF LiveTool
  <2>3. ses' \in ToolMiss(s) => (\E m, live : ses' \in Hears(s, m, live)) \/ ses' \in Fails(s)
    BY <2>2 DEF ToolMiss
  <2> QED BY <1>2, <1>3, <1>4, <2>1, <2>2, <2>3, <2>4
<1>5. ses = [ses EXCEPT !.unread = ses.unread]
  BY <1>1 DEF Sessions
<1>6. CASE AskModel
  <2>1. (\E m, live : ses' \in Hears(ses, m, live)) \/ ses' \in ModelMiss(ses)
    BY <1>6 DEF AskModel
  <2>2. /\ ses'.root = ses.root /\ ses'.spec = ses.spec /\ Kept
        /\ ses'.phase \notin {"idle", "refused"} /\ ses'.unread = ses.unread
    BY <1>4, <1>5, <2>1
  <2> QED BY <1>6, <2>2 DEF AskModel, ReadFails, Fault, Inductive, TypeOK
<1>7. CASE CallTool
  <2>1. (\E m, live : ses' \in Hears(ses, m, live)) \/ ses' \in ToolMiss(ses)
    BY <1>7 DEF CallTool
  <2>2. /\ ses'.root = ses.root /\ ses'.spec = ses.spec /\ Kept
        /\ ses'.phase \notin {"idle", "refused"} /\ ses'.unread = ses.unread
    BY <1>4, <1>5, <2>1
  <2> QED BY <1>7, <2>2 DEF CallTool, ReadFails, Fault, Inductive, TypeOK
<1>8. CASE ReadFails
  <2>1. ses' \in ModelMiss([ses EXCEPT !.unread = TRUE]) \/ ses' \in LiveTool([ses EXCEPT !.unread = TRUE])
    BY <1>8 DEF ReadFails
  <2>2. /\ ses'.root = ses.root /\ ses'.spec = ses.spec /\ Kept
        /\ ses'.phase \notin {"idle", "refused"} /\ ses'.unread = TRUE
    BY <1>4, <2>1
  <2> QED BY <1>8, <2>2 DEF ReadFails
<1>9. CASE AskLiveModel
  <2>1. ses' \in LiveModel(ses)
    BY <1>9 DEF AskLiveModel
  <2>2. /\ ses'.root = ses.root /\ ses'.spec = ses.spec /\ Kept
        /\ ses'.phase \notin {"idle", "refused"} /\ ses'.unread = ses.unread
    BY <1>4, <1>5, <2>1
  <2> QED BY <1>9, <2>2 DEF AskLiveModel, ReadFails, Fault, Inductive, TypeOK
<1> QED BY <1>6, <1>7, <1>8, <1>9

\* In a clean run the paths the canonicalizer sees do not tell the runs apart.
LEMMA SameToBoth ==
  ASSUME NEW root \in {Worktree, NoRoot}, NEW other \in {Fresh, NoRoot}, NEW m \in Messages
  PROVE  /\ m.path = NoPath => Normalize(other, m) = Normalize(root, m)
         /\ m.path \in {NoPath, root} => Normalize(other, Normalize(root, m)) = Normalize(root, m)
<1>1. NoPath \notin {root, other} /\ Marker # other
  BY DEF NoPath, NoRoot, Marker
<1>2. CASE m.path = NoPath
  BY <1>1, <1>2 DEF Normalize
<1>3. CASE m.path = root
  BY <1>1, <1>3 DEF Normalize, Messages
<1> QED BY <1>2, <1>3

\* A session that tracks the record and hears m next, as the recorded run did up to
\* the paths, tracks it still.
LEMMA HearingTracks ==
  ASSUME NEW s \in Sessions, NEW t \in Sessions, NEW r \in Recording, NEW m \in Messages,
         Conversation(r), r.status = "passed",
         Tracks(s, r), s.phase \in {"model", "tool"},
         t.talk = Append(s.talk, m), t.live = {}, t.root = s.root,
         m.from = r.talk[Len(s.talk) + 1].from,
         IsCall(m) <=> IsCall(r.talk[Len(s.talk) + 1]),
         NEW end \in {"passed", "unverified"}, end = "unverified" => Unsettled(t, r),
         t.phase = IF m.from = "tool" THEN "model" ELSE IF IsCall(m) THEN "tool" ELSE end,
         t.phase \in {"model", "tool"} =>
            Normalize(s.root, m) = Normalize(r.root, r.talk[Len(s.talk) + 1])
  PROVE  Tracks(t, r)
<1> DEFINE n == Len(s.talk) + 1
<1>1. /\ s.talk \in Talks /\ r.talk \in Talks /\ Len(s.talk) \in Nat /\ Len(r.talk) \in Nat
      /\ DOMAIN r.talk = 1..Len(r.talk)
  BY DEF Sessions, Recording, Talks
<1>2. /\ Len(s.talk) < Len(r.talk) /\ n \in DOMAIN r.talk /\ n \in Nat
      /\ Normalized(s.root, s.talk, Len(s.talk)) = Normalized(r.root, r.talk, Len(s.talk))
      /\ r.talk[n].from = s.phase
  BY <1>1 DEF Tracks
<1>3. Len(t.talk) = n
  BY <1>1
<1> HIDE DEF n
<1> SUFFICES ASSUME t.phase \in {"model", "tool"}
             PROVE  /\ n < Len(r.talk)
                    /\ Normalized(t.root, t.talk, n) = Normalized(r.root, r.talk, n)
                    /\ r.talk[n + 1].from = t.phase
  BY <1>3 DEF Tracks
<1>4. m.from = r.talk[n].from /\ (IsCall(m) <=> IsCall(r.talk[n]))
  BY DEF n
<1>5. n # Len(r.talk)
  <2>1. LastCall(r.talk).from = "model" /\ ~IsCall(LastCall(r.talk))
    BY DEF Conversation
  <2> QED BY <1>4, <2>1 DEF LastCall, IsCall
<1>6. n < Len(r.talk)
  BY <1>1, <1>2, <1>5
<1>7. r.talk[n + 1].from = t.phase
  <2>1. \/ IsCall(r.talk[n]) /\ r.talk[n + 1].from = "tool"
        \/ r.talk[n].from = "tool" /\ r.talk[n + 1].from = "model"
    BY <1>2, <1>6 DEF Conversation, TakesTurns
  <2> QED BY <1>4, <2>1 DEF IsCall
<1>8. Normalized(t.root, t.talk, n) = Normalized(r.root, r.talk, n)
  <2>1. \A i \in 1..n : i = n \/ i \in 1..Len(s.talk)
    BY <1>1 DEF n
  <2>2. t.talk[n] = m /\ \A i \in 1..Len(s.talk) : t.talk[i] = s.talk[i]
    BY <1>1 DEF n, Talks
  <2>3. \A i \in 1..Len(s.talk) : Normalize(s.root, s.talk[i]) = Normalize(r.root, r.talk[i])
    <3>1. ASSUME NEW i \in 1..Len(s.talk) PROVE Normalize(s.root, s.talk[i]) = Normalize(r.root, r.talk[i])
      <4>1. Normalized(s.root, s.talk, Len(s.talk))[i] = Normalized(r.root, r.talk, Len(s.talk))[i]
        BY <1>2
      <4> QED BY <4>1 DEF Normalized
    <3> QED BY <3>1
  <2>4. Normalize(s.root, m) = Normalize(r.root, r.talk[n])
    BY DEF n
  <2>5. \A i \in 1..n : Normalize(t.root, t.talk[i]) = Normalize(r.root, r.talk[i])
    BY <2>1, <2>2, <2>3, <2>4
  <2> QED BY <2>5 DEF Normalized
<1> QED BY <1>6, <1>7, <1>8

\* A clean run's verification passed, so a session without a live tool passes too, if
\* its outcome is settled by the recorded one.
LEMMA CleanHears ==
  ASSUME NEW s \in Sessions, s.live = {}, s.spec = rec.spec, rec.verifies = {TRUE},
         NEW m \in Messages, NEW t \in Hears(s, m, {}), m.from \in {"model", "tool"}
  PROVE  /\ t.talk = Append(s.talk, m) /\ t.live = {} /\ t.root = s.root
         /\ \E end \in {"passed", "unverified"} :
               /\ end = "unverified" => Unsettled(t, rec)
               /\ t.phase = IF m.from = "tool" THEN "model" ELSE IF IsCall(m) THEN "tool" ELSE end
<1>1. PICK ok \in Verdicts(s) :
        t = [s EXCEPT !.talk = Append(@, m), !.live = @ \cup {},
                      !.phase = IF m.from = "tool" THEN "model"
                                ELSE AfterAnswer(m, IF ok THEN "passed" ELSE "unverified")]
  BY DEF Hears
<1>2. t.how = s.how /\ t.talk = Append(s.talk, m) /\ t.live = {} /\ t.root = s.root
  BY <1>1 DEF Sessions
<1>3. CASE ok
  BY <1>1, <1>2, <1>3 DEF Sessions, AfterAnswer
<1>4. CASE ~ok
  <2>1. Unsettled(t, rec)
    BY <1>2, <1>4 DEF Verdicts, Unsettled
  <2> QED BY <1>1, <1>2, <1>4, <2>1 DEF Sessions, AfterAnswer
<1> QED BY <1>3, <1>4

LEMMA CleanSession ==
  ASSUME Inductive, Inductive', CleanInductive, AskModel \/ AskLiveModel \/ CallTool \/ ReadFails
  PROVE  CleanInductive'
<1> DEFINE n == Len(ses.talk) + 1
<1>1. /\ UNCHANGED <<machine, entries, rec, bundle>> /\ ses.phase \in {"model", "tool"}
      /\ ses'.root = ses.root /\ ses'.spec = ses.spec /\ ses'.models = ses.models
      /\ ses'.phase \notin {"idle", "refused"}
      /\ ses.unread => ses'.unread
      /\ ReadFails => ses'.unread
  BY SessionSteps
<1>2. /\ ses \in Sessions /\ ses' \in Sessions /\ rec \in Recording /\ entries \in Seq(Entries)
      /\ ses.talk \in Talks /\ rec.talk \in Talks /\ rec.root \in {Worktree, NoRoot}
      /\ Len(ses.talk) \in Nat /\ Len(rec.talk) \in Nat /\ DOMAIN rec.talk = 1..Len(rec.talk)
      /\ \A i \in DOMAIN rec.talk : rec.talk[i] \in Messages
  BY DEF Inductive, TypeOK, Sessions, Recording, Talks
<1>3. rec.phase = "ended" /\ rec.pend = {} /\ Conversation(rec) /\ ses.root \in {Fresh, NoRoot}
  BY <1>1 DEF CleanInductive, Conversation
<1>4. Tape = entries
  <2>1. ses.how = "bundle" => bundle # {}
    BY DEF Inductive
  <2>2. \A b \in bundle : b.entries = entries
    BY DEF CleanInductive
  <2> QED BY <2>1, <2>2 DEF Tape
<1>5. Readable(ses, rec)' => Readable(ses, rec)
  BY <1>1 DEF Readable, Clean, CallPlaces, CallAt, AnswerAt
<1>14. Tracks(ses', rec) => Tracks(ses, rec)'
  BY <1>1 DEF Tracks, Unsettled
<1> SUFFICES ASSUME Readable(ses, rec), ~ReadFails PROVE Tracks(ses', rec)
  BY <1>1, <1>3, <1>5, <1>14 DEF CleanInductive, Readable
<1>6. /\ Clean /\ ses.models /\ ses.spec = rec.spec /\ rec.status = "passed" /\ rec.models /\ ~Cut(entries)
      /\ Tracks(ses, rec)
  BY DEF Readable, CleanInductive, Clean
<1>7. rec.verifies = {TRUE} /\ Sound(rec)
  BY <1>3, <1>6 DEF Conversation, Sound
<1>8. /\ n \in DOMAIN rec.talk /\ n \in Nat /\ n - 1 = Len(ses.talk)
      /\ Normalized(ses.root, ses.talk, n - 1) = Normalized(rec.root, rec.talk, n - 1)
      /\ rec.talk[n].from = ses.phase /\ ses.live = {}
  <2>1. n - 1 = Len(ses.talk)
    BY <1>2
  <2> QED BY <1>1, <1>2, <1>6, <2>1 DEF Tracks
<1>9. rec.talk[n] \in Messages /\ rec.talk[n].path \in {NoPath, rec.root}
  BY <1>2, <1>3, <1>8 DEF Conversation
<1> HIDE DEF n
<1>10. ASSUME NEW m \in Messages, ses' \in Hears(ses, m, {}), m.from = rec.talk[n].from,
              IsCall(m) <=> IsCall(rec.talk[n]),
              (m.from = "tool" \/ IsCall(m)) => Normalize(ses.root, m) = Normalize(rec.root, rec.talk[n])
       PROVE  Tracks(ses', rec)
  <2>1. m.from \in {"model", "tool"}
    BY <1>1, <1>8, <1>10
  <2>2. /\ ses'.talk = Append(ses.talk, m) /\ ses'.live = {} /\ ses'.root = ses.root
        /\ \E end \in {"passed", "unverified"} :
             /\ end = "unverified" => Unsettled(ses', rec)
             /\ ses'.phase = IF m.from = "tool" THEN "model" ELSE IF IsCall(m) THEN "tool" ELSE end
    BY <1>2, <1>6, <1>7, <1>8, <1>10, <2>1, CleanHears
  <2>3. ses'.phase \in {"model", "tool"} => Normalize(ses.root, m) = Normalize(rec.root, rec.talk[n])
    BY <1>10, <2>1, <2>2
  <2> QED BY <1>1, <1>2, <1>3, <1>6, <1>10, <2>2, <2>3, HearingTracks DEF n
<1>11. CASE AskModel
  <2> DEFINE key == Request(ses.spec, ses.root, ses.talk)
  <2>1. ses.phase = "model" /\ rec.talk[n].from = "model"
    BY <1>8, <1>11 DEF AskModel
  <2>2. ses' \in IF Found(entries, "model", key) THEN Hears(ses, Lookup(entries, "model", key), {})
                 ELSE ModelMiss(ses)
    BY <1>4, <1>11 DEF AskModel
  <2>3. key = [spec |-> rec.spec, talk |-> Normalized(rec.root, rec.talk, n - 1)]
    <3>1. key = [spec |-> ses.spec, talk |-> Normalized(ses.root, ses.talk, Len(ses.talk))]
      <4>1. DOMAIN ses.talk = 1..Len(ses.talk)
        BY <1>2 DEF Talks
      <4> QED BY <4>1 DEF Request, Normalized
    <3> QED BY <1>6, <1>8, <3>1
  <2>4. /\ OnTape(entries, AnswerEntry(rec, n))
        /\ AnswerEntry(rec, n).kind = "model" /\ AnswerEntry(rec, n).key = key
    <3>1. OnTape(entries, AnswerEntry(rec, n)) \/ AnswerEntry(rec, n) \in rec.pend
      BY <1>6, <1>7, <1>8, <2>1 DEF CleanInductive, TapeComplete
    <3> QED BY <1>3, <2>3, <3>1 DEF AnswerEntry, Entry
  <2> HIDE DEF key
  <2>5. Found(entries, "model", key)
    BY <1>2, <1>6, <2>4, FoundOnTape
  <2>6. PICK i \in DOMAIN entries :
          /\ entries[i].kind = "model" /\ entries[i].key = key
          /\ Lookup(entries, "model", key) = entries[i].out
    BY <1>2, <2>5, LookupFinds
  <2>7. PICK k \in DOMAIN rec.talk :
          /\ entries[i].key.talk = Normalized(rec.root, rec.talk, k - 1)
          /\ entries[i].out = rec.talk[k]
    BY <2>6 DEF Inductive, TapeInv, Recorded
  <2>8. k = n
    <3>1. Normalized(rec.root, rec.talk, k - 1) = Normalized(rec.root, rec.talk, n - 1)
      BY <2>3, <2>6, <2>7
    <3>2. 1..(k - 1) = 1..(n - 1)
      <4>1. /\ DOMAIN Normalized(rec.root, rec.talk, k - 1) = 1..(k - 1)
            /\ DOMAIN Normalized(rec.root, rec.talk, n - 1) = 1..(n - 1)
        BY DEF Normalized
      <4> QED BY <3>1, <4>1
    <3>3. k \in Nat \ {0} /\ n \in Nat \ {0}
      BY <1>2, <1>8
    <3> QED BY <3>2, <3>3
  <2>9. ses' \in Hears(ses, rec.talk[n], {})
    BY <2>2, <2>5, <2>6, <2>7, <2>8
  <2>10. IsCall(rec.talk[n]) => Normalize(ses.root, rec.talk[n]) = Normalize(rec.root, rec.talk[n])
    <3>1. IsCall(rec.talk[n]) => rec.talk[n].path = NoPath
      BY <1>6, <1>8 DEF Clean
    <3> QED BY <1>2, <1>3, <1>9, <3>1, SameToBoth
  <2> QED BY <1>9, <1>10, <2>1, <2>9, <2>10
<1>12. CASE CallTool
  <2> DEFINE key == CallKey(ses.root, LastCall(ses.talk))
             p == n - 1
  <2>1. ses.phase = "tool" /\ rec.talk[n].from = "tool"
    BY <1>8, <1>12 DEF CallTool
  <2>2. ses' \in IF Found(entries, "tool", key) THEN Hears(ses, Lookup(entries, "tool", key), {})
                 ELSE ToolMiss(ses)
    BY <1>4, <1>12 DEF CallTool
  <2>3. n # 1
    BY <1>3, <1>8, <2>1 DEF Conversation, TakesTurns
  <2>4. p \in DOMAIN rec.talk /\ p < Len(rec.talk) /\ p + 1 = n /\ p = Len(ses.talk)
    BY <1>2, <1>8, <2>3
  <2> HIDE DEF p
  <2>5. IsCall(rec.talk[p])
    BY <1>3, <2>1, <2>4 DEF Conversation, TakesTurns
  <2>6. key = CallAt(p)
    <3>1. Normalized(ses.root, ses.talk, n - 1)[p] = Normalize(ses.root, ses.talk[p])
      BY <1>2, <1>8, <2>4 DEF Normalized
    <3>2. Normalized(rec.root, rec.talk, n - 1)[p] = Normalize(rec.root, rec.talk[p])
      BY <1>2, <1>8, <2>4 DEF Normalized
    <3> QED BY <1>8, <2>4, <3>1, <3>2 DEF CallKey, LastCall, CallAt
  <2> HIDE DEF key
  <2>7. /\ OnTape(entries, ResultEntry(rec, p))
        /\ ResultEntry(rec, p).kind = "tool" /\ ResultEntry(rec, p).key = key
    <3>1. rec.talk[p + 1].body # Failed
      BY <1>6, <1>8, <2>4 DEF Clean
    <3>2. OnTape(entries, ResultEntry(rec, p))
      BY <1>6, <2>4, <2>5, <3>1 DEF CleanInductive, TapeComplete
    <3> QED BY <2>6, <3>2 DEF ResultEntry, Entry, CallAt
  <2>8. Found(entries, "tool", key)
    BY <1>2, <1>6, <2>7, FoundOnTape
  <2>9. PICK i \in DOMAIN entries :
          /\ entries[i].kind = "tool" /\ entries[i].key = key
          /\ Lookup(entries, "tool", key) = entries[i].out
    BY <1>2, <2>8, LookupFinds
  <2>10. PICK j \in DOMAIN rec.talk :
           IsCall(rec.talk[j]) /\ j < Len(rec.talk) /\ entries[i] = ResultEntry(rec, j)
    BY <2>9 DEF CleanInductive, ResultsRecorded
  <2>11. AnswerAt(j) = AnswerAt(p)
    <3>1. CallAt(j) = CallAt(p)
      BY <2>6, <2>9, <2>10 DEF ResultEntry, Entry, CallAt
    <3> QED BY <1>6, <2>4, <2>5, <2>10, <3>1 DEF Clean, CallPlaces
  <2>12. Lookup(entries, "tool", key) = Normalize(rec.root, rec.talk[n])
    BY <2>4, <2>9, <2>10, <2>11 DEF ResultEntry, Entry, AnswerAt
  <2> DEFINE m == Normalize(rec.root, rec.talk[n])
  <2>13. m \in Messages /\ m.from = "tool"
    BY <1>9, <2>1, NormalizeType
  <2>14. Normalize(ses.root, m) = Normalize(rec.root, rec.talk[n])
    BY <1>2, <1>3, <1>9, SameToBoth
  <2>15. ses' \in Hears(ses, m, {})
    BY <2>2, <2>8, <2>12
  <2>16. ~IsCall(m) /\ ~IsCall(rec.talk[n])
    BY <2>1, <2>13 DEF IsCall
  <2> HIDE DEF m
  <2> QED BY <1>10, <2>1, <2>13, <2>14, <2>15, <2>16
<1>13. ~AskLiveModel
  BY <1>6 DEF AskLiveModel
<1> QED BY <1>11, <1>12, <1>13

-----------------------------------------------------------------------------
(* What tools answer in a session *)

\* ToolsAnswerAsRecorded of a session s, and where its conversation stands.
Answered(s) ==
  (s.strict /\ ~s.unread) =>
    \A i \in DOMAIN s.talk :
       (s.talk[i].from = "tool" /\ s.talk[i].body # Missed) =>
         \E j \in CallPlaces :
            /\ j < Len(rec.talk)
            /\ CallAt(j) = Normalize(s.root, s.talk[i - 1])
            /\ AnswerAt(j) = s.talk[i]

AnswersInv ==
  /\ Answered(ses)
  /\ ses.phase = "tool" => ses.talk # <<>>
  /\ ses.talk # <<>> => ses.talk[1].from = "model"

\* A session that hears m, which is the recorded answer to the call before it.
LEMMA HearingAnswers ==
  ASSUME Inductive, AnswersInv, UNCHANGED rec, NEW s \in Sessions,
         s.talk = ses.talk, s.strict = ses.strict, s.root = ses.root, s.phase = ses.phase,
         ses.unread => s.unread, NEW m \in Messages, NEW live \in SUBSET {"model", "tool"},
         ses' \in Hears(s, m, live), m.from = "tool" => ses.phase = "tool",
         (s.strict /\ ~s.unread /\ m.from = "tool" /\ m.body # Missed) =>
           \E j \in CallPlaces : /\ j < Len(rec.talk)
                                 /\ CallAt(j) = Normalize(ses.root, LastCall(ses.talk))
                                 /\ AnswerAt(j) = m
  PROVE  AnswersInv'
<1>1. /\ rec \in Recording /\ ses.talk \in Talks
      /\ ses'.talk = Append(ses.talk, m) /\ ses'.strict = ses.strict
      /\ ses'.unread = s.unread /\ ses'.root = ses.root
  BY HearsAppends DEF Inductive, TypeOK, Sessions
<1>2. ses'.talk # <<>>
  BY <1>1 DEF Talks
<1>3. CallPlaces' = CallPlaces /\ \A j : CallAt(j)' = CallAt(j) /\ AnswerAt(j)' = AnswerAt(j)
  BY DEF CallPlaces, CallAt, AnswerAt
<1>4. ASSUME ses'.strict, ~ses'.unread, NEW i \in DOMAIN ses'.talk,
             ses'.talk[i].from = "tool", ses'.talk[i].body # Missed
      PROVE  \E j \in CallPlaces : /\ j < Len(rec.talk)
                                   /\ CallAt(j) = Normalize(ses.root, ses'.talk[i - 1])
                                   /\ AnswerAt(j) = ses'.talk[i]
  <2>1. Len(ses.talk) \in Nat /\ DOMAIN ses.talk = 1..Len(ses.talk)
    BY <1>1 DEF Talks
  <2>2. CASE i \in DOMAIN ses.talk
    <3>1. ses'.talk[i] = ses.talk[i]
      BY <1>1, <2>2 DEF Talks
    <3>2. PICK j \in CallPlaces : /\ j < Len(rec.talk)
                                  /\ CallAt(j) = Normalize(ses.root, ses.talk[i - 1])
                                  /\ AnswerAt(j) = ses.talk[i]
      BY <1>1, <1>4, <2>2, <3>1 DEF AnswersInv, Answered
    <3>3. i # 1
      BY <1>4, <2>1, <2>2, <3>1 DEF AnswersInv
    <3>4. ses'.talk[i - 1] = ses.talk[i - 1]
      BY <1>1, <2>1, <2>2, <3>3 DEF Talks
    <3> QED BY <3>1, <3>2, <3>4
  <2>3. CASE i \notin DOMAIN ses.talk
    <3>1. i = Len(ses.talk) + 1 /\ ses'.talk[i] = m
      BY <1>1, <2>1, <2>3 DEF Talks
    <3>2. ses.talk # <<>>
      BY <1>4, <3>1 DEF AnswersInv
    <3>3. ses'.talk[i - 1] = LastCall(ses.talk)
      BY <1>1, <2>1, <3>1, <3>2 DEF Talks, LastCall
    <3> QED BY <1>1, <1>4, <3>1, <3>3
  <2> QED BY <2>2, <2>3
<1>5. ses'.talk[1].from = "model"
  <2>1. CASE ses.talk = <<>>
    <3>1. m.from = "model" /\ ses'.talk[1] = m
      BY <1>1, <2>1 DEF AnswersInv, Messages
    <3> QED BY <3>1
  <2>2. CASE ses.talk # <<>>
    <3>1. ses'.talk[1] = ses.talk[1]
      BY <1>1, <2>2 DEF Talks
    <3> QED BY <2>2, <3>1 DEF AnswersInv
  <2> QED BY <2>1, <2>2
<1>6. Answered(ses)'
  BY <1>1, <1>3, <1>4 DEF Answered
<1> QED BY <1>2, <1>5, <1>6 DEF AnswersInv

\* A session that gives up.
LEMMA FailingAnswers ==
  ASSUME Inductive, AnswersInv, UNCHANGED rec, NEW unread \in {ses.unread, TRUE},
         ses' \in Fails([ses EXCEPT !.unread = unread])
  PROVE  AnswersInv'
<1>1. /\ ses'.talk = ses.talk /\ ses'.strict = ses.strict /\ ses'.root = ses.root
      /\ ses'.phase = "failed" /\ (ses.unread => ses'.unread)
  BY DEF Inductive, TypeOK, Sessions, Fails
<1>2. CallPlaces' = CallPlaces /\ \A j : CallAt(j)' = CallAt(j) /\ AnswerAt(j)' = AnswerAt(j)
  BY DEF CallPlaces, CallAt, AnswerAt
<1>3. Answered(ses)'
  BY <1>1, <1>2 DEF AnswersInv, Answered
<1> QED BY <1>1, <1>3 DEF AnswersInv

LEMMA AnswersSession ==
  ASSUME Inductive, CleanInductive, AnswersInv,
         AskModel \/ AskLiveModel \/ CallTool \/ ReadFails
  PROVE  AnswersInv'
<1>1. /\ UNCHANGED rec /\ ses \in Sessions /\ ses.unread \in BOOLEAN
      /\ ses = [ses EXCEPT !.unread = ses.unread] /\ ses.root \in {Worktree, Fresh, NoRoot}
  BY SessionSteps DEF Inductive, TypeOK, Sessions
<1>2. ASSUME NEW m \in Messages, m.from = "model", NEW live \in SUBSET {"model", "tool"},
             NEW unread \in {ses.unread, TRUE}, ses' \in Hears([ses EXCEPT !.unread = unread], m, live)
      PROVE  AnswersInv'
  <2> DEFINE s == [ses EXCEPT !.unread = unread]
  <2>1. /\ s \in Sessions /\ s.talk = ses.talk /\ s.strict = ses.strict /\ s.root = ses.root
        /\ s.phase = ses.phase /\ (ses.unread => s.unread)
    BY <1>1 DEF Sessions
  <2>2. ses' \in Hears(s, m, live)
    BY <1>2
  <2> HIDE DEF s
  <2> QED BY <1>1, <1>2, <2>1, <2>2, HearingAnswers
<1>3. ASSUME NEW m \in Messages, m.from = "tool", ses.phase = "tool",
             NEW live \in SUBSET {"model", "tool"}, NEW unread \in {ses.unread, TRUE},
             ses' \in Hears([ses EXCEPT !.unread = unread], m, live),
             \/ ~ses.strict \/ unread \/ m.body = Missed
             \/ \E j \in CallPlaces : /\ j < Len(rec.talk)
                                      /\ CallAt(j) = Normalize(ses.root, LastCall(ses.talk))
                                      /\ AnswerAt(j) = m
      PROVE  AnswersInv'
  <2> DEFINE s == [ses EXCEPT !.unread = unread]
  <2>1. /\ s \in Sessions /\ s.talk = ses.talk /\ s.strict = ses.strict /\ s.root = ses.root
        /\ s.phase = ses.phase /\ (ses.unread => s.unread) /\ s.unread = unread
    BY <1>1 DEF Sessions
  <2>2. ses' \in Hears(s, m, live)
    BY <1>3
  <2> HIDE DEF s
  <2> QED BY <1>1, <1>3, <2>1, <2>2, HearingAnswers
<1>4. ASSUME NEW unread \in {ses.unread, TRUE}, ses' \in LiveModel([ses EXCEPT !.unread = unread])
      PROVE  AnswersInv'
  <2> DEFINE s == [ses EXCEPT !.unread = unread]
  <2>1. CASE ses' \in Fails(s)
    BY <1>1, <2>1, FailingAnswers
  <2>2. CASE \E a \in LiveAnswers(s.root) : ses' \in Hears(s, a, {"model"})
    <3>1. s.root \in {Worktree, Fresh, NoRoot}
      BY <1>1 DEF Sessions
    <3>2. PICK a \in LiveAnswers(s.root) : ses' \in Hears(s, a, {"model"})
      BY <2>2
    <3>3. a \in Messages /\ a.from = "model"
      BY <3>1, <3>2, AnswerType
    <3> QED BY <1>2, <3>2, <3>3
  <2> QED BY <1>4, <2>1, <2>2 DEF LiveModel
<1>5. ASSUME NEW unread \in {ses.unread, TRUE}, ses' \in ModelMiss([ses EXCEPT !.unread = unread])
      PROVE  AnswersInv'
  <2>1. \/ ses' \in Fails([ses EXCEPT !.unread = unread])
        \/ ses' \in LiveModel([ses EXCEPT !.unread = unread])
    BY <1>5 DEF ModelMiss
  <2> QED BY <1>1, <1>4, <2>1, FailingAnswers
<1>6. ASSUME NEW unread \in {ses.unread, TRUE}, ses.phase = "tool", ~ses.strict \/ unread,
             ses' \in LiveTool([ses EXCEPT !.unread = unread])
      PROVE  AnswersInv'
  <2> DEFINE s == [ses EXCEPT !.unread = unread]
  <2>1. s.root \in {Worktree, Fresh, NoRoot}
    BY <1>1 DEF Sessions
  <2>2. PICK x \in LiveResults(s.root) \cup {ToolError} : ses' \in Hears(s, x, {"tool"})
    BY <1>6 DEF LiveTool
  <2>3. x \in Messages /\ x.from = "tool"
    <3>1. ToolError \in Messages /\ ToolError.from = "tool"
      BY DEF ToolError, Message, Messages, Paths
    <3> QED BY <2>1, <2>2, <3>1, AnswerType
  <2> QED BY <1>3, <1>6, <2>2, <2>3
<1>7. CASE AskModel
  <2> DEFINE key == Request(ses.spec, ses.root, ses.talk)
  <2>1. ses' \in IF Found(Tape, "model", key) THEN Hears(ses, Lookup(Tape, "model", key), {})
                  ELSE ModelMiss(ses)
    BY <1>7 DEF AskModel
  <2>2. CASE Found(Tape, "model", key)
    <3>1. PICK i \in DOMAIN Tape :
            /\ Tape[i].kind = "model" /\ Tape[i].out \in Messages
            /\ Lookup(Tape, "model", key) = Tape[i].out
      BY <2>2, TapeIsRecorded, LookupFinds
    <3>2. Tape[i].out.from = "model"
      BY <3>1, TapeIsRecorded DEF Recorded
    <3> QED BY <1>1, <1>2, <2>1, <2>2, <3>1, <3>2
  <2>3. CASE ~Found(Tape, "model", key)
    BY <1>1, <1>5, <2>1, <2>3
  <2> QED BY <2>2, <2>3
<1>8. CASE AskLiveModel
  BY <1>1, <1>4, <1>8 DEF AskLiveModel
<1>9. CASE CallTool
  <2> DEFINE key == CallKey(ses.root, LastCall(ses.talk))
  <2>1. /\ ses.phase = "tool"
        /\ ses' \in IF Found(Tape, "tool", key) THEN Hears(ses, Lookup(Tape, "tool", key), {})
                     ELSE ToolMiss(ses)
    BY <1>9 DEF CallTool
  <2>2. CASE Found(Tape, "tool", key)
    <3>1. PICK i \in DOMAIN Tape :
            /\ Tape[i].kind = "tool" /\ Tape[i].key = key /\ Tape[i].out \in Messages
            /\ Lookup(Tape, "tool", key) = Tape[i].out
      BY <2>2, TapeIsRecorded, LookupFinds
    <3>2. Tape[i].out.from = "tool"
      BY <3>1, TapeIsRecorded DEF Recorded
    <3>3. Tape = entries
      <4>1. ses.how = "bundle" => bundle # {}
        BY DEF Inductive
      <4>2. \A b \in bundle : b.entries = entries
        BY DEF CleanInductive
      <4> QED BY <4>1, <4>2 DEF Tape
    <3>4. PICK j \in DOMAIN rec.talk :
            IsCall(rec.talk[j]) /\ j < Len(rec.talk) /\ Tape[i] = ResultEntry(rec, j)
      BY <3>1, <3>3 DEF CleanInductive, ResultsRecorded
    <3>5. j \in CallPlaces /\ CallAt(j) = key /\ AnswerAt(j) = Tape[i].out
      BY <3>1, <3>4 DEF CallPlaces, CallAt, AnswerAt, ResultEntry, Entry
    <3>6. key = Normalize(ses.root, LastCall(ses.talk))
      BY DEF CallKey
    <3> HIDE DEF key
    <3> QED BY <1>1, <1>3, <2>1, <2>2, <3>1, <3>2, <3>4, <3>5, <3>6
  <2>3. CASE ~Found(Tape, "tool", key) /\ ses.strict
    <3> DEFINE m == Message("tool", Missed, NoPath)
    <3>1. m \in Messages /\ m.from = "tool" /\ m.body = Missed
      BY DEF Message, Messages, Paths
    <3>2. ses' \in Hears(ses, m, {}) \/ ses' \in Fails(ses)
      BY <2>1, <2>3 DEF ToolMiss
    <3> HIDE DEF m
    <3> QED BY <1>1, <1>3, <2>1, <3>1, <3>2, FailingAnswers
  <2>4. CASE ~Found(Tape, "tool", key) /\ ~ses.strict
    BY <1>1, <1>6, <2>1, <2>4 DEF ToolMiss
  <2> QED BY <2>2, <2>3, <2>4
<1>10. CASE ReadFails
  <2>1. CASE ses' \in ModelMiss([ses EXCEPT !.unread = TRUE])
    BY <1>5, <2>1
  <2>2. CASE ses.phase = "tool" /\ ses' \in LiveTool([ses EXCEPT !.unread = TRUE])
    BY <1>6, <2>2
  <2> QED BY <1>10, <2>1, <2>2 DEF ReadFails
<1> QED BY <1>7, <1>8, <1>9, <1>10

LEMMA AnswersStep == Inductive /\ CleanInductive /\ AnswersInv /\ [Next]_vars => AnswersInv'
<1> SUFFICES ASSUME Inductive, CleanInductive, AnswersInv, [Next]_vars PROVE AnswersInv'
  OBVIOUS
<1>1. ses \in Sessions /\ (rec.phase # "ended" => ses.phase = "idle" /\ ses.talk = <<>>)
  BY DEF Inductive, TypeOK, CleanInductive
<1>2. CASE \/ RecordAnswer \/ RecordBrokenStream \/ StoreAnswer \/ RecordTool
           \/ RecordToolError \/ EndRecording \/ Crash
  <2>1. rec.phase # "ended" /\ UNCHANGED ses
    BY <1>2 DEF RecordAnswer, RecordBrokenStream, StoreAnswer, RecordTool,
                RecordToolError, EndRecording, Crash
  <2> QED BY <1>1, <2>1 DEF AnswersInv, Answered
<1>3. CASE Change \/ Export \/ UNCHANGED vars
  BY <1>3 DEF Change, Export, vars, AnswersInv, Answered, CallPlaces, CallAt, AnswerAt
<1>4. CASE StartReplay \/ StartRun \/ StartReproduce \/ StartFromBundle
  <2>1. ses'.talk = <<>> /\ ses'.phase = "model"
    BY <1>4 DEF StartReplay, StartRun, StartReproduce, StartFromBundle, StartSession, NoSession
  <2> QED BY <2>1 DEF AnswersInv, Answered
<1>5. CASE RefuseDrift
  <2>1. ses'.talk = <<>> /\ ses'.phase = "refused"
    BY <1>1, <1>5 DEF RefuseDrift, CleanInductive, Sessions
  <2> QED BY <2>1 DEF AnswersInv, Answered
<1>6. CASE AskModel \/ AskLiveModel \/ CallTool \/ ReadFails
  BY <1>6, AnswersSession
<1> QED BY <1>2, <1>3, <1>4, <1>5, <1>6 DEF Next

-----------------------------------------------------------------------------
(* The theorems *)

LEMMA InductiveInit == Init => Inductive
<1> SUFFICES ASSUME Init PROVE Inductive
  OBVIOUS
<1>1. PICK models \in Recorders, root \in {Worktree, NoRoot} :
        rec = [phase |-> "model", spec |-> machine.spec, models |-> models, env |-> machine.env,
               root |-> root, talk |-> <<>>, status |-> "running",
               verifies |-> BOOLEAN, restores |-> FALSE, pend |-> {}]
  BY DEF Init
<1>2. /\ machine \in Machines /\ entries = <<>> /\ bundle = {} /\ faults = 0
      /\ ses = NoSession(machine.spec)
  BY DEF Init
<1>3. machine.spec \in Specs /\ machine.env \in Envs /\ <<>> \in Talks
  BY <1>2 DEF Specs, Envs, Talks
<1>4. rec \in Recording
  BY <1>1, <1>3 DEF Recording
<1>5. ses \in Sessions
  BY <1>2, <1>3 DEF Sessions, NoSession
<1>6. TypeOK
  BY <1>2, <1>4, <1>5 DEF TypeOK
<1>7. TapeInv
  BY <1>1, <1>2 DEF TapeInv
<1>8. /\ ses.talk = <<>> /\ ses.live = {} /\ ses.how = "replay" /\ ses.phase = "idle"
      /\ rec.phase = "model"
  BY <1>1, <1>2 DEF NoSession
<1>9. Follows(ses, rec) /\ StrictStaysOffline
  BY <1>8 DEF Follows, StrictStaysOffline
<1> QED BY <1>6, <1>7, <1>8, <1>9 DEF Inductive

LEMMA InductiveStep == Inductive /\ [Next]_vars => Inductive'
<1> SUFFICES ASSUME Inductive, [Next]_vars PROVE Inductive'
  OBVIOUS
<1>1. CASE UNCHANGED vars
  BY <1>1 DEF vars, Inductive, TypeOK, TapeInv, StrictStaysOffline
<1> QED BY <1>1, RecordingStep, UserStep, SessionStep DEF Next

\* The invariant every theorem below rests on.
THEOREM InductiveInvariant == Spec => []Inductive
<1> QED BY InductiveInit, InductiveStep, PTL DEF Spec

\* Every variable keeps its type: what is on the tape and what a session hears from
\* it are messages of the run, normalized or not.
THEOREM TypeCorrect == Spec => []TypeOK
<1> QED BY InductiveInvariant, PTL DEF Inductive

\* A strict session never asks the live model unless it was told to keep the model live,
\* and runs a tool only after a failed read (runtime/trpc/replay.go replayCall, runtime.go).
THEOREM NeverAsksLiveModel == Spec => []StrictStaysOffline
<1> QED BY InductiveInvariant, PTL DEF Inductive

\* Every answer in a strict replay of the model is the recorded run's to the same conversation,
\* whatever was torn, lost or repeated on the tape.
THEOREM StrictFollowsRecord == Spec => []ReplayFollowsRecord
<1>1. Inductive => ReplayFollowsRecord
  BY DEF Inductive, Follows, ReplayFollowsRecord
<1> QED BY <1>1, InductiveInvariant, PTL

LEMMA CleanInit == Init => CleanInductive
<1> SUFFICES ASSUME Init PROVE CleanInductive
  OBVIOUS
<1>1. PICK models \in Recorders, root \in {Worktree, NoRoot} :
        rec = [phase |-> "model", spec |-> machine.spec, models |-> models, env |-> machine.env,
               root |-> root, talk |-> <<>>, status |-> "running",
               verifies |-> BOOLEAN, restores |-> FALSE, pend |-> {}]
  BY DEF Init
<1>2. /\ entries = <<>> /\ bundle = {} /\ ses = NoSession(machine.spec)
  BY DEF Init
<1>3. ses.phase = "idle" /\ ses.live = {} /\ ses.talk = <<>> /\ ses.root = NoRoot /\ ~Clean
  BY <1>1, <1>2 DEF NoSession, Clean
<1>4. rec.talk = <<>> /\ rec.phase = "model" /\ rec.status = "running" /\ rec.pend = {}
  BY <1>1
<1>5. Conversation(rec)
  BY <1>4 DEF Conversation, TakesTurns
<1>6. TapeComplete(entries, rec) /\ ResultsRecorded(entries, rec)
  BY <1>2, <1>4 DEF TapeComplete, ResultsRecorded
<1> QED BY <1>2, <1>3, <1>5, <1>6 DEF CleanInductive, Readable

LEMMA CleanStep == Inductive /\ Inductive' /\ CleanInductive /\ [Next]_vars => CleanInductive'
<1> SUFFICES ASSUME Inductive, Inductive', CleanInductive, [Next]_vars PROVE CleanInductive'
  OBVIOUS
<1>1. CASE UNCHANGED vars
  <2>1. Tracks(ses, rec) => Tracks(ses, rec)'
    BY <1>1 DEF vars, Tracks, Unsettled
  <2> QED BY <1>1, <2>1 DEF vars, CleanInductive, Readable, Clean, CallPlaces, CallAt, AnswerAt
<1>2. TypeOK'
  BY DEF Inductive
<1> QED BY <1>1, <1>2, CleanRecording, CleanUser, CleanSession DEF Next

\* A run whose tape misses nothing, whose tools did not fail and whose calls have one
\* answer each replays to its end, from its own store and from a bundle, strict or
\* with fallback, and nothing is called live (runtime/trpc/replay.go): each lookup of
\* the session finds the entry recorded at the same place of the conversation.  It
\* passes if its patch restores what the run was verified on (builder.go Run).
THEOREM CleanRunsReplay == Spec => []CleanRunReplays
<1>1. CleanInductive => CleanRunReplays
  BY DEF CleanInductive, Readable, Tracks, Unsettled, CleanRunReplays
<1>2. Spec => []CleanInductive
  BY InductiveInvariant, CleanInit, CleanStep, PTL DEF Spec
<1> QED BY <1>1, <1>2, PTL

\* What a strict session tells the agent that a tool has answered, the recorded run's
\* tool answered to the same call (runtime/trpc/replay.go BeforeTool), also where the
\* model is live and asks what the recorded one did not.
THEOREM ToolsAnswerFromTape == Spec => []ToolsAnswerAsRecorded
<1>1. Init => AnswersInv
  <2> SUFFICES ASSUME Init PROVE AnswersInv
    OBVIOUS
  <2>1. ses.talk = <<>> /\ ses.phase = "idle"
    BY DEF Init, NoSession
  <2> QED BY <2>1 DEF AnswersInv, Answered
<1>2. AnswersInv => ToolsAnswerAsRecorded
  BY DEF AnswersInv, Answered, ToolsAnswerAsRecorded
<1>3. Spec => []CleanInductive
  BY InductiveInvariant, CleanInit, CleanStep, PTL DEF Spec
<1> QED BY <1>1, <1>2, <1>3, InductiveInvariant, AnswersStep, PTL DEF Spec
=============================================================================
