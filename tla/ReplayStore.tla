------------------------------ MODULE ReplayStore ------------------------------
(***************************************************************************)
(* The replay store of internal/replay: what the canonicalizer makes of a  *)
(* message, the key a call is stored under, and the file of entries a run  *)
(* appends to and a later run looks up (canonicalize.go, jsonstore.go).    *)
(*                                                                         *)
(* A message is [from, body, path]: who said it, what it says, and the     *)
(* absolute path it mentions, if any.  The body of a model's message is    *)
(* the arguments of its tool call, or Done, or Partial when its stream     *)
(* broke.  SHA-256 is taken as injective: a key is the hashed value.       *)
(***************************************************************************)
EXTENDS Integers, Sequences

Done    == "done"      \* a final answer
Partial == "partial"   \* the part of an answer that came before its stream broke
Failed  == "failed"    \* a tool's error
Missed  == "missed"    \* what the model is told when strict replay refuses a tool

NoPath  == "none"
NoRoot  == "no root"      \* Canonicalizer.WorkspaceRoot = "", a run without a worktree
Marker  == "$WORKSPACE"

Message(from, body, path) == [from |-> from, body |-> body, path |-> path]

\* Canonicalizer.Normalize: the run's own root becomes a marker, also inside
\* nested JSON; every other path stays as it is.
Normalize(root, m) == IF m.path = root THEN [m EXCEPT !.path = Marker] ELSE m

\* Fault: only the last message is hashed.
LastMessage(spec, root, talk) ==
  [spec |-> spec,
   talk |-> IF talk = <<>> THEN <<>> ELSE <<Normalize(root, talk[Len(talk)])>>]

\* canonicalizeModelRequest: the messages so far, the tools and the configuration.
Request(spec, root, talk) ==
  [spec |-> spec, talk |-> [i \in DOMAIN talk |-> Normalize(root, talk[i])]]

\* Fault: a tool call is known by its name.
NameKey(root, call) == Message("model", Done, NoPath)

\* Canonicalizer.Hash of a tool call: its name and its arguments.
CallKey(root, call) == Normalize(root, call)

Entry(kind, key, out) == [kind |-> kind, key |-> key, out |-> out]

\* A line that was not written whole: the scan of Lookup ends here.  Put's
\* encoder keeps its first write error, so nothing is appended behind it.
Torn      == Entry("torn", 0, 0)
IsTorn(e) == e.kind = "torn"
Cut(es)   == \E i \in DOMAIN es : IsTorn(es[i])

Matches(e, kind, key) == e.kind = kind /\ e.key = key

\* Where the scan of Lookup ends with an answer: the first entry of the key.
Hits(es, kind, key) ==
  {i \in DOMAIN es : /\ Matches(es[i], kind, key)
                     /\ \A j \in 1..(i - 1) : ~IsTorn(es[j]) /\ ~Matches(es[j], kind, key)}

Found(es, kind, key)  == Hits(es, kind, key) # {}
Lookup(es, kind, key) == es[CHOOSE i \in Hits(es, kind, key) : TRUE].out

\* JSONStore.Put of a line, whole or torn.
Put(es, e) == IF Cut(es) THEN es ELSE Append(es, e)
=============================================================================
