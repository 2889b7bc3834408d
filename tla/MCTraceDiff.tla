----------------------------- MODULE MCTraceDiff -----------------------------
(* TraceDiff on small instances: an answer of the model, two calls of a tool *)
(* that differ in their results only, and an error.                          *)
EXTENDS TraceDiff

Plain == [type |-> "model", name |-> "m", args |-> "", content |-> "c", result |-> ""]

FourSteps ==
  {Plain,
   [Plain EXCEPT !.type = "tool", !.args = "x", !.result = "r"],
   [Plain EXCEPT !.type = "tool", !.args = "x", !.result = "s"],
   [Plain EXCEPT !.type = "error", !.result = "r"]}
=============================================================================
