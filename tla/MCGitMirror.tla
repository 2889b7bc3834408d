----------------------------- MODULE MCGitMirror -----------------------------
(* Instances of GitMirror for TLC. *)
EXTENDS GitMirror

CONSTANTS r1, r2, r3, repoA

OneRepo  == [r \in {r1, r2, r3} |-> repoA]
=============================================================================
