---------------------------- MODULE MCSqliteStore ----------------------------
(* SqliteStore on small instances. *)
EXTENDS SqliteStore, TLC

SessionsAndIds == Permutations(Sessions) \cup Permutations(Ids)
=============================================================================
