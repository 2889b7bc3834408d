----------------------------- MODULE SqliteStore -----------------------------
(* The SQLite run store, internal/store/sqlitestore/sqlitestore.go.          *)
(*                                                                           *)
(* Every builder.Build and every command opens the one database file for    *)
(* itself (New): the workers of a benchmark and the commands of other       *)
(* processes are the sessions here, and nothing but SQLite is between them. *)
(* New runs its statements one by one, each its own transaction: three      *)
(* CREATE ... IF NOT EXISTS, the list of the columns, and an ALTER TABLE    *)
(* for every column that the list lacked. The file may be new, or made by   *)
(* an older version that had the first few of these columns.                *)
(*                                                                           *)
(* An admitted session writes the way the builder does: CreateRun under a   *)
(* fresh id, UpdateRun with the task, events, UpdateRun with the result.    *)
(* Ids are eight random hex digits, so two sessions may draw the same one.  *)
(* A statement may be refused (another connection holds the lock and no     *)
(* busy timeout is set, or the context has ended), a process may be killed. *)
EXTENDS Naturals, Sequences, FiniteSets

CONSTANTS
  Sessions,   \* the connections: workers and commands
  Ids,        \* the run ids that may be drawn
  MaxTime,    \* bound: readings of the clock that events are stamped with
  MaxEvents,  \* bound: appended events
  MaxFaults,  \* bound: refused statements and killed processes
  NoOne       \* no session, no run

ASSUME SqliteStoreAssumption ==
  /\ MaxTime \in Nat
  /\ MaxEvents \in Nat
  /\ MaxFaults \in Nat
  /\ NoOne \notin Sessions
  /\ NoOne \notin Ids

(* What schema creates, in the order of its statements. *)
Schema == <<"runs", "events", "idx_events_run">>

(* The columns migrate looks for, in its order. *)
Migrations == <<"spec_yaml", "workspace_patch", "verification_passed",
                "workspace_changed", "verification", "environment">>

Columns == {Migrations[k] : k \in DOMAIN Migrations}
Objects == {Schema[k] : k \in DOMAIN Schema}

(* A row of runs: the session that made it (NoOne: an older run) and which *)
(* of the writes it shows: 1 at CreateRun, 2 with the task, 3 the result.  *)
Row == [owner : Sessions \cup {NoOne}, stage : 1..3]
NoRow == [owner |-> NoOne, stage |-> 0]
OldRow == [owner |-> NoOne, stage |-> 3]

(* An event is stored under its run and the nanosecond of its timestamp;   *)
(* no counts the events of all runs.                                       *)
Event == [run : Ids, at : 0..MaxTime, no : Nat]

VARIABLES
  objects,   \* the tables and indexes of the file
  columns,   \* which of Columns the table runs has
  rows,      \* the table runs
  events,    \* the table events
  pc,        \* where each session is
  at,        \* the statement of New it is about to run
  seen,      \* the columns its columnNames returned
  run,       \* the run id that it created
  clock,     \* the time
  appended,  \* history: the events for which AppendEvent returned nil
  faults     \* refusals and kills so far

file == <<objects, columns, rows, events>>
vars == <<objects, columns, rows, events, pc, at, seen, run, clock, appended, faults>>

Opening == {"schema", "columns", "migrate"}
Admitted == {"open", "created", "running", "finished"}
Gone == {"rejected", "refused", "killed"}

Init ==
  /\ \/ objects = {} /\ columns = {} /\ rows = [i \in Ids |-> NoRow]
     \/ /\ objects \in {{"runs"}, Objects}
        /\ \E k \in 0..Len(Migrations) : columns = {Migrations[j] : j \in 1..k}
        /\ rows \in [Ids -> {NoRow, OldRow}]
  /\ events = {}
  /\ pc = [s \in Sessions |-> "closed"]
  /\ at = [s \in Sessions |-> 1]
  /\ seen = [s \in Sessions |-> {}]
  /\ run = [s \in Sessions |-> NoOne]
  /\ clock = 0
  /\ appended = {}
  /\ faults = 0

(* New: the directory, sql.Open and Ping change nothing that matters here. *)
Open(s) ==
  /\ pc[s] = "closed"
  /\ pc' = [pc EXCEPT ![s] = "schema"]
  /\ UNCHANGED <<file, at, seen, run, clock, appended, faults>>

(* One statement of the schema. A new table runs has every column. *)
Create(s) ==
  /\ pc[s] = "schema"
  /\ objects' = objects \cup {Schema[at[s]]}
  /\ columns' = IF Schema[at[s]] = "runs" /\ "runs" \notin objects THEN Columns ELSE columns
  /\ \/ /\ at[s] < Len(Schema)
        /\ at' = [at EXCEPT ![s] = @ + 1]
        /\ pc' = pc
     \/ /\ at[s] = Len(Schema)
        /\ at' = [at EXCEPT ![s] = 1]
        /\ pc' = [pc EXCEPT ![s] = "columns"]
  /\ UNCHANGED <<rows, events, seen, run, clock, appended, faults>>

(* Fault: the columns are not read. *)
ReadNoColumns(s) ==
  /\ pc[s] = "columns"
  /\ pc' = [pc EXCEPT ![s] = "migrate"]
  /\ UNCHANGED <<file, at, seen, run, clock, appended, faults>>

(* PRAGMA table_info(runs). *)
ReadColumns(s) ==
  /\ pc[s] = "columns"
  /\ seen' = [seen EXCEPT ![s] = columns]
  /\ pc' = [pc EXCEPT ![s] = "migrate"]
  /\ UNCHANGED <<file, at, run, clock, appended, faults>>

(* Fault: a file with any of the columns is taken for a migrated one. *)
SkipsMigrated(s) == seen[s] # {}

(* The loop of migrate: a listed column is passed over. *)
Skips(s) == Migrations[at[s]] \in seen[s]

Skip(s) ==
  /\ pc[s] = "migrate" /\ at[s] =< Len(Migrations)
  /\ Skips(s)
  /\ at' = [at EXCEPT ![s] = @ + 1]
  /\ UNCHANGED <<file, pc, seen, run, clock, appended, faults>>

(* ALTER TABLE ADD COLUMN fails on a column that is there by now. *)
Alter(s) ==
  /\ pc[s] = "migrate" /\ at[s] =< Len(Migrations)
  /\ ~Skips(s)
  /\ \/ /\ Migrations[at[s]] \notin columns
        /\ columns' = columns \cup {Migrations[at[s]]}
        /\ at' = [at EXCEPT ![s] = @ + 1]
        /\ pc' = pc
     \/ /\ Migrations[at[s]] \in columns
        /\ pc' = [pc EXCEPT ![s] = "rejected"]
        /\ UNCHANGED <<columns, at>>
  /\ UNCHANGED <<objects, rows, events, seen, run, clock, appended, faults>>

(* New returns the store. *)
Admit(s) ==
  /\ pc[s] = "migrate" /\ at[s] > Len(Migrations)
  /\ pc' = [pc EXCEPT ![s] = "open"]
  /\ UNCHANGED <<file, at, seen, run, clock, appended, faults>>

(* Fault: INSERT OR REPLACE. *)
CreateRunReplaces(s, i) ==
  /\ pc[s] = "open"
  /\ rows' = [rows EXCEPT ![i] = [owner |-> s, stage |-> 1]]
  /\ run' = [run EXCEPT ![s] = i]
  /\ pc' = [pc EXCEPT ![s] = "created"]
  /\ UNCHANGED <<objects, columns, events, at, seen, clock, appended, faults>>

(* CreateRun: an INSERT, which the primary key refuses for a taken id. *)
CreateRun(s, i) ==
  /\ pc[s] = "open"
  /\ \/ /\ rows[i] = NoRow
        /\ rows' = [rows EXCEPT ![i] = [owner |-> s, stage |-> 1]]
        /\ run' = [run EXCEPT ![s] = i]
        /\ pc' = [pc EXCEPT ![s] = "created"]
     \/ /\ rows[i] # NoRow
        /\ pc' = [pc EXCEPT ![s] = "refused"]
        /\ UNCHANGED <<rows, run>>
  /\ UNCHANGED <<objects, columns, events, at, seen, clock, appended, faults>>

(* Fault: the record with the task is written after the one with the result. *)
UpdateRunLate(s) ==
  /\ pc[s] \in {"created", "running"}
  /\ rows' = [rows EXCEPT ![run[s]] = [owner |-> s, stage |-> IF pc[s] = "created" THEN 3 ELSE 2]]
  /\ pc' = [pc EXCEPT ![s] = IF @ = "created" THEN "running" ELSE "finished"]
  /\ UNCHANGED <<objects, columns, events, at, seen, run, clock, appended, faults>>

(* UpdateRun replaces the row of the run. Its other branch, CreateRun when *)
(* the UPDATE met no row, is never taken: HolderOwnsRow.                   *)
UpdateRun(s) ==
  /\ pc[s] \in {"created", "running"}
  /\ rows' = [rows EXCEPT ![run[s]] = [owner |-> s, stage |-> IF pc[s] = "created" THEN 2 ELSE 3]]
  /\ pc' = [pc EXCEPT ![s] = IF @ = "created" THEN "running" ELSE "finished"]
  /\ UNCHANGED <<objects, columns, events, at, seen, run, clock, appended, faults>>

(* Fault: INSERT OR IGNORE. *)
StoredFirst(e) ==
  IF \E f \in events : f.run = e.run /\ f.at = e.at THEN events ELSE events \cup {e}

(* INSERT OR REPLACE under the run and the time of the event. *)
Stored(e) == {f \in events : f.run # e.run \/ f.at # e.at} \cup {e}

(* AppendEvent, of an event the normalizer stamped just now. *)
AppendEvent(s) ==
  /\ pc[s] = "running"
  /\ Cardinality(appended) < MaxEvents
  /\ LET e == [run |-> run[s], at |-> clock, no |-> Cardinality(appended)]
     IN  events' = Stored(e) /\ appended' = appended \cup {e}
  /\ UNCHANGED <<objects, columns, rows, pc, at, seen, run, clock, faults>>

(* The clock need not advance between two events. *)
Tick ==
  /\ clock < MaxTime
  /\ clock' = clock + 1
  /\ UNCHANGED <<file, pc, at, seen, run, appended, faults>>

(* A statement is refused: New gives up, Build or Run returns the error;   *)
(* an event or the last update is only logged.                             *)
Refuse(s) ==
  /\ faults < MaxFaults
  /\ faults' = faults + 1
  /\ \/ /\ pc[s] \in Opening
        /\ \E t \in Sessions \ {s} : pc[t] \in (Opening \cup Admitted)
        /\ pc' = [pc EXCEPT ![s] = "rejected"]
     \/ pc[s] \in {"open", "created"} /\ pc' = [pc EXCEPT ![s] = "refused"]
     \/ pc[s] = "running" /\ pc' \in {pc, [pc EXCEPT ![s] = "finished"]}
  /\ UNCHANGED <<file, at, seen, run, clock, appended>>

Kill(s) ==
  /\ faults < MaxFaults
  /\ faults' = faults + 1
  /\ pc[s] \in (Opening \cup Admitted)
  /\ pc' = [pc EXCEPT ![s] = "killed"]
  /\ UNCHANGED <<file, at, seen, run, clock, appended>>

Next ==
  \/ \E s \in Sessions :
       \/ Open(s) \/ Create(s) \/ ReadColumns(s) \/ Skip(s) \/ Alter(s) \/ Admit(s)
       \/ \E i \in Ids : CreateRun(s, i)
       \/ UpdateRun(s) \/ AppendEvent(s)
       \/ Refuse(s) \/ Kill(s)
  \/ Tick

Spec == Init /\ [][Next]_vars

-----------------------------------------------------------------------------

(* The type invariant. *)
TypeOK ==
  /\ objects \subseteq Objects
  /\ columns \subseteq Columns
  /\ rows \in [Ids -> Row \cup {NoRow}]
  /\ events \subseteq Event
  /\ pc \in [Sessions -> {"closed"} \cup Opening \cup Admitted \cup Gone]
  /\ at \in [Sessions -> Nat \ {0}]
  /\ seen \in [Sessions -> SUBSET Columns]
  /\ run \in [Sessions -> Ids \cup {NoOne}]
  /\ clock \in 0..MaxTime
  /\ appended \subseteq Event
  /\ faults \in 0..MaxFaults

(* Whatever file New was given, however many sessions open it at once and  *)
(* wherever one of them was killed, a session that New admitted finds the  *)
(* tables and every column that CreateRun, UpdateRun and scanRun name.     *)
AdmittedFindsSchema ==
  \A s \in Sessions : pc[s] \in Admitted => objects = Objects /\ columns = Columns

(* Sessions that migrate an old file at the same time may reject each      *)
(* other, but never all of them: if nothing was refused or killed, one of  *)
(* the sessions that called New has been or is still being admitted.       *)
SomeoneIsAdmitted ==
  faults = 0 /\ (\E s \in Sessions : pc[s] = "rejected")
    => \E s \in Sessions : pc[s] \in (Opening \cup Admitted \cup {"refused"})

(* A session that created its run finds its own row at every UpdateRun,    *)
(* with what it wrote last, whatever ids the others draw: UpdateRun never  *)
(* falls back to CreateRun, and never overwrites another session's run.    *)
HolderOwnsRow ==
  \A s \in Sessions : run[s] # NoOne =>
    /\ rows[run[s]].owner = s
    /\ pc[s] = "created" => rows[run[s]].stage = 1
    /\ pc[s] = "running" => rows[run[s]].stage = 2

(* No step takes a run out of the store, gives it to another session or    *)
(* takes its record back to an earlier write.                              *)
RowsAreKept ==
  [][\A i \in Ids : rows[i] # NoRow =>
       rows'[i].owner = rows[i].owner /\ rows'[i].stage >= rows[i].stage]_vars

(* An event that AppendEvent accepted is in the table unless a later one   *)
(* of its run, stamped with the same time, has taken its place.            *)
LostEventsShareTime ==
  \A e \in appended \ events :
    \E f \in events : f.run = e.run /\ f.at = e.at /\ f.no > e.no

=============================================================================
