-------------------------- MODULE SqliteStoreProofs --------------------------
(* Safety of SqliteStore, for any number of sessions, any run ids, any     *)
(* reading of the clock and any number of refused statements and kills.    *)
EXTENDS SqliteStore, FiniteSetTheorems, TLAPS

USE SqliteStoreAssumption

-----------------------------------------------------------------------------
(* The statements of New *)

LEMMA MigrationsType ==
  /\ Len(Migrations) = 6 /\ DOMAIN Migrations = 1..6
  /\ \A k, m \in 1..6 : Migrations[k] = Migrations[m] => k = m
  /\ \A k \in 1..6 : Migrations[k] \in Columns
  /\ \A c \in Columns : \E k \in 1..6 : c = Migrations[k]
<1>1. Len(Migrations) = 6 /\ DOMAIN Migrations = 1..6
  BY DEF Migrations
<1>2. \A k, m \in 1..6 : Migrations[k] = Migrations[m] => k = m
  BY DEF Migrations
<1> QED BY <1>1, <1>2 DEF Columns

LEMMA SchemaType ==
  /\ Len(Schema) = 3 /\ DOMAIN Schema = 1..3
  /\ \A k \in 1..3 : Schema[k] \in Objects
  /\ \A o \in Objects : \E k \in 1..3 : o = Schema[k]
  /\ Schema[1] = "runs" /\ "runs" \in Objects
<1>1. Len(Schema) = 3 /\ DOMAIN Schema = 1..3 /\ Schema[1] = "runs"
  BY DEF Schema
<1> QED BY <1>1 DEF Objects

-----------------------------------------------------------------------------
(* Types *)

TypeInv == TypeOK /\ IsFiniteSet(appended)

LEMMA InitType == Init => TypeInv
<1> SUFFICES ASSUME Init PROVE TypeInv
  OBVIOUS
<1> USE DEF Init
<1>1. objects \subseteq Objects
  BY SchemaType
<1>2. columns \subseteq Columns
  BY MigrationsType
<1>3. rows \in [Ids -> Row \cup {NoRow}]
  BY DEF Row, OldRow
<1>4. IsFiniteSet(appended)
  BY FS_EmptySet
<1> QED BY <1>1, <1>2, <1>3, <1>4 DEF TypeInv, TypeOK

LEMMA NextEvent ==
  ASSUME TypeInv, NEW s \in Sessions, AppendEvent(s), run[s] \in Ids
  PROVE  \E e \in Event :
           /\ e.run = run[s] /\ e.at = clock /\ e.no = Cardinality(appended)
           /\ events' = Stored(e) /\ appended' = appended \cup {e}
<1>1. Cardinality(appended) \in Nat
  BY FS_CardinalityType DEF TypeInv
<1>2. [run |-> run[s], at |-> clock, no |-> Cardinality(appended)] \in Event
  BY <1>1 DEF TypeInv, TypeOK, Event
<1> QED BY <1>2 DEF AppendEvent

(* The sessions that write have their run. *)
WriterInv == \A s \in Sessions : pc[s] \in {"created", "running"} => run[s] \in Ids

LEMMA TypeStep == TypeInv /\ WriterInv /\ [Next]_vars => TypeInv'
<1> SUFFICES ASSUME TypeInv, WriterInv, [Next]_vars PROVE TypeInv'
  OBVIOUS
<1> USE DEF TypeInv, TypeOK, Opening, Admitted, Gone, file
<1>1. CASE UNCHANGED vars
  BY <1>1 DEF vars
<1>2. CASE Tick
  BY <1>2 DEF Tick
<1>3. ASSUME NEW s \in Sessions, Open(s) \/ ReadColumns(s) \/ Skip(s) \/ Admit(s)
      PROVE  TypeInv'
  <2>1. CASE Open(s)
    BY <2>1 DEF Open
  <2>2. CASE ReadColumns(s)
    BY <2>2 DEF ReadColumns
  <2>3. CASE Skip(s)
    BY <2>3 DEF Skip
  <2>4. CASE Admit(s)
    BY <2>4 DEF Admit
  <2> QED BY <1>3, <2>1, <2>2, <2>3, <2>4
<1>4. ASSUME NEW s \in Sessions, Create(s) PROVE TypeInv'
  <2>1. CASE at[s] \in 1..3
    BY <1>4, <2>1, SchemaType DEF Create
  <2>2. CASE at[s] > 3
    BY <1>4, <2>2, SchemaType DEF Create
  <2> QED BY <2>1, <2>2
<1>5. ASSUME NEW s \in Sessions, Alter(s) PROVE TypeInv'
  <2>1. Migrations[at[s]] \in Columns
    BY <1>5, MigrationsType DEF Alter
  <2> QED BY <1>5, <2>1 DEF Alter
<1>6. ASSUME NEW s \in Sessions, NEW i \in Ids, CreateRun(s, i) PROVE TypeInv'
  BY <1>6 DEF CreateRun, Row
<1>7. ASSUME NEW s \in Sessions, UpdateRun(s) PROVE TypeInv'
  <2>1. run[s] \in Ids
    BY <1>7 DEF UpdateRun, WriterInv
  <2> QED BY <1>7, <2>1 DEF UpdateRun, Row
<1>8. ASSUME NEW s \in Sessions, AppendEvent(s) PROVE TypeInv'
  <2>1. run[s] \in Ids
    BY <1>8 DEF AppendEvent, WriterInv
  <2>2. PICK e \in Event : events' = Stored(e) /\ appended' = appended \cup {e}
    BY <1>8, <2>1, NextEvent
  <2>3. IsFiniteSet(appended')
    BY <2>2, FS_AddElement
  <2>4. events' \subseteq Event /\ appended' \subseteq Event
    BY <2>2 DEF Stored
  <2> QED BY <1>8, <2>3, <2>4 DEF AppendEvent
<1>9. ASSUME NEW s \in Sessions, Refuse(s) \/ Kill(s) PROVE TypeInv'
  BY <1>9 DEF Refuse, Kill
<1> QED BY <1>1, <1>2, <1>3, <1>4, <1>5, <1>6, <1>7, <1>8, <1>9 DEF Next

-----------------------------------------------------------------------------
(* The schema *)

(* What New has brought about by the statement it is about to run. *)
SchemaOf(s) ==
  /\ pc[s] = "schema" => at[s] \in 1..3 /\ \A k \in 1..(at[s] - 1) : Schema[k] \in objects
  /\ pc[s] \in {"closed", "columns"} => at[s] = 1
  /\ pc[s] \in {"columns", "migrate", "refused"} \cup Admitted => objects = Objects
  /\ pc[s] = "migrate" =>
       /\ at[s] \in 1..7
       /\ seen[s] \subseteq columns
       /\ \A k \in 1..(at[s] - 1) : Migrations[k] \in columns
  /\ pc[s] \in Admitted => columns = Columns

SchemaInv == \A s \in Sessions : SchemaOf(s)

LEMMA InitSchema == Init => SchemaInv
BY DEF Init, SchemaInv, SchemaOf, Admitted

(* The file only grows. *)
LEMMA FileGrows ==
  ASSUME TypeInv, SchemaInv, [Next]_vars
  PROVE  objects \subseteq objects' /\ columns \subseteq columns'
<1> USE DEF TypeInv, TypeOK, file
<1>1. CASE UNCHANGED vars \/ Tick
  BY <1>1 DEF vars, Tick
<1>2. ASSUME NEW s \in Sessions, Create(s)
      PROVE  objects \subseteq objects' /\ columns \subseteq columns'
  BY <1>2 DEF Create
<1>3. ASSUME NEW s \in Sessions, Alter(s)
      PROVE  objects \subseteq objects' /\ columns \subseteq columns'
  BY <1>3 DEF Alter
<1>4. ASSUME NEW s \in Sessions,
             \/ Open(s) \/ ReadColumns(s) \/ Skip(s) \/ Admit(s)
             \/ \E i \in Ids : CreateRun(s, i)
             \/ UpdateRun(s) \/ AppendEvent(s) \/ Refuse(s) \/ Kill(s)
      PROVE  objects' = objects /\ columns' = columns
  BY <1>4 DEF Open, ReadColumns, Skip, Admit, CreateRun, UpdateRun, AppendEvent, Refuse, Kill
<1> QED BY <1>1, <1>2, <1>3, <1>4 DEF Next

(* A session that a step does not move keeps what it knows of the file. *)
LEMMA OthersKeepSchema ==
  ASSUME TypeInv, TypeInv', SchemaInv, [Next]_vars, NEW t \in Sessions,
         pc'[t] = pc[t], at'[t] = at[t], seen'[t] = seen[t]
  PROVE  SchemaOf(t)'
<1>1. objects \subseteq objects' /\ columns \subseteq columns'
  BY FileGrows
<1>2. objects' \subseteq Objects /\ columns' \subseteq Columns
  BY DEF TypeInv, TypeOK
<1>3. SchemaOf(t)
  BY DEF SchemaInv
<1> QED BY <1>1, <1>2, <1>3 DEF SchemaOf

LEMMA SchemaStep == TypeInv /\ TypeInv' /\ SchemaInv /\ [Next]_vars => SchemaInv'
<1> SUFFICES ASSUME TypeInv, TypeInv', SchemaInv, [Next]_vars PROVE SchemaInv'
  OBVIOUS
<1> USE DEF Admitted
<1>1. pc \in [Sessions -> {"closed"} \cup Opening \cup Admitted \cup Gone]
      /\ at \in [Sessions -> Nat \ {0}] /\ seen \in [Sessions -> SUBSET Columns]
      /\ objects \subseteq Objects /\ columns \subseteq Columns
  BY DEF TypeInv, TypeOK
<1>2. ASSUME NEW s \in Sessions, NEW t \in Sessions, t # s,
             \/ Open(s) \/ Create(s) \/ ReadColumns(s) \/ Skip(s) \/ Alter(s) \/ Admit(s)
             \/ \E i \in Ids : CreateRun(s, i)
             \/ UpdateRun(s) \/ AppendEvent(s) \/ Refuse(s) \/ Kill(s)
      PROVE  SchemaOf(t)'
  <2>1. pc'[t] = pc[t] /\ at'[t] = at[t] /\ seen'[t] = seen[t]
    BY <1>1, <1>2 DEF Open, Create, ReadColumns, Skip, Alter, Admit, CreateRun, UpdateRun,
                      AppendEvent, Refuse, Kill
  <2> QED BY <2>1, OthersKeepSchema
<1>3. CASE UNCHANGED vars \/ Tick
  <2> SUFFICES ASSUME NEW t \in Sessions PROVE SchemaOf(t)'
    BY DEF SchemaInv
  <2> QED BY <1>3, OthersKeepSchema DEF vars, Tick
<1>4. ASSUME NEW s \in Sessions, SchemaOf(s) PROVE
        \/ Open(s) \/ Create(s) \/ ReadColumns(s) \/ Skip(s) \/ Alter(s) \/ Admit(s)
        \/ \E i \in Ids : CreateRun(s, i)
        \/ UpdateRun(s) \/ AppendEvent(s) \/ Refuse(s) \/ Kill(s)
        => SchemaOf(s)'
  <2>1. Open(s) => SchemaOf(s)'
    BY <1>1, <1>4 DEF Open, SchemaOf
  <2>2. ASSUME Create(s) PROVE SchemaOf(s)'
    <3>1. at[s] \in 1..3 /\ \A k \in 1..(at[s] - 1) : Schema[k] \in objects
      BY <1>4, <2>2 DEF Create, SchemaOf
    <3>2. objects' = objects \cup {Schema[at[s]]} /\ objects' \subseteq Objects
      BY <1>1, <2>2, <3>1, SchemaType DEF Create
    <3>3. \A k \in 1..at[s] : Schema[k] \in objects'
      BY <3>1, <3>2
    <3>4. at[s] = 3 => objects' = Objects
      BY <3>2, <3>3, SchemaType
    <3>5. CASE at[s] < 3
      <4>1. at'[s] = at[s] + 1 /\ pc'[s] = "schema"
        BY <1>1, <2>2, <3>5, SchemaType DEF Create
      <4> QED BY <3>1, <3>3, <3>5, <4>1 DEF SchemaOf
    <3>6. CASE at[s] = 3
      <4>1. at'[s] = 1 /\ pc'[s] = "columns"
        BY <1>1, <2>2, <3>6, SchemaType DEF Create
      <4> QED BY <3>4, <3>6, <4>1 DEF SchemaOf
    <3> QED BY <3>1, <3>5, <3>6
  <2>3. ReadColumns(s) => SchemaOf(s)'
    BY <1>1, <1>4 DEF ReadColumns, SchemaOf, file
  <2>4. ASSUME Skip(s) PROVE SchemaOf(s)'
    <3>1. at[s] \in 1..6 /\ Migrations[at[s]] \in columns
      BY <1>4, <2>4, MigrationsType DEF Skip, Skips, SchemaOf
    <3>2. at'[s] = at[s] + 1 /\ pc'[s] = "migrate" /\ UNCHANGED <<objects, columns, seen>>
      BY <1>1, <2>4 DEF Skip, file
    <3> QED BY <1>4, <2>4, <3>1, <3>2 DEF Skip, SchemaOf
  <2>5. ASSUME Alter(s) PROVE SchemaOf(s)'
    <3>1. at[s] \in 1..6
      BY <1>4, <2>5, MigrationsType DEF Alter, SchemaOf
    <3>2. CASE Migrations[at[s]] \notin columns
      <4>1. /\ columns' = columns \cup {Migrations[at[s]]}
            /\ at'[s] = at[s] + 1 /\ pc'[s] = "migrate" /\ UNCHANGED <<objects, seen>>
        BY <1>1, <2>5, <3>2 DEF Alter
      <4> QED BY <1>4, <2>5, <3>1, <4>1 DEF Alter, SchemaOf
    <3>3. CASE Migrations[at[s]] \in columns
      <4>1. pc'[s] = "rejected"
        BY <1>1, <2>5, <3>3 DEF Alter
      <4> QED BY <4>1 DEF SchemaOf
    <3> QED BY <3>2, <3>3
  <2>6. ASSUME Admit(s) PROVE SchemaOf(s)'
    <3>1. at[s] = 7
      BY <1>4, <2>6, MigrationsType DEF Admit, SchemaOf
    <3>2. \A k \in 1..6 : Migrations[k] \in columns
      BY <1>4, <2>6, <3>1 DEF Admit, SchemaOf
    <3>3. Columns \subseteq columns
      BY <3>2, MigrationsType
    <3>4. columns = Columns
      BY <1>1, <3>3
    <3> QED BY <1>1, <1>4, <2>6, <3>4 DEF Admit, SchemaOf, file
  <2>7. ASSUME NEW i \in Ids, CreateRun(s, i) PROVE SchemaOf(s)'
    BY <1>1, <1>4, <2>7 DEF CreateRun, SchemaOf
  <2>8. UpdateRun(s) => SchemaOf(s)'
    BY <1>1, <1>4 DEF UpdateRun, SchemaOf
  <2>9. AppendEvent(s) => SchemaOf(s)'
    BY <1>1, <1>4 DEF AppendEvent, SchemaOf
  <2>10. Refuse(s) => SchemaOf(s)'
    BY <1>1, <1>4 DEF Refuse, SchemaOf, file, Opening
  <2>11. Kill(s) => SchemaOf(s)'
    BY <1>1, <1>4 DEF Kill, SchemaOf, file
  <2> QED
    BY <2>1, <2>2, <2>3, <2>4, <2>5, <2>6, <2>7, <2>8, <2>9, <2>10, <2>11
<1> QED BY <1>2, <1>3, <1>4 DEF Next, SchemaInv

(* The columns are added in the order of Migrations, whoever adds them. *)
PrefixInv ==
  \A k, m \in 1..6 : k < m /\ Migrations[m] \in columns => Migrations[k] \in columns

LEMMA InitPrefix == Init => PrefixInv
<1> SUFFICES ASSUME Init, NEW k \in 1..6, NEW m \in 1..6, k < m, Migrations[m] \in columns
             PROVE  Migrations[k] \in columns
  BY DEF PrefixInv
<1>1. columns = {} \/ \E n \in 0..6 : columns = {Migrations[j] : j \in 1..n}
  BY MigrationsType DEF Init
<1>2. PICK n \in 0..6 : columns = {Migrations[j] : j \in 1..n}
  BY <1>1
<1>3. PICK j \in 1..n : Migrations[m] = Migrations[j]
  BY <1>2
<1>4. m = j
  BY <1>3, MigrationsType
<1> QED BY <1>2, <1>4

LEMMA PrefixStep == TypeInv /\ SchemaInv /\ PrefixInv /\ [Next]_vars => PrefixInv'
<1> SUFFICES ASSUME TypeInv, SchemaInv, PrefixInv, [Next]_vars PROVE PrefixInv'
  OBVIOUS
<1>1. CASE columns' = columns
  BY <1>1 DEF PrefixInv
<1>2. CASE columns' = Columns
  BY <1>2, MigrationsType DEF PrefixInv
<1>3. ASSUME NEW s \in Sessions, Alter(s), columns' = columns \cup {Migrations[at[s]]}
      PROVE  PrefixInv'
  <2>1. at[s] \in 1..6 /\ \A k \in 1..(at[s] - 1) : Migrations[k] \in columns
    BY <1>3, MigrationsType DEF Alter, SchemaInv, SchemaOf
  <2> SUFFICES ASSUME NEW k \in 1..6, NEW m \in 1..6, k < m, Migrations[m] \in columns'
               PROVE  Migrations[k] \in columns'
    BY DEF PrefixInv
  <2>2. CASE Migrations[m] \in columns
    BY <1>3, <2>2 DEF PrefixInv
  <2>3. CASE Migrations[m] = Migrations[at[s]]
    <3>1. m = at[s]
      BY <2>1, <2>3, MigrationsType
    <3> QED BY <1>3, <2>1, <3>1
  <2> QED BY <1>3, <2>2, <2>3
<1>4. ASSUME NEW s \in Sessions, Create(s) PROVE columns' = Columns \/ columns' = columns
  BY <1>4 DEF Create
<1>5. ASSUME NEW s \in Sessions, Alter(s)
      PROVE  columns' = columns \cup {Migrations[at[s]]} \/ columns' = columns
  BY <1>5 DEF Alter
<1>6. ASSUME NEW s \in Sessions,
             \/ Open(s) \/ ReadColumns(s) \/ Skip(s) \/ Admit(s)
             \/ \E i \in Ids : CreateRun(s, i)
             \/ UpdateRun(s) \/ AppendEvent(s) \/ Refuse(s) \/ Kill(s)
      PROVE  columns' = columns
  BY <1>6 DEF Open, ReadColumns, Skip, Admit, CreateRun, UpdateRun, AppendEvent, Refuse, Kill, file
<1>7. UNCHANGED vars \/ Tick => columns' = columns
  BY DEF vars, Tick, file
<1> QED BY <1>1, <1>2, <1>3, <1>4, <1>5, <1>6, <1>7 DEF Next

-----------------------------------------------------------------------------
(* The race of the migrations *)

(* A session that no other can make fail any more: none of the columns it  *)
(* has yet to come to was added behind its back.                           *)
Unbeaten(t) ==
  \/ pc[t] \in Admitted \cup {"refused"}
  \/ /\ pc[t] = "migrate"
     /\ \A k \in 1..6 : k >= at[t] /\ Migrations[k] \in columns => Migrations[k] \in seen[t]

(* Behind the back of a session, or to its end. *)
Beaten(s) == pc[s] = "rejected" \/ (pc[s] = "migrate" /\ ~(columns \subseteq seen[s]))

RaceInv == faults = 0 /\ (\E s \in Sessions : Beaten(s)) => \E t \in Sessions : Unbeaten(t)

LEMMA InitRace == Init => RaceInv
BY DEF Init, RaceInv, Beaten

LEMMA RaceStep ==
  TypeInv /\ SchemaInv /\ PrefixInv /\ RaceInv /\ [Next]_vars => RaceInv'
<1> SUFFICES ASSUME TypeInv, SchemaInv, PrefixInv, RaceInv, [Next]_vars,
                    faults' = 0, NEW s \in Sessions, Beaten(s)'
             PROVE  (\E t \in Sessions : Unbeaten(t))'
  BY DEF RaceInv
<1>1. pc \in [Sessions -> {"closed"} \cup Opening \cup Admitted \cup Gone]
      /\ at \in [Sessions -> Nat \ {0}] /\ seen \in [Sessions -> SUBSET Columns]
      /\ columns \subseteq Columns /\ faults \in Nat
  BY DEF TypeInv, TypeOK
<1>2. CASE UNCHANGED vars \/ Tick
  <2>1. faults = 0 /\ Beaten(s)
    BY <1>2 DEF vars, Tick, file, Beaten
  <2>2. PICK t \in Sessions : Unbeaten(t)
    BY <2>1 DEF RaceInv
  <2>3. Unbeaten(t)'
    BY <1>2, <2>2 DEF vars, Tick, file, Unbeaten
  <2> QED BY <2>3
<1>3. ASSUME NEW u \in Sessions,
             \/ Open(u) \/ ReadColumns(u) \/ Skip(u) \/ Admit(u)
             \/ \E i \in Ids : CreateRun(u, i)
             \/ UpdateRun(u) \/ AppendEvent(u)
             \/ (Create(u) /\ columns' = columns)
             \/ (Alter(u) /\ Migrations[at[u]] \in columns)
      PROVE  (\E t \in Sessions : Unbeaten(t))'
  <2>1. faults = 0 /\ columns' = columns
    BY <1>3 DEF Open, Create, ReadColumns, Skip, Alter, Admit, CreateRun, UpdateRun,
                AppendEvent, file
  <2>2. ASSUME NEW t \in Sessions, t # u
        PROVE  pc'[t] = pc[t] /\ at'[t] = at[t] /\ seen'[t] = seen[t]
    BY <1>1, <1>3, <2>2 DEF Open, Create, ReadColumns, Skip, Alter, Admit, CreateRun,
                            UpdateRun, AppendEvent
  <2>3. CASE Alter(u) /\ Migrations[at[u]] \in columns
    <3>1. at[u] \in 1..6 /\ pc[u] = "migrate" /\ Migrations[at[u]] \notin seen[u]
      BY <2>3, MigrationsType DEF Alter, Skips, SchemaInv, SchemaOf
    <3>2. Beaten(u) /\ ~Unbeaten(u)
      BY <2>3, <3>1 DEF Beaten, Unbeaten, Admitted
    <3>3. PICK t \in Sessions : Unbeaten(t)
      BY <2>1, <3>2 DEF RaceInv
    <3>4. Unbeaten(t)'
      BY <2>1, <2>2, <3>2, <3>3 DEF Unbeaten
    <3> QED BY <3>4
  <2>4. CASE ~(Alter(u) /\ Migrations[at[u]] \in columns)
    <3>1. Beaten(u)' => Beaten(u)
      <4>1. CASE ReadColumns(u)
        BY <1>1, <2>1, <4>1 DEF ReadColumns, Beaten
      <4>2. CASE Skip(u)
        BY <1>1, <2>1, <4>2 DEF Skip, Beaten
      <4>3. CASE pc'[u] \in Admitted \cup {"refused", "schema", "columns"}
        BY <4>3 DEF Beaten, Admitted
      <4>4. Open(u) \/ Create(u) \/ Admit(u) \/ (\E i \in Ids : CreateRun(u, i))
            \/ UpdateRun(u) \/ AppendEvent(u)
            => pc'[u] \in Admitted \cup {"refused", "schema", "columns"}
        BY <1>1 DEF Open, Create, Admit, CreateRun, UpdateRun, AppendEvent, Admitted
      <4> QED BY <1>3, <2>4, <4>1, <4>2, <4>3, <4>4
    <3>2. Beaten(s)
      BY <2>1, <2>2, <3>1 DEF Beaten
    <3>3. PICK t \in Sessions : Unbeaten(t)
      BY <2>1, <3>2 DEF RaceInv
    <3>4. Unbeaten(u) => Unbeaten(u)'
      <4>1. CASE Skip(u)
        <5>1. pc'[u] = pc[u] /\ seen' = seen /\ at'[u] = at[u] + 1
          BY <1>1, <4>1 DEF Skip
        <5>2. at[u] \in Nat
          BY <1>1
        <5> QED BY <2>1, <5>1, <5>2 DEF Unbeaten
      <4>2. CASE pc'[u] \in Admitted \cup {"refused"}
        BY <4>2 DEF Unbeaten
      <4>3. Admit(u) \/ (\E i \in Ids : CreateRun(u, i)) \/ UpdateRun(u) \/ AppendEvent(u)
            => pc'[u] \in Admitted \cup {"refused"}
        BY <1>1 DEF Admit, CreateRun, UpdateRun, AppendEvent, Admitted
      <4>4. Open(u) \/ Create(u) \/ ReadColumns(u) => ~Unbeaten(u)
        BY DEF Open, Create, ReadColumns, Unbeaten, Admitted
      <4> QED BY <1>3, <2>4, <4>1, <4>2, <4>3, <4>4
    <3>5. Unbeaten(t)'
      <4>1. CASE t = u
        BY <3>3, <3>4, <4>1
      <4>2. CASE t # u
        BY <2>1, <2>2, <3>3, <4>2 DEF Unbeaten
      <4> QED BY <4>1, <4>2
    <3> QED BY <3>5
  <2> QED BY <1>3, <2>3, <2>4
<1>4. ASSUME NEW u \in Sessions, Alter(u), Migrations[at[u]] \notin columns
      PROVE  (\E t \in Sessions : Unbeaten(t))'
  <2>1. at[u] \in 1..6
    BY <1>4, MigrationsType DEF Alter, SchemaInv, SchemaOf
  <2>2. /\ columns' = columns \cup {Migrations[at[u]]}
        /\ at'[u] = at[u] + 1 /\ pc'[u] = "migrate" /\ seen' = seen
    BY <1>1, <1>4 DEF Alter
  <2>3. ASSUME NEW k \in 1..6, k >= at[u] + 1 PROVE Migrations[k] \notin columns'
    <3>1. Migrations[k] # Migrations[at[u]]
      BY <2>1, <2>3, MigrationsType
    <3>2. Migrations[k] \notin columns
      BY <1>4, <2>1, <2>3 DEF PrefixInv
    <3> QED BY <2>2, <3>1, <3>2
  <2>4. Unbeaten(u)'
    BY <2>2, <2>3 DEF Unbeaten
  <2> QED BY <2>4
<1>5. ASSUME NEW u \in Sessions, Create(u), columns' # columns
      PROVE  FALSE
  <2>1. "runs" \notin objects /\ faults = 0 /\ "runs" \in Objects
    BY <1>5, SchemaType DEF Create
  <2>2. \A t \in Sessions : ~Unbeaten(t) /\ pc[t] # "migrate"
    BY <2>1 DEF Unbeaten, SchemaInv, SchemaOf
  <2>3. ~Beaten(s) /\ pc[s] # "rejected"
    BY <2>1, <2>2 DEF RaceInv, Beaten
  <2>4. pc'[s] \notin {"rejected", "migrate"}
    BY <1>1, <1>5, <2>2, <2>3 DEF Create
  <2> QED BY <2>4 DEF Beaten
<1>6. ASSUME NEW u \in Sessions, Refuse(u) \/ Kill(u) PROVE FALSE
  BY <1>1, <1>6 DEF Refuse, Kill
<1> QED BY <1>2, <1>3, <1>4, <1>5, <1>6 DEF Next

-----------------------------------------------------------------------------
(* Runs *)

HolderInv == HolderOwnsRow /\ WriterInv

LEMMA InitHolder == Init => HolderInv
BY DEF Init, HolderInv, HolderOwnsRow, WriterInv

LEMMA HolderStep == TypeInv /\ HolderInv /\ [Next]_vars => HolderInv'
<1> SUFFICES ASSUME TypeInv, HolderInv, [Next]_vars PROVE HolderInv'
  OBVIOUS
<1>1. pc \in [Sessions -> {"closed"} \cup Opening \cup Admitted \cup Gone]
      /\ run \in [Sessions -> Ids \cup {NoOne}]
      /\ rows \in [Ids -> Row \cup {NoRow}]
  BY DEF TypeInv, TypeOK
<1> USE DEF HolderInv, HolderOwnsRow, WriterInv
<1>2. CASE UNCHANGED vars \/ Tick
  BY <1>2 DEF vars, Tick, file
<1>3. ASSUME NEW s \in Sessions, rows' = rows, run' = run,
             \A t \in Sessions : t # s => pc'[t] = pc[t],
             pc'[s] = pc[s] \/ pc'[s] \notin {"created", "running"}
      PROVE  HolderInv'
  BY <1>3
<1>4. ASSUME NEW s \in Sessions,
             \/ Open(s) \/ Create(s) \/ ReadColumns(s) \/ Skip(s) \/ Alter(s) \/ Admit(s)
             \/ AppendEvent(s) \/ Refuse(s) \/ Kill(s)
      PROVE  HolderInv'
  <2>1. rows' = rows /\ run' = run /\ (\A t \in Sessions : t # s => pc'[t] = pc[t])
    BY <1>1, <1>4 DEF Open, Create, ReadColumns, Skip, Alter, Admit, AppendEvent, Refuse, Kill,
                      file
  <2>2. pc'[s] = pc[s] \/ pc'[s] \notin {"created", "running"}
    BY <1>1, <1>4 DEF Open, Create, ReadColumns, Skip, Alter, Admit, AppendEvent, Refuse, Kill
  <2> QED BY <1>3, <2>1, <2>2
<1>5. ASSUME NEW s \in Sessions, NEW i \in Ids, CreateRun(s, i) PROVE HolderInv'
  <2>1. CASE rows[i] # NoRow
    <3>1. rows' = rows /\ run' = run /\ pc' = [pc EXCEPT ![s] = "refused"]
      BY <1>5, <2>1 DEF CreateRun
    <3> QED BY <1>1, <1>3, <3>1
  <2>2. CASE rows[i] = NoRow
    <3>1. /\ rows' = [rows EXCEPT ![i] = [owner |-> s, stage |-> 1]]
          /\ run' = [run EXCEPT ![s] = i] /\ pc' = [pc EXCEPT ![s] = "created"]
      BY <1>5, <2>2 DEF CreateRun
    <3>2. \A t \in Sessions : run[t] # i
      BY <2>2 DEF NoRow
    <3>3. ASSUME NEW t \in Sessions, t # s, run[t] # NoOne
          PROVE  run'[t] = run[t] /\ pc'[t] = pc[t] /\ rows'[run[t]] = rows[run[t]]
      BY <1>1, <3>1, <3>2, <3>3
    <3>4. run'[s] = i /\ pc'[s] = "created" /\ rows'[i] = [owner |-> s, stage |-> 1]
      BY <1>1, <3>1
    <3>5. \A t \in Sessions : t # s => run'[t] = run[t] /\ pc'[t] = pc[t]
      BY <1>1, <3>1
    <3>6. HolderOwnsRow'
      <4> SUFFICES ASSUME NEW t \in Sessions, run'[t] # NoOne
                   PROVE  /\ rows'[run'[t]].owner = t
                          /\ pc'[t] = "created" => rows'[run'[t]].stage = 1
                          /\ pc'[t] = "running" => rows'[run'[t]].stage = 2
        OBVIOUS
      <4>1. CASE t = s
        BY <3>4, <4>1
      <4>2. CASE t # s
        BY <3>3, <3>5, <4>2
      <4> QED BY <4>1, <4>2
    <3>7. WriterInv'
      BY <3>4, <3>5
    <3> QED BY <3>6, <3>7
  <2> QED BY <2>1, <2>2
<1>6. ASSUME NEW s \in Sessions, UpdateRun(s) PROVE HolderInv'
  <2>1. run[s] \in Ids /\ rows[run[s]].owner = s /\ run' = run
    BY <1>6 DEF UpdateRun
  <2>2. rows'[run[s]] = [owner |-> s, stage |-> IF pc[s] = "created" THEN 2 ELSE 3]
    BY <1>1, <1>6, <2>1 DEF UpdateRun
  <2>3. pc'[s] = IF pc[s] = "created" THEN "running" ELSE "finished"
    BY <1>1, <1>6 DEF UpdateRun
  <2>4. ASSUME NEW t \in Sessions, t # s, run[t] # NoOne
        PROVE  pc'[t] = pc[t] /\ rows'[run[t]] = rows[run[t]]
    <3>1. run[t] # run[s]
      BY <2>1, <2>4
    <3> QED BY <1>1, <1>6, <2>1, <2>4, <3>1 DEF UpdateRun
  <2>5. \A t \in Sessions : t # s => pc'[t] = pc[t]
    BY <1>1, <1>6 DEF UpdateRun
  <2>6. HolderOwnsRow'
    <3> SUFFICES ASSUME NEW t \in Sessions, run'[t] # NoOne
                 PROVE  /\ rows'[run'[t]].owner = t
                        /\ pc'[t] = "created" => rows'[run'[t]].stage = 1
                        /\ pc'[t] = "running" => rows'[run'[t]].stage = 2
      OBVIOUS
    <3>1. CASE t = s
      BY <2>1, <2>2, <2>3, <3>1
    <3>2. CASE t # s
      BY <2>1, <2>4, <3>2
    <3> QED BY <3>1, <3>2
  <2>7. WriterInv'
    BY <2>1, <2>5
  <2> QED BY <2>6, <2>7
<1> QED BY <1>2, <1>4, <1>5, <1>6 DEF Next

-----------------------------------------------------------------------------
(* Events *)

EventInv ==
  /\ events \subseteq appended
  /\ \A e \in appended : e.no < Cardinality(appended)
  /\ LostEventsShareTime

LEMMA InitEvent == Init => EventInv
BY DEF Init, EventInv, LostEventsShareTime

LEMMA EventStep == TypeInv /\ WriterInv /\ EventInv /\ [Next]_vars => EventInv'
<1> SUFFICES ASSUME TypeInv, WriterInv, EventInv, [Next]_vars PROVE EventInv'
  OBVIOUS
<1>1. CASE UNCHANGED <<events, appended>>
  BY <1>1 DEF EventInv, LostEventsShareTime
<1>2. ASSUME NEW s \in Sessions, AppendEvent(s) PROVE EventInv'
  <2>1. run[s] \in Ids
    BY <1>2 DEF AppendEvent, WriterInv
  <2>2. PICK e \in Event :
          /\ e.run = run[s] /\ e.at = clock /\ e.no = Cardinality(appended)
          /\ events' = Stored(e) /\ appended' = appended \cup {e}
    BY <1>2, <2>1, NextEvent
  <2>3. Cardinality(appended) \in Nat /\ (\A f \in appended : f.no \in Nat)
    BY FS_CardinalityType DEF TypeInv, TypeOK, Event
  <2>4. \A f \in appended : f.no < e.no
    BY <2>2 DEF EventInv
  <2>5. e \notin appended
    BY <2>3, <2>4
  <2>6. Cardinality(appended') = Cardinality(appended) + 1
    BY <2>2, <2>5, FS_AddElement DEF TypeInv
  <2>7. events' \subseteq appended'
    BY <2>2 DEF EventInv, Stored
  <2>8. \A f \in appended' : f.no < Cardinality(appended')
    BY <2>2, <2>3, <2>4, <2>6
  <2>9. ASSUME NEW f \in appended' \ events'
        PROVE  \E g \in events' : g.run = f.run /\ g.at = f.at /\ g.no > f.no
    <3>1. e \in events' /\ f \in appended
      BY <2>2, <2>9 DEF Stored
    <3>2. CASE f \in events
      <4>1. f.run = e.run /\ f.at = e.at
        BY <2>2, <2>9, <3>2 DEF Stored
      <4> QED BY <2>3, <2>4, <3>1, <4>1
    <3>3. CASE f \notin events
      <4>1. PICK g \in events : g.run = f.run /\ g.at = f.at /\ g.no > f.no
        BY <3>1, <3>3 DEF EventInv, LostEventsShareTime
      <4>2. CASE g \in events'
        BY <4>1, <4>2
      <4>3. CASE g \notin events'
        <5>1. g.run = e.run /\ g.at = e.at
          BY <2>2, <4>3 DEF Stored
        <5>2. g \in appended
          BY DEF EventInv
        <5>3. f.no < e.no
          BY <2>4, <3>1
        <5> QED BY <2>3, <3>1, <4>1, <5>1, <5>3
      <4> QED BY <4>2, <4>3
    <3> QED BY <3>2, <3>3
  <2> QED BY <2>7, <2>8, <2>9 DEF EventInv, LostEventsShareTime
<1>3. ASSUME NEW s \in Sessions,
             \/ Open(s) \/ Create(s) \/ ReadColumns(s) \/ Skip(s) \/ Alter(s) \/ Admit(s)
             \/ \E i \in Ids : CreateRun(s, i)
             \/ UpdateRun(s) \/ Refuse(s) \/ Kill(s)
      PROVE  UNCHANGED <<events, appended>>
  BY <1>3 DEF Open, Create, ReadColumns, Skip, Alter, Admit, CreateRun, UpdateRun, Refuse, Kill,
              file
<1>4. UNCHANGED vars \/ Tick => UNCHANGED <<events, appended>>
  BY DEF vars, Tick, file
<1> QED BY <1>1, <1>2, <1>3, <1>4 DEF Next

-----------------------------------------------------------------------------
(* Theorems *)

Inductive == TypeInv /\ SchemaInv /\ PrefixInv /\ RaceInv /\ HolderInv /\ EventInv

LEMMA InductiveInvariant == Spec => []Inductive
<1>1. Init => Inductive
  BY InitType, InitSchema, InitPrefix, InitRace, InitHolder, InitEvent DEF Inductive
<1>2. Inductive /\ [Next]_vars => Inductive'
  BY TypeStep, SchemaStep, PrefixStep, RaceStep, HolderStep, EventStep
  DEF Inductive, HolderInv
<1> QED BY <1>1, <1>2, PTL DEF Spec

(* Every reachable state is of the declared types. *)
THEOREM TypeCorrect == Spec => []TypeOK
<1>1. Inductive => TypeOK
  BY DEF Inductive, TypeInv
<1> QED BY <1>1, InductiveInvariant, PTL

(* A session that New admitted finds the tables and every column. *)
THEOREM MigrationIsComplete == Spec => []AdmittedFindsSchema
<1>1. Inductive => AdmittedFindsSchema
  BY DEF Inductive, SchemaInv, SchemaOf, AdmittedFindsSchema
<1> QED BY <1>1, InductiveInvariant, PTL

(* Sessions that migrate a file at the same time never all reject each     *)
(* other.                                                                  *)
THEOREM RaceHasWinner == Spec => []SomeoneIsAdmitted
<1>1. Inductive => SomeoneIsAdmitted
  BY DEF Inductive, RaceInv, Beaten, Unbeaten, SomeoneIsAdmitted, Opening
<1> QED BY <1>1, InductiveInvariant, PTL

(* UpdateRun finds the row of its own session, as it was left. *)
THEOREM WritersOwnTheirRuns == Spec => []HolderOwnsRow
<1>1. Inductive => HolderOwnsRow
  BY DEF Inductive, HolderInv
<1> QED BY <1>1, InductiveInvariant, PTL

(* An accepted event is lost only to a later one with its timestamp. *)
THEOREM EventsAreKept == Spec => []LostEventsShareTime
<1>1. Inductive => LostEventsShareTime
  BY DEF Inductive, EventInv
<1> QED BY <1>1, InductiveInvariant, PTL

KeepsRow(i) ==
  rows[i] # NoRow => rows'[i].owner = rows[i].owner /\ rows'[i].stage >= rows[i].stage

(* No record is removed, given away or taken back to an earlier write. *)
THEOREM RecordsOnlyAdvance == Spec => RowsAreKept
<1>1. ASSUME Inductive, [Next]_vars, NEW i \in Ids PROVE KeepsRow(i)
  <2>1. rows \in [Ids -> Row \cup {NoRow}] /\ HolderOwnsRow /\ WriterInv
    BY <1>1 DEF Inductive, TypeInv, TypeOK, HolderInv
  <2>2. rows[i].stage \in Nat
    BY <2>1 DEF Row, NoRow
  <2>3. CASE rows' = rows
    BY <2>2, <2>3 DEF KeepsRow
  <2>4. ASSUME NEW s \in Sessions, NEW k \in Ids, CreateRun(s, k) PROVE KeepsRow(i)
    <3>1. CASE rows[k] = NoRow
      <4>1. CASE i = k
        BY <3>1, <4>1 DEF KeepsRow
      <4>2. CASE i # k
        BY <2>1, <2>2, <2>4, <3>1, <4>2 DEF CreateRun, KeepsRow
      <4> QED BY <4>1, <4>2
    <3>2. CASE rows[k] # NoRow
      BY <2>2, <2>4, <3>2 DEF CreateRun, KeepsRow
    <3> QED BY <3>1, <3>2
  <2>5. ASSUME NEW s \in Sessions, UpdateRun(s) PROVE KeepsRow(i)
    <3>1. CASE i = run[s]
      <4>1. i # NoOne /\ rows[i].owner = s
        BY <2>1, <3>1 DEF HolderOwnsRow
      <4>2. rows'[i] = [owner |-> s, stage |-> IF pc[s] = "created" THEN 2 ELSE 3]
        BY <2>1, <2>5, <3>1 DEF UpdateRun
      <4>3. pc[s] = "created" \/ pc[s] = "running"
        BY <2>5 DEF UpdateRun
      <4>4. (pc[s] = "created" => rows[i].stage = 1) /\ (pc[s] = "running" => rows[i].stage = 2)
        BY <2>1, <3>1, <4>1 DEF HolderOwnsRow
      <4>5. CASE pc[s] = "created"
        BY <4>1, <4>2, <4>4, <4>5 DEF KeepsRow
      <4>6. CASE pc[s] = "running"
        BY <4>1, <4>2, <4>4, <4>6 DEF KeepsRow
      <4> QED BY <4>3, <4>5, <4>6
    <3>2. CASE i # run[s]
      BY <2>1, <2>2, <2>5, <3>2 DEF UpdateRun, KeepsRow
    <3> QED BY <3>1, <3>2
  <2>6. ASSUME NEW s \in Sessions,
               \/ Open(s) \/ Create(s) \/ ReadColumns(s) \/ Skip(s) \/ Alter(s) \/ Admit(s)
               \/ AppendEvent(s) \/ Refuse(s) \/ Kill(s)
        PROVE  rows' = rows
    BY <2>6 DEF Open, Create, ReadColumns, Skip, Alter, Admit, AppendEvent, Refuse, Kill, file
  <2>7. UNCHANGED vars \/ Tick => rows' = rows
    BY DEF vars, Tick, file
  <2> QED BY <1>1, <2>3, <2>4, <2>5, <2>6, <2>7 DEF Next
<1>2. Inductive /\ [Next]_vars
      => \A i \in Ids : rows[i] # NoRow =>
           rows'[i].owner = rows[i].owner /\ rows'[i].stage >= rows[i].stage
  BY <1>1 DEF KeepsRow
<1> QED BY <1>2, InductiveInvariant, PTL DEF Spec, RowsAreKept
=============================================================================
