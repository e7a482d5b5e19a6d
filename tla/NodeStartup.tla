---------------------------- MODULE NodeStartup -----------------------------
(***************************************************************************)
(* A node from its start to its use: the migrations and the seed of        *)
(* internal/db, and the counter newID of internal/service draws from.  The *)
(* database is a file and survives the process; the counter starts from    *)
(* the clock and does not.  Every Exec is a transaction of its own.        *)
(*                                                                         *)
(* An id is nodeID * 10_000_000_000 + counter; only the counter is kept.   *)
(* The tables hold rows of this node only, but the id of a device of this  *)
(* node is drawn by whichever process distributes it.                      *)
(***************************************************************************)
EXTENDS Naturals, FiniteSets

CONSTANTS
    Seed,         \* the rows of seed.json for the node: table and counter
    Starts,       \* values idCounter can start with (UnixMilli % 1_000_000_000)
    MaxStarts,    \* bound: starts of the process
    Elsewhere,    \* counters other processes draw for devices of this node
    MaxInserts    \* bound: ids drawn, here and elsewhere, once the node serves

Tables == {"INGENIEROS", "USUARIOS", "DISPOSITIVOS"}
Rows == [table : Tables, counter : Nat]

ASSUME SeedAssumption == Seed \subseteq Rows /\ IsFiniteSet(Seed)
\* seed.json has engineers for every node it has anything for.
ASSUME EngineersAssumption == Seed # {} => \E r \in Seed : r.table = "INGENIEROS"
ASSUME StartsAssumption == Starts \subseteq Nat /\ Elsewhere \subseteq Nat
ASSUME StartupBounds == MaxStarts \in Nat /\ MaxInserts \in Nat

VARIABLES
    version,    \* the row of _schema_version, 0 without one
    tables,     \* whether the tables of migration 1 exist
    column,     \* whether DISPOSITIVOS has ingeniero_id (migration 2)
    rows,       \* the rows of the tables
    pc,         \* where the process is
    current,    \* current of migrate
    left,       \* the rows Seed has yet to come to
    maxCounter, \* maxCounter of Seed
    idCounter,
    met,        \* history: the rows whose id newID of this process returned again
    foreign,    \* history: the devices whose id another process drew
    starts, inserts

fileVars == <<version, tables, column, rows>>
procRest == <<current, left, maxCounter, idCounter>>
drawVars == <<met, foreign, inserts>>
startupVars == <<fileVars, pc, procRest, drawVars, starts>>

StartupInit ==
    /\ version = 0 /\ tables = FALSE /\ column = FALSE /\ rows = {}
    /\ pc = "down" /\ current = 0 /\ left = {} /\ maxCounter = 0 /\ idCounter = 0
    /\ met = {} /\ foreign = {}
    /\ starts = 0 /\ inserts = 0

MaxOf(S) == CHOOSE k \in S : \A j \in S : j <= k

RowsOf(t) == {r \in rows : r.table = t}

-----------------------------------------------------------------------------
\* Version returns 0 for any error of its query, not only without a table.
Start(c) ==
    /\ pc = "down"
    /\ starts < MaxStarts
    /\ starts' = starts + 1
    /\ pc' = "migrate"
    /\ current' \in {version, 0}
    /\ left' = {}
    /\ maxCounter' = 0
    /\ idCounter' = c
    /\ met' = {}
    /\ UNCHANGED <<fileVars, foreign, inserts>>

ProcessStops ==
    /\ pc # "down"
    /\ pc' = "down"
    /\ UNCHANGED <<fileVars, procRest, drawVars, starts>>

-----------------------------------------------------------------------------
(* migrate                                                                 *)

\* CREATE TABLE IF NOT EXISTS, four times; it can be run again.
CreateTables ==
    /\ pc = "migrate" /\ current < 1
    /\ tables' = TRUE
    /\ pc' = "record1"
    /\ UNCHANGED <<version, column, rows, procRest, drawVars, starts>>

\* ALTER TABLE ADD COLUMN is an error when the column exists, and the process
\* ends with Fatalf.
AddColumn ==
    /\ pc = "migrate" /\ current = 1
    /\ \/ /\ ~column
          /\ column' = TRUE
          /\ pc' = "record2"
       \/ /\ column
          /\ pc' = "fatal"
          /\ UNCHANGED column
    /\ UNCHANGED <<version, tables, rows, procRest, drawVars, starts>>

\* Fault: the last version is recorded with the first migration.
RecordLastVersion(v) ==
    /\ pc = IF v = 1 THEN "record1" ELSE "record2"
    /\ version' = 2 /\ current' = v
    /\ pc' = "migrate"
    /\ UNCHANGED <<tables, column, rows, left, maxCounter, idCounter, drawVars, starts>>

\* INSERT INTO _schema_version when current is 0, where a row that is there
\* already stays the first, or UPDATE of all its rows.
RecordVersion(v) ==
    /\ pc = IF v = 1 THEN "record1" ELSE "record2"
    /\ version' = IF current = 0 /\ version # 0 THEN version ELSE v
    /\ current' = v
    /\ pc' = "migrate"
    /\ UNCHANGED <<tables, column, rows, left, maxCounter, idCounter, drawVars, starts>>

Migrated ==
    /\ pc = "migrate" /\ current = 2
    /\ pc' = "count"
    /\ UNCHANGED <<fileVars, procRest, drawVars, starts>>

-----------------------------------------------------------------------------
(* Seed                                                                    *)

\* Nothing is seeded, and the counter is not raised, if INGENIEROS has a row.
CountIngenieros ==
    /\ pc = "count"
    /\ \/ /\ RowsOf("INGENIEROS") # {}
          /\ pc' = "serve"
          /\ UNCHANGED left
       \/ /\ RowsOf("INGENIEROS") = {}
          /\ pc' = "seed"
          /\ left' = Seed
    /\ UNCHANGED <<fileVars, current, maxCounter, idCounter, drawVars, starts>>

\* Engineers first, then users, then devices; INSERT OR IGNORE, and the counter
\* of a row that was there is taken into account all the same.
SeedRow(r) ==
    /\ pc = "seed"
    /\ r \in left
    /\ \A s \in left :
        \/ r.table = "INGENIEROS"
        \/ s.table = r.table
        \/ r.table = "USUARIOS" /\ s.table = "DISPOSITIVOS"
    /\ rows' = rows \cup {r}
    /\ left' = left \ {r}
    /\ maxCounter' = MaxOf({maxCounter, r.counter})
    /\ UNCHANGED <<version, tables, column, pc, current, idCounter, drawVars, starts>>

\* Fault: main does not raise the counter.
SeededForgets ==
    /\ pc = "seed"
    /\ left = {}
    /\ pc' = "serve"
    /\ UNCHANGED <<fileVars, procRest, drawVars, starts>>

\* Seed returns, and main raises the counter (SetMinIDCounter).
Seeded ==
    /\ pc = "seed"
    /\ left = {}
    /\ pc' = "serve"
    /\ idCounter' = MaxOf({idCounter, maxCounter})
    /\ UNCHANGED <<fileVars, current, left, maxCounter, drawVars, starts>>

-----------------------------------------------------------------------------
(* Use                                                                     *)

\* newID for a row of this node, and the INSERT OR IGNORE the commit handler
\* ends in: a row whose id exists is not written, and nobody is told.  No row is
\* written either when the proposal fails.
Insert(t) ==
    LET r == [table |-> t, counter |-> idCounter + 1]
    IN  /\ pc = "serve"
        /\ inserts < MaxInserts
        /\ inserts' = inserts + 1
        /\ idCounter' = idCounter + 1
        /\ met' = met \cup ({r} \cap rows)
        /\ rows' \in {rows, rows \cup {r}}
        /\ UNCHANGED <<version, tables, column, pc, current, left, maxCounter, foreign, starts>>

\* newID for a ticket or, at the master, for a device of another node.
DrawOther ==
    /\ pc = "serve"
    /\ inserts < MaxInserts
    /\ inserts' = inserts + 1
    /\ idCounter' = idCounter + 1
    /\ UNCHANGED <<fileVars, pc, current, left, maxCounter, met, foreign, starts>>

\* The COMMIT of a device of this node that the process of the master gave its
\* id, newID(chosen.SucursalID), from a counter of its own.
InsertForeign(k) ==
    LET r == [table |-> "DISPOSITIVOS", counter |-> k]
    IN  /\ pc = "serve"
        /\ inserts < MaxInserts
        /\ inserts' = inserts + 1
        /\ rows' = rows \cup {r}
        /\ foreign' = foreign \cup {r}
        /\ UNCHANGED <<version, tables, column, pc, procRest, met, starts>>

-----------------------------------------------------------------------------
StartupNext ==
    \/ \E c \in Starts : Start(c)
    \/ CreateTables
    \/ AddColumn
    \/ \E v \in {1, 2} : RecordVersion(v)
    \/ Migrated
    \/ CountIngenieros
    \/ \E r \in Seed : SeedRow(r)
    \/ Seeded
    \/ \E t \in Tables : Insert(t)
    \/ DrawOther
    \/ \E k \in Elsewhere : InsertForeign(k)
    \/ ProcessStops

StartupSpec == StartupInit /\ [][StartupNext]_startupVars

-----------------------------------------------------------------------------
(* Properties.                                                             *)

\* Whenever the process stops, the schema is at least what the recorded
\* version says, and a node that serves has all of it.
SchemaMatchesVersion ==
    /\ version >= 1 => tables
    /\ version >= 2 => column
    /\ pc \in {"seed", "serve"} => tables /\ column

\* "evita que newID genere IDs que ya existen en la base de datos"
\* (ticket_service.go:39): no row gets the id of another.
NoIdTwice == met = {}

\* The process that seeded the database draws no id of a row, whether Seed
\* wrote it, or it did itself, wherever earlier starts were cut short: its
\* counter was raised above every row of the seed.  Excepted are the devices
\* another process drew the id of, which this counter knows nothing of
\* (ticket_service.go:172).
SeederDrawsNewIds == maxCounter > 0 => met \subseteq foreign

\* "cada que nos conectemos a la base de datos, nosotros automaticamente
\* correremos las migraciones" (db.go:36-37), which TestMigrate_Idempotent
\* (db_test.go:41) runs twice: running them again is never an error.
MigrationsCanBeRepeated == pc # "fatal"
=============================================================================
