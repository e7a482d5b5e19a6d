----------------------------- MODULE NodeProofs ------------------------------
(***************************************************************************)
(* A node alone and among the others: proofs about its start               *)
(* (NodeStartup) and about the elections it takes part in (Election).      *)
(*                                                                         *)
(* Wherever a start is cut short, the schema is what the recorded version  *)
(* says, and the process that seeds the database draws no id twice, for    *)
(* any seed, any clock and any number of starts.  In the elections, for    *)
(* any number of nodes, crashes, restarts and wrong suspicions, no node    *)
(* stays in an election for ever.  Until a node comes back or is suspected *)
(* wrongly, a node that is not the lowest of those that are up announces   *)
(* itself only if a timer of its own cut short an election that was about  *)
(* to be answered; and after one death all come to rest on a master that   *)
(* is up, and on the lowest if no timer did so.                            *)
(***************************************************************************)
EXTENDS Election, NodeStartup, FiniteSetTheorems, TLAPS

-----------------------------------------------------------------------------
(* The types of a start.                                                   *)

Locations == {"down", "migrate", "record1", "record2", "fatal", "count", "seed", "serve"}

StartupTypeOK ==
    /\ version \in 0..2 /\ current \in 0..2
    /\ tables \in BOOLEAN /\ column \in BOOLEAN
    /\ rows \subseteq Rows /\ left \subseteq Seed
    /\ pc \in Locations
    /\ maxCounter \in Nat /\ idCounter \in Nat

LEMMA MaxOfTwo ==
    ASSUME NEW a \in Nat, NEW b \in Nat
    PROVE  /\ MaxOf({a, b}) \in Nat
           /\ MaxOf({a, b}) >= a /\ MaxOf({a, b}) >= b
<1>1. \E k \in {a, b} : \A j \in {a, b} : j <= k
  OBVIOUS
<1> QED BY <1>1 DEF MaxOf

LEMMA InitialStartup == StartupInit => StartupTypeOK
<1> SUFFICES ASSUME StartupInit PROVE StartupTypeOK
  OBVIOUS
<1>1. version = 0 /\ current = 0 /\ maxCounter = 0 /\ idCounter = 0
  BY DEF StartupInit
<1>2. rows = {} /\ left = {} /\ pc = "down"
  BY DEF StartupInit
<1>3. tables \in BOOLEAN /\ column \in BOOLEAN
  BY DEF StartupInit
<1> QED BY <1>1, <1>2, <1>3 DEF StartupTypeOK, Locations

\* Every row that is seeded or used is a row, and its counter is counted.
LEMMA StartupStep == StartupTypeOK /\ [StartupNext]_startupVars => StartupTypeOK'
<1> SUFFICES ASSUME StartupTypeOK, [StartupNext]_startupVars PROVE StartupTypeOK'
  OBVIOUS
<1> USE DEF StartupTypeOK, Locations, fileVars, procRest
<1>1. ASSUME NEW c \in Starts, Start(c) PROVE StartupTypeOK'
  BY <1>1, StartsAssumption DEF Start
<1>2. CASE CreateTables \/ AddColumn \/ Migrated \/ ProcessStops
  BY <1>2 DEF CreateTables, AddColumn, Migrated, ProcessStops
<1>3. ASSUME NEW v \in {1, 2}, RecordVersion(v) PROVE StartupTypeOK'
  BY <1>3 DEF RecordVersion
<1>4. CASE CountIngenieros
  BY <1>4 DEF CountIngenieros
<1>5. ASSUME NEW r \in Seed, SeedRow(r) PROVE StartupTypeOK'
  <2>1. r \in Rows /\ r.counter \in Nat
    BY SeedAssumption DEF Rows
  <2>2. MaxOf({maxCounter, r.counter}) \in Nat
    BY <2>1, MaxOfTwo
  <2> QED BY <1>5, <2>1, <2>2 DEF SeedRow
<1>6. CASE Seeded
  <2>1. MaxOf({idCounter, maxCounter}) \in Nat
    BY MaxOfTwo
  <2> QED BY <1>6, <2>1 DEF Seeded
<1>7. ASSUME NEW t \in Tables, Insert(t) PROVE StartupTypeOK'
  BY <1>7 DEF Insert, Rows
<1>8. CASE DrawOther
  BY <1>8 DEF DrawOther
<1>9. ASSUME NEW k \in Elsewhere, InsertForeign(k) PROVE StartupTypeOK'
  BY <1>9, StartsAssumption DEF InsertForeign, Rows, Tables
<1>10. CASE UNCHANGED startupVars
  BY <1>10 DEF startupVars
<1> QED BY <1>1, <1>2, <1>3, <1>4, <1>5, <1>6, <1>7, <1>8, <1>9, <1>10 DEF StartupNext

-----------------------------------------------------------------------------
(* The schema.                                                             *)

\* What a migration did is there when its version is recorded; the process
\* never thinks the version higher than it is, and has migrated before it goes on.
SchemaInv ==
    /\ StartupTypeOK
    /\ version >= 1 => tables
    /\ version >= 2 => column
    /\ pc \in {"migrate", "record1", "record2"} => current <= version
    /\ pc = "record1" => current = 0 /\ tables
    /\ pc = "record2" => current = 1 /\ tables /\ column
    /\ pc \in {"count", "seed", "serve"} => version = 2

LEMMA SchemaStep == SchemaInv /\ [StartupNext]_startupVars => SchemaInv'
<1> SUFFICES ASSUME SchemaInv, [StartupNext]_startupVars PROVE SchemaInv'
  OBVIOUS
<1> StartupTypeOK'
  BY StartupStep DEF SchemaInv
<1> USE DEF SchemaInv, StartupTypeOK, fileVars, procRest
<1>1. ASSUME NEW c \in Starts, Start(c) PROVE SchemaInv'
  BY <1>1 DEF Start
<1>2. CASE CreateTables
  BY <1>2 DEF CreateTables
<1>3. CASE AddColumn
  BY <1>3 DEF AddColumn
<1>4. ASSUME NEW v \in {1, 2}, RecordVersion(v) PROVE SchemaInv'
  BY <1>4 DEF RecordVersion
<1>5. CASE Migrated \/ CountIngenieros \/ Seeded \/ ProcessStops
  BY <1>5 DEF Migrated, CountIngenieros, Seeded, ProcessStops
<1>6. ASSUME NEW r \in Seed, SeedRow(r) PROVE SchemaInv'
  BY <1>6 DEF SeedRow
<1>7. ASSUME NEW t \in Tables, Insert(t) PROVE SchemaInv'
  BY <1>7 DEF Insert
<1>8. ASSUME NEW k \in Elsewhere, InsertForeign(k) PROVE SchemaInv'
  BY <1>8 DEF InsertForeign
<1>9. CASE DrawOther \/ UNCHANGED startupVars
  BY <1>9 DEF DrawOther, startupVars
<1> QED BY <1>1, <1>2, <1>3, <1>4, <1>5, <1>6, <1>7, <1>8, <1>9 DEF StartupNext

\* However often a start is cut short, between a migration and the record of
\* its version too, the schema is at least what the version says, and a node
\* that serves has all of it (db.go:94-137).
THEOREM SchemaIsRecorded == StartupSpec => []SchemaMatchesVersion
<1>1. StartupInit => SchemaInv
  BY InitialStartup DEF StartupInit, SchemaInv
<1>2. SchemaInv => SchemaMatchesVersion
  BY DEF SchemaInv, SchemaMatchesVersion, StartupTypeOK
<1> QED BY <1>1, <1>2, SchemaStep, PTL DEF StartupSpec

-----------------------------------------------------------------------------
(* The ids.                                                                *)

HasEngineers == RowsOf("INGENIEROS") # {}

\* Rows go in engineers first, whether they are seeded or used later; so a
\* database without engineers is empty, and only an empty one is seeded.  What
\* Seed wrote is below maxCounter, and after it all that is there is below
\* idCounter, but for what other processes drew the id of.
SeedInv ==
    /\ StartupTypeOK
    /\ maxCounter > 0 => met \subseteq foreign /\ pc \in {"seed", "serve", "down"}
    /\ Seed = {} => maxCounter = 0
    /\ Seed # {} =>
        /\ rows # {} => HasEngineers
        /\ pc = "serve" => HasEngineers
        /\ pc = "seed" =>
            /\ \A r \in rows : r.counter <= maxCounter
            /\ \A r \in Seed : r.table = "INGENIEROS" => r \in left \cup rows
    /\ pc \notin {"serve", "down"} => met = {}
    /\ pc = "serve" /\ maxCounter > 0 => \A r \in rows \ foreign : r.counter <= idCounter

\* Steps in which no row is written, and Seed neither begins nor ends.
LEMMA QuietStep ==
    ASSUME SeedInv, StartupTypeOK', UNCHANGED <<rows, foreign>>,
           \/ UNCHANGED <<pc, left, maxCounter, idCounter, met>>
           \/ pc' = "down" /\ UNCHANGED <<maxCounter, met>>
           \/ pc' \in Locations \ {"down", "seed", "serve"} /\ maxCounter' = 0 /\ met' = {}
    PROVE  SeedInv'
BY DEF SeedInv, HasEngineers, RowsOf, Locations

LEMMA CountStep ==
    ASSUME SeedInv, StartupTypeOK', CountIngenieros
    PROVE  SeedInv'
<1>1. maxCounter = 0 /\ met = {} /\ UNCHANGED <<rows, met, foreign, maxCounter, idCounter>>
  BY DEF CountIngenieros, SeedInv, StartupTypeOK, fileVars, drawVars
<1>2. CASE HasEngineers /\ pc' = "serve"
  BY <1>1, <1>2 DEF SeedInv, HasEngineers, RowsOf
<1>3. CASE ~HasEngineers /\ pc' = "seed" /\ left' = Seed
  BY <1>1, <1>3 DEF SeedInv, HasEngineers, RowsOf
<1> QED BY <1>2, <1>3 DEF CountIngenieros, HasEngineers

LEMMA SeedRowStep ==
    ASSUME SeedInv, StartupTypeOK', NEW r \in Seed, SeedRow(r)
    PROVE  SeedInv'
<1>1. /\ pc = "seed" /\ pc' = "seed" /\ met = {} /\ UNCHANGED <<met, foreign>>
      /\ rows' = rows \cup {r} /\ left' = left \ {r} /\ r \in left
      /\ maxCounter' = MaxOf({maxCounter, r.counter})
  BY DEF SeedRow, SeedInv, drawVars
<1>2. r \in Rows /\ r.counter \in Nat /\ maxCounter \in Nat
  BY SeedAssumption DEF Rows, SeedInv, StartupTypeOK
<1>3. maxCounter' >= maxCounter /\ maxCounter' >= r.counter
  BY <1>1, <1>2, MaxOfTwo
<1>4. \A q \in rows' : q.counter <= maxCounter'
  <2>1. \A q \in rows : q.counter <= maxCounter /\ q.counter \in Nat
    BY <1>1 DEF SeedInv, StartupTypeOK, Rows
  <2> QED BY <1>1, <1>2, <1>3, <2>1 DEF StartupTypeOK
<1>5. \A q \in Seed : q.table = "INGENIEROS" => q \in left' \cup rows'
  BY <1>1 DEF SeedInv
<1>6. HasEngineers'
  <2>1. CASE r.table = "INGENIEROS"
    BY <1>1, <2>1 DEF HasEngineers, RowsOf
  <2>2. CASE r.table # "INGENIEROS"
    <3>1. PICK q \in Seed : q.table = "INGENIEROS"
      BY EngineersAssumption
    <3>2. q \notin left
      BY <3>1, <2>2 DEF SeedRow
    <3>3. q \in rows
      BY <1>1, <3>1, <3>2 DEF SeedInv
    <3> QED BY <1>1, <3>1, <3>3 DEF HasEngineers, RowsOf
  <2> QED BY <2>1, <2>2
<1> QED BY <1>1, <1>4, <1>5, <1>6 DEF SeedInv

LEMMA SeededStep ==
    ASSUME SeedInv, StartupTypeOK', Seeded
    PROVE  SeedInv'
<1>1. /\ pc = "seed" /\ pc' = "serve" /\ left = {}
      /\ met = {} /\ UNCHANGED <<rows, left, met, foreign, maxCounter>>
      /\ idCounter' = MaxOf({idCounter, maxCounter})
  BY DEF Seeded, SeedInv, fileVars, drawVars
<1>2. idCounter' >= maxCounter /\ idCounter' \in Nat /\ maxCounter \in Nat
  BY <1>1, MaxOfTwo DEF SeedInv, StartupTypeOK
<1>3. Seed # {} => HasEngineers'
  <2>1. ASSUME Seed # {} PROVE HasEngineers'
    <3>1. PICK q \in Seed : q.table = "INGENIEROS"
      BY <2>1, EngineersAssumption
    <3> QED BY <1>1, <2>1, <3>1 DEF SeedInv, HasEngineers, RowsOf
  <2> QED BY <2>1
<1>4. maxCounter > 0 => \A r \in rows : r.counter <= idCounter'
  <2>1. ASSUME maxCounter > 0, NEW r \in rows PROVE r.counter <= idCounter'
    <3>1. r.counter \in Nat /\ r.counter <= maxCounter
      BY <1>1, <2>1 DEF SeedInv, StartupTypeOK, Rows
    <3> QED BY <1>2, <3>1
  <2> QED BY <2>1
<1> QED BY <1>1, <1>3, <1>4 DEF SeedInv

LEMMA InsertStep ==
    ASSUME SeedInv, StartupTypeOK', NEW t \in Tables, Insert(t)
    PROVE  SeedInv'
<1> DEFINE r == [table |-> t, counter |-> idCounter + 1]
<1>1. /\ pc = "serve" /\ pc' = "serve" /\ UNCHANGED <<maxCounter, foreign>>
      /\ idCounter' = idCounter + 1 /\ idCounter \in Nat
      /\ met' = met \cup ({r} \cap rows)
      /\ rows' = rows \/ rows' = rows \cup {r}
  BY DEF Insert, SeedInv, StartupTypeOK
<1>2. r.counter = idCounter + 1
  OBVIOUS
<1> HIDE DEF r
<1>3. ASSUME maxCounter > 0 PROVE met' \subseteq foreign'
  <2>1. r \notin rows \ foreign
    <3>1. \A q \in rows \ foreign : q.counter <= idCounter
      BY <1>1, <1>3 DEF SeedInv
    <3> QED BY <1>1, <1>2, <3>1
  <2> QED BY <1>1, <1>3, <2>1 DEF SeedInv
<1>4. ASSUME maxCounter > 0, NEW q \in rows' \ foreign' PROVE q.counter <= idCounter'
  <2>1. q \in rows => q.counter <= idCounter /\ q.counter \in Nat
    BY <1>1, <1>4 DEF SeedInv, StartupTypeOK, Rows
  <2> QED BY <1>1, <1>2, <1>4, <2>1
<1>5. HasEngineers => HasEngineers'
  BY <1>1 DEF HasEngineers, RowsOf
<1> QED BY <1>1, <1>3, <1>4, <1>5 DEF SeedInv

\* A draw for another table or node leaves a gap; a device from elsewhere is
\* one of those excepted.
LEMMA OtherDrawStep ==
    ASSUME SeedInv, StartupTypeOK', pc = "serve", UNCHANGED <<pc, left, maxCounter, met>>,
           idCounter' >= idCounter, foreign \subseteq foreign', rows \subseteq rows',
           rows' \ foreign' \subseteq rows \ foreign
    PROVE  SeedInv'
<1>1. ASSUME maxCounter > 0, NEW q \in rows' \ foreign' PROVE q.counter <= idCounter'
  <2>1. q.counter \in Nat /\ q.counter <= idCounter /\ idCounter \in Nat /\ idCounter' \in Nat
    BY <1>1 DEF SeedInv, StartupTypeOK, Rows
  <2> QED BY <2>1
<1>2. HasEngineers => HasEngineers'
  BY DEF HasEngineers, RowsOf
<1> QED BY <1>1, <1>2 DEF SeedInv

LEMMA SeedStep == SeedInv /\ [StartupNext]_startupVars => SeedInv'
<1> SUFFICES ASSUME SeedInv, [StartupNext]_startupVars PROVE SeedInv'
  OBVIOUS
<1> StartupTypeOK'
  BY StartupStep DEF SeedInv
<1>1. ASSUME NEW c \in Starts, Start(c) PROVE SeedInv'
  BY <1>1, QuietStep DEF Start, fileVars, Locations
<1>2. CASE CreateTables \/ AddColumn \/ Migrated
  BY <1>2, QuietStep DEF CreateTables, AddColumn, Migrated, SeedInv, StartupTypeOK,
                         fileVars, procRest, drawVars, Locations
<1>3. ASSUME NEW v \in {1, 2}, RecordVersion(v) PROVE SeedInv'
  BY <1>3, QuietStep DEF RecordVersion, SeedInv, StartupTypeOK, drawVars, Locations
<1>4. CASE CountIngenieros
  BY <1>4, CountStep
<1>5. ASSUME NEW r \in Seed, SeedRow(r) PROVE SeedInv'
  BY <1>5, SeedRowStep
<1>6. CASE Seeded
  BY <1>6, SeededStep
<1>7. ASSUME NEW t \in Tables, Insert(t) PROVE SeedInv'
  BY <1>7, InsertStep
<1>8. CASE ProcessStops
  BY <1>8, QuietStep DEF ProcessStops, fileVars, procRest, drawVars
<1>9. CASE UNCHANGED startupVars
  BY <1>9, QuietStep DEF startupVars, fileVars, procRest, drawVars
<1>10. CASE DrawOther
  <2>1. /\ pc = "serve" /\ UNCHANGED <<pc, left, maxCounter, met, foreign, rows>>
        /\ idCounter' = idCounter + 1 /\ idCounter \in Nat
    BY <1>10 DEF DrawOther, fileVars, SeedInv, StartupTypeOK
  <2>2. idCounter' >= idCounter
    BY <2>1
  <2> QED BY <2>1, <2>2, OtherDrawStep
<1>11. ASSUME NEW k \in Elsewhere, InsertForeign(k) PROVE SeedInv'
  <2> DEFINE r == [table |-> "DISPOSITIVOS", counter |-> k]
  <2>1. /\ pc = "serve" /\ UNCHANGED <<pc, left, maxCounter, met, idCounter>>
        /\ idCounter \in Nat /\ rows' = rows \cup {r} /\ foreign' = foreign \cup {r}
    BY <1>11 DEF InsertForeign, procRest, SeedInv, StartupTypeOK
  <2>2. idCounter' >= idCounter
    BY <2>1
  <2> HIDE DEF r
  <2> QED BY <2>1, <2>2, OtherDrawStep
<1> QED BY <1>1, <1>2, <1>3, <1>4, <1>5, <1>6, <1>7, <1>8, <1>9, <1>10, <1>11
    DEF StartupNext

\* The process that seeded the database draws no id of a row that is there but
\* of a device that another process gave its id: SetMinIDCounter puts the
\* counter above all that Seed came across, and a database that somebody had
\* begun to seed or use is not seeded again (seed.go:47-89,
\* ticket_service.go:28-50 and 172).
THEOREM SeederIdsAreNew == StartupSpec => []SeederDrawsNewIds
<1>1. StartupInit => SeedInv
  BY InitialStartup DEF StartupInit, SeedInv
<1>2. SeedInv => SeederDrawsNewIds
  BY DEF SeedInv, SeederDrawsNewIds
<1> QED BY <1>1, <1>2, SeedStep, PTL DEF StartupSpec

-----------------------------------------------------------------------------
(* The engine of a node: nobody stays in an election.                      *)

\* The counters of the engine count.
CountersOK ==
    /\ running \in [Nodes -> BOOLEAN]
    /\ armed \in [Nodes -> BOOLEAN]
    /\ sent \in [Nodes -> Nat]
    /\ stale \in [Nodes -> Nat]
    /\ expired \in [Nodes -> Nat]

EngineInv == CountersOK /\ RunningHasTimer

clockVars == <<running, armed, sent, stale, expired>>

\* Steps that touch neither running nor what will reset it.
LEMMA Untouched ==
    ASSUME EngineInv, UNCHANGED clockVars
    PROVE  EngineInv'
BY DEF EngineInv, CountersOK, RunningHasTimer, clockVars

\* The steps of the engine: the one that sets running counts a StartElection
\* that will set the timer; the timer becomes a callback, and the callback
\* resets running.
LEMMA EngineStep ==
    ASSUME EngineInv, NEW n \in Nodes,
           \/ StartElection(n)
           \/ ArmTimer(n)
           \/ OkTimerExpires(n)
           \/ StaleTimerExpires(n)
           \/ DeclareVictory(n)
    PROVE  EngineInv'
<1> USE DEF EngineInv, CountersOK, RunningHasTimer
<1>1. CASE StartElection(n)
  <2>1. CASE running[n] /\ UNCHANGED <<running, sent, armed>>
    BY <1>1, <2>1 DEF StartElection
  <2>2. CASE /\ ~running[n]
             /\ armed' = [armed EXCEPT ![n] = FALSE]
             /\ UNCHANGED <<running, sent>>
    BY <1>1, <2>2 DEF StartElection
  <2>3. CASE /\ running' = [running EXCEPT ![n] = TRUE]
             /\ sent' = [sent EXCEPT ![n] = @ + 1]
             /\ UNCHANGED armed
    BY <1>1, <2>3 DEF StartElection
  <2> QED BY <1>1, <2>1, <2>2, <2>3 DEF StartElection
<1>2. CASE ArmTimer(n)
  BY <1>2 DEF ArmTimer
<1>3. CASE OkTimerExpires(n)
  BY <1>3 DEF OkTimerExpires, Callback
<1>4. CASE StaleTimerExpires(n)
  BY <1>4 DEF StaleTimerExpires, Callback
<1>5. CASE DeclareVictory(n)
  BY <1>5 DEF DeclareVictory
<1> QED BY <1>1, <1>2, <1>3, <1>4, <1>5

\* The reactions to deaths and returns and the claim of the initial master.
LEMMA OtherStep ==
    ASSUME EngineInv, NEW n \in Nodes,
           \/ ClaimMastership(n)
           \/ \E k \in Nodes : DeclareDead(n, k) \/ SuspectLive(n, k) \/ BackAlive(n, k)
    PROVE  EngineInv'
<1>1. UNCHANGED clockVars
  BY DEF ClaimMastership, DeclareDead, SuspectLive, BackAlive, engineVars, clockVars
<1> QED BY <1>1, Untouched

\* A message resets running, together with the timer, or leaves both alone.
LEMMA MessageStep ==
    ASSUME EngineInv, NEW m, Handle(m)
    PROVE  EngineInv'
<1>1. CASE HandleElectionOK(m)
  BY <1>1 DEF HandleElectionOK, EngineInv, CountersOK, RunningHasTimer
<1>2. CASE HandleElection(m) \/ HandleCoordinator(m) \/ HandleNodeDead(m)
  <2>1. UNCHANGED clockVars
    BY <1>2 DEF HandleElection, HandleCoordinator, HandleNodeDead, engineVars, clockVars
  <2> QED BY <2>1, Untouched
<1> QED BY <1>1, <1>2 DEF Handle

\* A crash resets the engine as a whole, a restart finds it reset.
LEMMA FailureStep ==
    ASSUME EngineInv, Failures
    PROVE  EngineInv'
<1>1. PICK n \in Nodes : Crash(n) \/ Restart(n)
  BY DEF Failures
<1>2. CASE Crash(n)
  BY <1>2 DEF Crash, EngineInv, CountersOK, RunningHasTimer
<1>3. CASE Restart(n)
  <2>1. UNCHANGED clockVars
    BY <1>3 DEF Restart, clockVars
  <2> QED BY <2>1, Untouched
<1> QED BY <1>1, <1>2, <1>3

\* Whatever the order and the delay of the messages, the timers and the
\* failures, a node whose running is set has a timer, a callback or an
\* unfinished StartElection that will reset it (election.go:43-79, 93-99).
THEOREM NeverStuck == Spec => []RunningHasTimer
<1>1. Init => EngineInv
  BY DEF Init, EngineInv, CountersOK, RunningHasTimer
<1>2. EngineInv /\ [Next]_vars => EngineInv'
  <2> SUFFICES ASSUME EngineInv, [Next]_vars PROVE EngineInv'
    OBVIOUS
  <2>1. CASE \E n \in Nodes : UntimelyStep(n)
    <3>1. PICK n \in Nodes : UntimelyStep(n)
      BY <2>1
    <3>2. CASE \/ StartElection(n) \/ ArmTimer(n) \/ DeclareVictory(n)
               \/ OkTimerExpires(n) \/ StaleTimerExpires(n)
      BY <3>2, EngineStep
    <3>3. CASE \/ ClaimMastership(n)
               \/ \E k \in Nodes \ up : DeclareDead(n, k)
               \/ \E k \in Nodes : SuspectLive(n, k)
      BY <3>3, OtherStep
    <3>4. CASE \E k \in up : BackAlive(n, k)
      <4>1. UNCHANGED clockVars
        BY <3>4 DEF BackAlive, engineVars, clockVars
      <4> QED BY <4>1, Untouched
    <3> QED BY <3>1, <3>2, <3>3, <3>4 DEF UntimelyStep, Step
  <2>2. CASE \E m \in DOMAIN net : Handle(m)
    BY <2>2, MessageStep
  <2>3. CASE Failures
    BY <2>3, FailureStep
  <2>4. CASE UNCHANGED vars
    <3>1. UNCHANGED clockVars
      BY <2>4 DEF vars, engineVars, clockVars
    <3> QED BY <3>1, Untouched
  <2> QED BY <2>1, <2>2, <2>3, <2>4 DEF Next
<1>3. EngineInv => RunningHasTimer
  BY DEF EngineInv
<1> QED BY <1>1, <1>2, <1>3, PTL DEF Spec

\* The timing the election relies on only leaves behaviours out.
LEMMA TimelyIsNext == [TimelyNext]_vars => [Next]_vars
<1> SUFFICES ASSUME TimelyNext PROVE Next
  OBVIOUS
<1>1. CASE \E n \in Nodes : TimelyStep(n)
  <2>1. PICK n \in Nodes : TimelyStep(n)
    BY <1>1
  <2>2. UntimelyStep(n)
    BY <2>1 DEF TimelyStep, UntimelyStep
  <2> QED BY <2>1, <2>2 DEF Next
<1>2. CASE crashes = 0 /\ \E n, k \in Nodes : SuspectLive(n, k)
  BY <1>2 DEF Next, UntimelyStep
<1>3. CASE (\E m \in DOMAIN net : Handle(m)) \/ Failures
  BY <1>3 DEF Next
<1> QED BY <1>1, <1>2, <1>3 DEF TimelyNext

\* The same under the timing the election relies on.
THEOREM TimelyNeverStuck == TimelySpec => []RunningHasTimer
BY NeverStuck, TimelyIsNext, PTL DEF TimelySpec, Spec

-----------------------------------------------------------------------------
(* The types of the election: the network stays a bag of messages to nodes *)
(* that are up.                                                            *)

Deliverable(m) == m \in Message /\ m.to \in up

NetOK == IsABag(net) /\ \A m \in DOMAIN net : Deliverable(m)

ViewsOK ==
    /\ up \subseteq Nodes
    /\ alive \in [Nodes -> SUBSET Nodes]
    /\ masterOf \in [Nodes -> Nodes]
    /\ redistributed \subseteq Nodes
    /\ hasty \subseteq Nodes

EngineOK ==
    /\ CountersOK
    /\ spawned \in [Nodes -> Nat]
    /\ leftover \in [Nodes -> BOOLEAN]
    /\ claiming \in [Nodes -> BOOLEAN]

BoundsOK ==
    /\ crashes \in 0..MaxCrashes
    /\ restarts \in 0..MaxRestarts
    /\ suspicions \in 0..MaxSuspicions

ElectionInv == NetOK /\ ViewsOK /\ EngineOK /\ BoundsOK

LEMMA BagAdd ==
    ASSUME NEW B, IsABag(B), NEW S
    PROVE  /\ IsABag(B (+) SetToBag(S))
           /\ DOMAIN (B (+) SetToBag(S)) = DOMAIN B \cup S
  BY DEF IsABag, SetToBag, (+)

LEMMA BagRemove ==
    ASSUME NEW B, IsABag(B), NEW m
    PROVE  /\ IsABag(B (-) SetToBag({m}))
           /\ DOMAIN (B (-) SetToBag({m})) \subseteq DOMAIN B
           /\ DOMAIN B \ {m} \subseteq DOMAIN (B (-) SetToBag({m}))
<1> DEFINE C == [e \in DOMAIN B |-> IF e \in DOMAIN SetToBag({m})
                                    THEN B[e] - SetToBag({m})[e] ELSE B[e]]
           D == {e \in DOMAIN C : C[e] > 0}
<1>1. (B (-) SetToBag({m})) = [e \in D |-> C[e]]
  BY DEF (-)
<1>2. \A e \in DOMAIN B : C[e] \in Int
  BY DEF IsABag, SetToBag
<1>3. DOMAIN C = DOMAIN B
  OBVIOUS
<1>4. \A e \in DOMAIN B \ {m} : C[e] > 0
  BY DEF IsABag, SetToBag
<1> HIDE DEF C
<1>5. /\ D \subseteq DOMAIN B /\ DOMAIN B \ {m} \subseteq D
      /\ \A e \in D : C[e] \in {k \in Nat : k > 0}
  BY <1>2, <1>3, <1>4
<1> HIDE DEF D
<1>6. [e \in D |-> C[e]] \in [D -> {k \in Nat : k > 0}]
  BY <1>5
<1> QED BY <1>1, <1>5, <1>6 DEF IsABag

LEMMA SentInNet ==
    ASSUME NetOK, UNCHANGED up, NEW S, \A m \in S : m \in Message, Send(S)
    PROVE  NetOK'
  BY BagAdd DEF NetOK, Deliverable, Send

LEMMA ReplyInNet ==
    ASSUME NetOK, UNCHANGED up, NEW S, \A m \in S : m \in Message, NEW m, Reply(m, S)
    PROVE  NetOK'
<1> DEFINE B == net (-) SetToBag({m})
<1>1. IsABag(B) /\ DOMAIN B \subseteq DOMAIN net
  BY BagRemove DEF NetOK
<1>2. net' = B (+) SetToBag({k \in S : k.to \in up})
  BY DEF Reply
<1> HIDE DEF B
<1>3. IsABag(net') /\ DOMAIN net' = DOMAIN B \cup {k \in S : k.to \in up}
  BY <1>1, <1>2, BagAdd
<1> QED BY <1>1, <1>3 DEF NetOK, Deliverable

LEMMA WinTypes ==
    ASSUME ElectionInv, UNCHANGED <<up, alive, redistributed, hasty>>, NEW n \in Nodes, Win(n)
    PROVE  NetOK' /\ ViewsOK'
<1>1. \A m \in Coordinator(n) : m \in Message
  BY DEF Coordinator, Peers, Msg, Message
<1>2. NetOK'
  BY <1>1, SentInNet DEF ElectionInv, Win
<1>3. ViewsOK'
  BY DEF ElectionInv, ViewsOK, Win
<1> QED BY <1>2, <1>3

LEMMA EngineTypes ==
    ASSUME ElectionInv, NEW n \in Nodes,
           \/ StartElection(n) \/ ArmTimer(n) \/ DeclareVictory(n)
           \/ OkTimerExpires(n) \/ StaleTimerExpires(n) \/ ClaimMastership(n)
    PROVE  ElectionInv'
<1> USE DEF ElectionInv
<1>1. CASE StartElection(n)
  <2>1. EngineOK'
    <3>1. /\ spawned' = [spawned EXCEPT ![n] = @ - 1] /\ spawned[n] > 0
          /\ UNCHANGED <<leftover, stale, expired, claiming>>
      BY <1>1 DEF StartElection
    <3>2. spawned' \in [Nodes -> Nat]
      BY <3>1 DEF EngineOK
    <3>3. /\ running' = running \/ running' = [running EXCEPT ![n] = TRUE]
          /\ armed' = armed \/ armed' = [armed EXCEPT ![n] = FALSE]
          /\ sent' = sent \/ sent' = [sent EXCEPT ![n] = @ + 1]
      BY <1>1 DEF StartElection
    <3>4. running' \in [Nodes -> BOOLEAN] /\ armed' \in [Nodes -> BOOLEAN]
      BY <3>3 DEF EngineOK, CountersOK
    <3>5. sent' \in [Nodes -> Nat]
      BY <3>3 DEF EngineOK, CountersOK
    <3>6. CountersOK'
      BY <3>1, <3>4, <3>5 DEF EngineOK, CountersOK
    <3> QED BY <3>1, <3>2, <3>6 DEF EngineOK
  <2>2. BoundsOK'
    BY <1>1 DEF StartElection, boundVars, BoundsOK
  <2>3. UNCHANGED <<up, alive, redistributed, hasty>>
    BY <1>1 DEF StartElection
  <2>4. CASE Win(n)
    BY <2>1, <2>2, <2>3, <2>4, WinTypes
  <2>5. CASE UNCHANGED <<masterOf, net>>
    BY <2>1, <2>2, <2>3, <2>5 DEF NetOK, Deliverable, ViewsOK
  <2>6. CASE /\ Send({Msg("ELECTION", n, n, k) : k \in LowerNodes(n)})
             /\ UNCHANGED masterOf
    <3>1. \A m \in {Msg("ELECTION", n, n, k) : k \in LowerNodes(n)} : m \in Message
      BY DEF ViewsOK, LowerNodes, AlivePeers, Msg, Message
    <3>2. NetOK'
      BY <2>3, <2>6, <3>1, SentInNet
    <3> QED BY <2>1, <2>2, <2>3, <2>6, <3>2 DEF ViewsOK
  <2> QED BY <1>1, <2>4, <2>5, <2>6 DEF StartElection
<1>2. CASE DeclareVictory(n)
  <2>1. EngineOK' /\ BoundsOK' /\ Win(n) /\ UNCHANGED <<up, alive, redistributed, hasty>>
    BY <1>2 DEF DeclareVictory, boundVars, EngineOK, CountersOK, BoundsOK
  <2> QED BY <2>1, WinTypes
<1>3. CASE ClaimMastership(n)
  <2>1. EngineOK' /\ BoundsOK' /\ Win(n) /\ UNCHANGED <<up, alive, redistributed, hasty>>
    BY <1>3 DEF ClaimMastership, boundVars, EngineOK, CountersOK, BoundsOK
  <2> QED BY <2>1, WinTypes
<1>4. CASE ArmTimer(n)
  BY <1>4 DEF ArmTimer, boundVars, EngineOK, CountersOK, BoundsOK, NetOK, Deliverable, ViewsOK
<1>5. CASE OkTimerExpires(n)
  BY <1>5 DEF OkTimerExpires, Callback, boundVars, EngineOK, CountersOK, BoundsOK,
              NetOK, Deliverable, ViewsOK
<1>6. CASE StaleTimerExpires(n)
  BY <1>6 DEF StaleTimerExpires, Callback, boundVars, EngineOK, CountersOK, BoundsOK,
              NetOK, Deliverable, ViewsOK
<1> QED BY <1>1, <1>2, <1>3, <1>4, <1>5, <1>6

LEMMA HeartbeatTypes ==
    ASSUME ElectionInv, NEW n \in Nodes, NEW k \in Nodes,
           \/ DeclareDead(n, k) /\ UNCHANGED suspicions
           \/ SuspectLive(n, k)
           \/ BackAlive(n, k)
    PROVE  ElectionInv'
<1> USE DEF ElectionInv
<1>1. CASE BackAlive(n, k)
  BY <1>1 DEF BackAlive, engineVars, boundVars, EngineOK, CountersOK, BoundsOK,
              NetOK, Deliverable, ViewsOK
<1>2. CASE DeclareDead(n, k) /\ suspicions' \in 0..MaxSuspicions
  <2>1. EngineOK' /\ BoundsOK' /\ ViewsOK' /\ UNCHANGED up
    BY <1>2 DEF DeclareDead, EngineOK, CountersOK, BoundsOK, ViewsOK
  <2>2. CASE UNCHANGED net
    BY <2>1, <2>2 DEF NetOK, Deliverable
  <2>3. CASE Send({Msg("NODE_DEAD", k, n, masterOf[n])})
    <3>1. \A m \in {Msg("NODE_DEAD", k, n, masterOf[n])} : m \in Message
      BY DEF ViewsOK, Msg, Message
    <3> QED BY <2>1, <2>3, <3>1, SentInNet
  <2> QED BY <1>2, <2>2, <2>3 DEF DeclareDead
<1>3. CASE SuspectLive(n, k)
  BY <1>2, <1>3, BoundsAssumption DEF SuspectLive, BoundsOK
<1> QED BY <1>1, <1>2, <1>3 DEF BoundsOK

LEMMA HandleTypes ==
    ASSUME ElectionInv, NEW m \in DOMAIN net, Handle(m)
    PROVE  ElectionInv'
<1> USE DEF ElectionInv
<1>1. m \in Message /\ m.id \in Nodes /\ m.from \in Nodes /\ m.to \in Nodes
  BY DEF NetOK, Deliverable, Message
<1>2. CASE HandleElection(m)
  <2>1. EngineOK' /\ BoundsOK' /\ ViewsOK' /\ UNCHANGED up
    BY <1>1, <1>2 DEF HandleElection, boundVars, EngineOK, CountersOK, BoundsOK, ViewsOK
  <2>2. CASE Reply(m, {})
    BY <2>1, <2>2, ReplyInNet
  <2>3. CASE Reply(m, {Msg("ELECTION_OK", m.to, m.to, m.from)})
    <3>1. \A k \in {Msg("ELECTION_OK", m.to, m.to, m.from)} : k \in Message
      BY <1>1 DEF Msg, Message
    <3> QED BY <2>1, <2>3, <3>1, ReplyInNet
  <2> QED BY <1>2, <2>2, <2>3 DEF HandleElection
<1>3. CASE HandleElectionOK(m) \/ HandleCoordinator(m) \/ HandleNodeDead(m)
  <2>1. EngineOK' /\ BoundsOK'
    BY <1>1, <1>3 DEF HandleElectionOK, HandleCoordinator, HandleNodeDead,
                      engineVars, boundVars, EngineOK, CountersOK, BoundsOK
  <2>2. ViewsOK' /\ UNCHANGED up /\ Reply(m, {})
    BY <1>1, <1>3 DEF HandleElectionOK, HandleCoordinator, HandleNodeDead, ViewsOK
  <2> QED BY <2>1, <2>2, ReplyInNet
<1> QED BY <1>2, <1>3 DEF Handle

LEMMA FailureTypes ==
    ASSUME ElectionInv, NEW n \in Nodes, Crash(n) \/ Restart(n)
    PROVE  ElectionInv'
<1> USE DEF ElectionInv
<1>1. CASE Crash(n)
  <2>1. EngineOK' /\ ViewsOK'
    BY <1>1 DEF Crash, EngineOK, CountersOK, ViewsOK
  <2>2. BoundsOK'
    BY <1>1, BoundsAssumption DEF Crash, BoundsOK
  <2>3. NetOK'
    <3> DEFINE S == {m \in DOMAIN net : m.to # n}
    <3>1. net' = [m \in S |-> net[m]] /\ up' = up \ {n}
      BY <1>1 DEF Crash
    <3>2. IsABag(net') /\ DOMAIN net' = S
      BY <3>1 DEF NetOK, IsABag
    <3> QED BY <3>1, <3>2 DEF NetOK, Deliverable
  <2> QED BY <2>1, <2>2, <2>3
<1>2. CASE Restart(n)
  <2>1. EngineOK' /\ ViewsOK'
    BY <1>2, MasterAssumption DEF Restart, EngineOK, CountersOK, ViewsOK
  <2>2. BoundsOK'
    BY <1>2, BoundsAssumption DEF Restart, BoundsOK
  <2>3. NetOK'
    BY <1>2 DEF Restart, NetOK, Deliverable
  <2> QED BY <2>1, <2>2, <2>3
<1> QED BY <1>1, <1>2

LEMMA InitialElection == Init => ElectionInv
<1> SUFFICES ASSUME Init PROVE ElectionInv
  OBVIOUS
<1>1. NetOK
  BY DEF Init, NetOK, EmptyBag, SetToBag, IsABag
<1>2. ViewsOK /\ EngineOK
  BY MasterAssumption DEF Init, ViewsOK, EngineOK, CountersOK
<1>3. BoundsOK
  BY BoundsAssumption DEF Init, BoundsOK
<1> QED BY <1>1, <1>2, <1>3 DEF ElectionInv

LEMMA ElectionStep == ElectionInv /\ [Next]_vars => ElectionInv'
<1> SUFFICES ASSUME ElectionInv, [Next]_vars PROVE ElectionInv'
  OBVIOUS
<1>1. CASE \E n \in Nodes : UntimelyStep(n)
  <2>1. PICK n \in Nodes : UntimelyStep(n)
    BY <1>1
  <2>2. up \subseteq Nodes
    BY DEF ElectionInv, ViewsOK
  <2> QED BY <2>1, <2>2, EngineTypes, HeartbeatTypes DEF UntimelyStep, Step
<1>2. CASE \E m \in DOMAIN net : Handle(m)
  BY <1>2, HandleTypes
<1>3. CASE Failures
  BY <1>3, FailureTypes DEF Failures
<1>4. CASE UNCHANGED vars
  BY <1>4 DEF vars, engineVars, boundVars, ElectionInv, NetOK, Deliverable, ViewsOK,
              EngineOK, CountersOK, BoundsOK
<1> QED BY <1>1, <1>2, <1>3, <1>4 DEF Next

\* The views of the nodes, their engines and the messages keep their types:
\* no message is on its way to a node that is down, and a node's master and
\* the nodes it holds alive are nodes (election.go:43-187, state.go:36-125,
\* heartbeat.go:137-167).
THEOREM ElectionTypes == Spec => []TypeOK
<1>1. ElectionInv => TypeOK
  BY DEF ElectionInv, NetOK, Deliverable, ViewsOK, EngineOK, CountersOK, BoundsOK,
         TypeOK, EngineTypeOK
<1> QED BY <1>1, InitialElection, ElectionStep, PTL DEF Spec

-----------------------------------------------------------------------------
(* Who announces itself, until a node comes back or is suspected wrongly.  *)
(* A timer that expires ends the election it was set for, or a later one:  *)
(* which, the engine does not know.  A node that is not the lowest of      *)
(* those that are up announces itself only if a timer of its own cut short *)
(* an election to which an answer was still to come.                       *)

Unharmed == restarts = 0 /\ suspicions = 0

\* The nodes that are up and that should win against n.
Rivals(n) == {k \in up : k < n}

\* The ELECTION of n to k is under way, or an answer to n is.
AnswerDue(n, k) ==
    \E m \in DOMAIN net :
        \/ m.type = "ELECTION" /\ m.from = n /\ m.to = k
        \/ m.type = "ELECTION_OK" /\ m.to = n

\* Nobody holds a node that is up for dead.
ViewsHold == \A n \in up : up \subseteq alive[n]

AskersNamed == \A m \in DOMAIN net : m.type = "ELECTION" => m.id = m.from

\* As long as a node is in an election it has not heard of any rival.
AnswersDue == \A n \in up : running[n] => \A k \in Rivals(n) : AnswerDue(n, k)

\* Nobody is to win against n, or n did not wait.
MayWin(n) == Rivals(n) = {} \/ n \in hasty

WinnersExpire == \A n \in up : expired[n] > 0 => MayWin(n)

WinnersAnnounce == \A m \in DOMAIN net : m.type = "COORDINATOR" /\ m.from \in up => MayWin(m.from)

MasterClaims == \A n \in Nodes : claiming[n] => n = InitialMaster

VoteInv ==
    /\ ViewsHold /\ AskersNamed /\ AnswersDue
    /\ WinnersExpire /\ WinnersAnnounce /\ MasterClaims

MasterIsLowest == \A n \in Nodes : InitialMaster <= n

LEMMA SentDomain ==
    ASSUME NetOK, NEW S, Send(S)
    PROVE  DOMAIN net' = DOMAIN net \cup {m \in S : m.to \in up}
  BY BagAdd DEF NetOK, Send

LEMMA ReplyDomain ==
    ASSUME NetOK, NEW S, NEW m, Reply(m, S)
    PROVE  /\ DOMAIN net' \subseteq DOMAIN net \cup {k \in S : k.to \in up}
           /\ (DOMAIN net \ {m}) \cup {k \in S : k.to \in up} \subseteq DOMAIN net'
<1> DEFINE B == net (-) SetToBag({m})
<1>1. /\ IsABag(B)
      /\ DOMAIN B \subseteq DOMAIN net /\ DOMAIN net \ {m} \subseteq DOMAIN B
  BY BagRemove DEF NetOK
<1>2. net' = B (+) SetToBag({k \in S : k.to \in up})
  BY DEF Reply
<1> HIDE DEF B
<1>3. DOMAIN net' = DOMAIN B \cup {k \in S : k.to \in up}
  BY <1>1, <1>2, BagAdd
<1> QED BY <1>1, <1>3

\* Steps that start no election and handle no message.
LEMMA VotesKept ==
    ASSUME ElectionInv, ElectionInv', VoteInv, UNCHANGED up, ViewsHold', hasty \subseteq hasty',
           \A n \in Nodes : running'[n] => running[n],
           \A n \in Nodes : claiming'[n] => claiming[n],
           \A n \in Nodes : expired'[n] > expired[n] => MayWin(n)',
           DOMAIN net \subseteq DOMAIN net',
           \A m \in DOMAIN net' \ DOMAIN net :
               m.type = "NODE_DEAD" \/ (m.type = "COORDINATOR" /\ MayWin(m.from))
    PROVE  VoteInv'
<1> USE DEF VoteInv
<1>1. \A n : Rivals(n)' = Rivals(n) /\ (MayWin(n) => MayWin(n)')
  BY DEF Rivals, MayWin
<1>2. up \subseteq Nodes
  BY DEF ElectionInv, ViewsOK
<1>3. AskersNamed' /\ WinnersAnnounce'
  BY <1>1 DEF AskersNamed, WinnersAnnounce
<1>4. AnswersDue'
  BY <1>1, <1>2 DEF AnswersDue, AnswerDue
<1>5. WinnersExpire'
  <2>1. \A n \in Nodes : expired[n] \in Nat /\ expired'[n] \in Nat
    BY DEF ElectionInv, EngineOK, CountersOK
  <2> SUFFICES ASSUME NEW n \in up, expired'[n] > 0 PROVE MayWin(n)'
    BY DEF WinnersExpire
  <2>2. CASE expired'[n] > expired[n]
    BY <1>2, <2>2
  <2>3. CASE ~(expired'[n] > expired[n])
    <3>1. expired[n] > 0
      BY <1>2, <2>1, <2>3
    <3> QED BY <1>1, <3>1 DEF WinnersExpire
  <2> QED BY <2>2, <2>3
<1>6. MasterClaims'
  BY DEF MasterClaims
<1> QED BY <1>3, <1>4, <1>5, <1>6

LEMMA WinVotes ==
    ASSUME ElectionInv, ElectionInv', VoteInv, UNCHANGED <<up, alive, hasty>>,
           \A n \in Nodes : running'[n] => running[n],
           \A n \in Nodes : claiming'[n] => claiming[n],
           \A n \in Nodes : expired'[n] <= expired[n],
           NEW n \in Nodes, Win(n), MayWin(n)
    PROVE  VoteInv'
<1>1. DOMAIN net' = DOMAIN net \cup {m \in Coordinator(n) : m.to \in up}
  BY SentDomain DEF Win, ElectionInv
<1>2. \A m \in Coordinator(n) : m.type = "COORDINATOR" /\ m.from = n
  BY DEF Coordinator, Msg
<1>3. \A k \in Nodes : expired[k] \in Nat /\ expired'[k] \in Nat
  BY DEF ElectionInv, EngineOK, CountersOK
<1>4. \A k \in Nodes : ~(expired'[k] > expired[k])
  BY <1>3
<1>5. ViewsHold'
  BY DEF VoteInv, ViewsHold
<1> QED BY <1>1, <1>2, <1>4, <1>5, VotesKept

\* Whoever believes that nobody is lower is right.
LEMMA NobodyLower ==
    ASSUME ElectionInv, ViewsHold, NEW n \in up
    PROVE  Rivals(n) \subseteq LowerNodes(n)
<1>1. n \in Nat /\ \A k \in up : k \in Nat
  BY NodesAssumption DEF ElectionInv, ViewsOK
<1>2. ASSUME NEW k \in Rivals(n) PROVE k \in LowerNodes(n)
  <2>1. k \in alive[n] /\ k < n /\ k \in up
    BY DEF Rivals, ViewsHold
  <2>2. k # n
    BY <1>1, <2>1
  <2> QED BY <2>1, <2>2 DEF LowerNodes, AlivePeers
<1> QED BY <1>2

LEMMA StartVotes ==
    ASSUME ElectionInv, ElectionInv', VoteInv, NEW n \in Nodes, StartElection(n)
    PROVE  VoteInv'
<1>1. n \in up /\ UNCHANGED <<up, alive, expired, claiming, hasty>>
  BY DEF StartElection
<1>2. ViewsHold /\ ViewsHold'
  BY <1>1 DEF VoteInv, ViewsHold
<1>3. \A k \in Nodes : expired'[k] <= expired[k] /\ ~(expired'[k] > expired[k])
  BY <1>1 DEF ElectionInv, EngineOK, CountersOK
<1>4. CASE UNCHANGED <<running, net>>
  BY <1>1, <1>2, <1>3, <1>4, VotesKept
<1>5. CASE LowerNodes(n) = {} /\ Win(n) /\ UNCHANGED running
  <2>1. MayWin(n)
    BY <1>1, <1>2, <1>5, NobodyLower DEF MayWin
  <2> QED BY <1>1, <1>3, <1>5, <2>1, WinVotes
<1>6. CASE /\ running' = [running EXCEPT ![n] = TRUE]
           /\ Send({Msg("ELECTION", n, n, k) : k \in LowerNodes(n)})
  <2>1. DOMAIN net' = DOMAIN net \cup {m \in {Msg("ELECTION", n, n, k) : k \in LowerNodes(n)} : m.to \in up}
    BY <1>6, SentDomain DEF ElectionInv
  <2>2. \A m \in DOMAIN net' \ DOMAIN net : m.type = "ELECTION" /\ m.id = n /\ m.from = n
    BY <2>1 DEF Msg
  <2>3. \A k \in Rivals(n) : Msg("ELECTION", n, n, k) \in DOMAIN net'
    BY <1>1, <1>2, <2>1, NobodyLower DEF Rivals, Msg
  <2>4. \A k : Rivals(k)' = Rivals(k) /\ MayWin(k)' = MayWin(k)
    BY <1>1 DEF Rivals, MayWin
  <2>5. AskersNamed' /\ WinnersAnnounce'
    BY <1>1, <2>1, <2>2, <2>4 DEF VoteInv, AskersNamed, WinnersAnnounce
  <2>6. AnswersDue'
    <3> SUFFICES ASSUME NEW l \in up, running'[l], NEW k \in Rivals(l)
                 PROVE  AnswerDue(l, k)'
      BY <1>1, <2>4 DEF AnswersDue
    <3>1. CASE l = n
      BY <2>3, <3>1 DEF AnswerDue, Msg
    <3>2. CASE l # n
      <4>1. running[l]
        BY <1>6, <3>2 DEF ElectionInv, EngineOK, CountersOK, ViewsOK
      <4> QED BY <2>1, <4>1 DEF VoteInv, AnswersDue, AnswerDue
    <3> QED BY <3>1, <3>2
  <2>7. WinnersExpire' /\ MasterClaims'
    BY <1>1, <2>4 DEF VoteInv, WinnersExpire, MasterClaims
  <2> QED BY <1>2, <2>5, <2>6, <2>7 DEF VoteInv
<1> QED BY <1>4, <1>5, <1>6 DEF StartElection

\* A timer that expires while the node is in an election and no answer is under
\* way finds no rival: the answer of each of them would be.
LEMMA TimerVotes ==
    ASSUME ElectionInv, ElectionInv', VoteInv, NEW n \in Nodes,
           OkTimerExpires(n) \/ StaleTimerExpires(n)
    PROVE  VoteInv'
<1>1. n \in up /\ Callback(n)
  BY DEF OkTimerExpires, StaleTimerExpires
<1>2. UNCHANGED <<up, alive, running, claiming, net>> /\ hasty \subseteq hasty'
  BY <1>1 DEF Callback
<1>3. \A k \in Nodes : expired[k] \in Nat
  BY DEF ElectionInv, EngineOK, CountersOK
<1>4. \A k \in Nodes : expired'[k] = IF k = n /\ running[n] THEN expired[k] + 1 ELSE expired[k]
  BY <1>1 DEF Callback, ElectionInv, EngineOK, CountersOK
<1>5. ASSUME NEW k \in Nodes, expired'[k] > expired[k] PROVE MayWin(k)'
  <2>1. k = n /\ running[n]
    BY <1>3, <1>4, <1>5
  <2>2. CASE AnswersAreIn(n)
    <3>1. Rivals(n) = {}
      BY <1>1, <2>1, <2>2 DEF VoteInv, AnswersDue, AnswerDue, AnswersAreIn
    <3> QED BY <1>2, <2>1, <3>1 DEF MayWin, Rivals
  <2>3. CASE ~AnswersAreIn(n)
    BY <1>1, <2>1, <2>3 DEF Callback, MayWin
  <2> QED BY <2>2, <2>3
<1>6. ViewsHold'
  BY <1>2 DEF VoteInv, ViewsHold
<1> QED BY <1>2, <1>5, <1>6, VotesKept

LEMMA VictoryVotes ==
    ASSUME MasterIsLowest, ElectionInv, ElectionInv', VoteInv, NEW n \in Nodes,
           DeclareVictory(n) \/ ClaimMastership(n)
    PROVE  VoteInv'
<1>1. n \in up /\ Win(n) /\ UNCHANGED <<up, alive, hasty>>
  BY DEF DeclareVictory, ClaimMastership
<1>2. \A k \in Nodes : running'[k] => running[k]
  BY DEF DeclareVictory, ClaimMastership, ElectionInv, EngineOK, CountersOK
<1>3. \A k \in Nodes : claiming'[k] => claiming[k]
  BY DEF DeclareVictory, ClaimMastership, ElectionInv, EngineOK
<1>4. \A k \in Nodes : expired'[k] <= expired[k]
  <2>1. \A k \in Nodes : expired[k] \in Nat
    BY DEF ElectionInv, EngineOK, CountersOK
  <2>2. expired' = expired \/ expired' = [expired EXCEPT ![n] = @ - 1]
    BY DEF DeclareVictory, ClaimMastership
  <2> QED BY <2>1, <2>2 DEF ElectionInv, EngineOK, CountersOK
<1>5. MayWin(n)
  <2>1. CASE DeclareVictory(n)
    BY <1>1, <2>1 DEF DeclareVictory, VoteInv, WinnersExpire
  <2>2. CASE ClaimMastership(n)
    <3>1. n = InitialMaster
      BY <2>2 DEF ClaimMastership, VoteInv, MasterClaims
    <3>2. \A k \in up : k \in Nat /\ n \in Nat /\ n <= k
      BY <3>1, NodesAssumption DEF MasterIsLowest, ElectionInv, ViewsOK
    <3> QED BY <3>2 DEF Rivals, MayWin
  <2> QED BY <2>1, <2>2
<1> QED BY <1>1, <1>2, <1>3, <1>4, <1>5, WinVotes

LEMMA ViewVotes ==
    ASSUME ElectionInv, ElectionInv', VoteInv, NEW n \in Nodes,
           \/ ArmTimer(n)
           \/ \E k \in up : BackAlive(n, k)
           \/ \E k \in Nodes \ up : DeclareDead(n, k)
    PROVE  VoteInv'
<1>1. UNCHANGED <<up, running, expired, claiming, hasty>>
  BY DEF ArmTimer, BackAlive, DeclareDead, engineVars
<1>2. \A k \in Nodes : ~(expired'[k] > expired[k])
  BY <1>1 DEF ElectionInv, EngineOK, CountersOK
<1>3. ViewsHold'
  <2>1. CASE ArmTimer(n)
    BY <2>1 DEF ArmTimer, VoteInv, ViewsHold
  <2>2. ASSUME NEW k \in up, BackAlive(n, k) PROVE ViewsHold'
    BY <2>2 DEF BackAlive, VoteInv, ViewsHold, ElectionInv, ViewsOK
  <2>3. ASSUME NEW k \in Nodes \ up, DeclareDead(n, k) PROVE ViewsHold'
    BY <2>3 DEF DeclareDead, VoteInv, ViewsHold, ElectionInv, ViewsOK
  <2> QED BY <2>1, <2>2, <2>3
<1>4. UNCHANGED net \/ \E k \in Nodes : Send({Msg("NODE_DEAD", k, n, masterOf[n])})
  BY DEF ArmTimer, BackAlive, DeclareDead
<1>5. /\ DOMAIN net \subseteq DOMAIN net'
      /\ \A m \in DOMAIN net' \ DOMAIN net : m.type = "NODE_DEAD"
  <2>1. ASSUME NEW k \in Nodes, Send({Msg("NODE_DEAD", k, n, masterOf[n])}) PROVE <1>5
    <3>1. DOMAIN net' = DOMAIN net \cup {m \in {Msg("NODE_DEAD", k, n, masterOf[n])} : m.to \in up}
      BY <2>1, SentDomain DEF ElectionInv
    <3> QED BY <3>1 DEF Msg
  <2> QED BY <1>4, <2>1
<1>6. /\ UNCHANGED up /\ hasty \subseteq hasty'
      /\ \A k \in Nodes : (running'[k] => running[k]) /\ (claiming'[k] => claiming[k])
  BY <1>1
<1>7. \A m \in DOMAIN net' \ DOMAIN net :
          m.type = "NODE_DEAD" \/ (m.type = "COORDINATOR" /\ MayWin(m.from))
  BY <1>5
<1> QED BY <1>2, <1>3, <1>5, <1>6, <1>7, VotesKept

\* An answer takes the place of the ELECTION it answers, and ends the election
\* of the node it reaches.
LEMMA HandleVotes ==
    ASSUME ElectionInv, ElectionInv', VoteInv, NEW m \in DOMAIN net, Handle(m)
    PROVE  VoteInv'
<1> DEFINE answer == Msg("ELECTION_OK", m.to, m.to, m.from)
<1>1. UNCHANGED <<up, alive, expired, claiming, hasty>>
  BY DEF Handle, HandleElection, HandleElectionOK, HandleCoordinator, HandleNodeDead, engineVars
<1>2. \A k : Rivals(k)' = Rivals(k) /\ MayWin(k)' = MayWin(k)
  BY <1>1 DEF Rivals, MayWin
<1>3. ViewsHold' /\ WinnersExpire' /\ MasterClaims'
  BY <1>1, <1>2 DEF VoteInv, ViewsHold, WinnersExpire, MasterClaims
<1>4. \/ Reply(m, {})
      \/ m.type = "ELECTION" /\ m.to < m.id /\ Reply(m, {answer})
  BY DEF Handle, HandleElection, HandleElectionOK, HandleCoordinator, HandleNodeDead
<1>5. DOMAIN net' \subseteq DOMAIN net \cup {answer}
  <2>1. CASE Reply(m, {})
    BY <2>1, ReplyDomain DEF ElectionInv
  <2>2. CASE Reply(m, {answer})
    BY <2>2, ReplyDomain DEF ElectionInv
  <2> QED BY <1>4, <2>1, <2>2
<1>6. DOMAIN net \ {m} \subseteq DOMAIN net'
  <2>1. CASE Reply(m, {})
    BY <2>1, ReplyDomain DEF ElectionInv
  <2>2. CASE Reply(m, {answer})
    BY <2>2, ReplyDomain DEF ElectionInv
  <2> QED BY <1>4, <2>1, <2>2
<1>7. AskersNamed' /\ WinnersAnnounce'
  BY <1>1, <1>2, <1>5 DEF VoteInv, AskersNamed, WinnersAnnounce, Msg
<1>8. AnswersDue'
  <2> SUFFICES ASSUME NEW n \in up, running'[n], NEW k \in Rivals(n)
               PROVE  AnswerDue(n, k)'
    BY <1>1, <1>2 DEF AnswersDue
  <2>1. m.to \in Nodes /\ n \in Nodes
    BY DEF ElectionInv, NetOK, Deliverable, Message, ViewsOK
  <2>2. running[n] /\ (m.type = "ELECTION_OK" => m.to # n)
    BY <2>1 DEF Handle, HandleElection, HandleElectionOK, HandleCoordinator, HandleNodeDead,
                engineVars, ElectionInv, EngineOK, CountersOK
  <2>3. PICK q \in DOMAIN net : \/ q.type = "ELECTION" /\ q.from = n /\ q.to = k
                                \/ q.type = "ELECTION_OK" /\ q.to = n
    BY <2>2 DEF VoteInv, AnswersDue, AnswerDue
  <2>4. CASE q # m
    BY <1>6, <2>3, <2>4 DEF AnswerDue
  <2>5. CASE q = m
    <3>1. m.type = "ELECTION" /\ m.from = n /\ m.to = k /\ m.id = n
      BY <2>2, <2>3, <2>5 DEF VoteInv, AskersNamed
    <3>2. k < n /\ n \in Nat /\ k \in Nat
      BY <2>1, <3>1, NodesAssumption DEF Rivals
    <3>3. Reply(m, {answer})
      BY <3>1, <3>2 DEF Handle, HandleElection, HandleElectionOK, HandleCoordinator, HandleNodeDead
    <3>4. answer.type = "ELECTION_OK" /\ answer.to = n
      BY <3>1 DEF Msg
    <3>5. answer \in DOMAIN net'
      BY <3>3, <3>4, ReplyDomain DEF ElectionInv
    <3> QED BY <3>4, <3>5 DEF AnswerDue
  <2> QED BY <2>4, <2>5
<1> QED BY <1>3, <1>7, <1>8 DEF VoteInv

\* With the node that crashes its rivalry ends.
LEMMA CrashVotes ==
    ASSUME ElectionInv, ElectionInv', VoteInv, NEW x \in Nodes, Crash(x)
    PROVE  VoteInv'
<1>1. /\ up' = up \ {x} /\ UNCHANGED <<alive, hasty>>
      /\ net' = [m \in {m \in DOMAIN net : m.to # x} |-> net[m]]
  BY DEF Crash
<1>2. DOMAIN net' = {m \in DOMAIN net : m.to # x}
  BY <1>1
<1>3. \A n \in Nodes : n # x => running'[n] = running[n] /\ expired'[n] = expired[n]
  BY DEF Crash, ElectionInv, EngineOK, CountersOK
<1>4. \A n \in Nodes : claiming'[n] => claiming[n]
  BY DEF Crash, ElectionInv, EngineOK
<1>5. \A k : Rivals(k)' = Rivals(k) \ {x} /\ (MayWin(k) => MayWin(k)')
  BY <1>1 DEF Rivals, MayWin
<1>6. up \subseteq Nodes
  BY DEF ElectionInv, ViewsOK
<1>7. ViewsHold' /\ MasterClaims'
  BY <1>1, <1>4 DEF VoteInv, ViewsHold, MasterClaims
<1>8. AskersNamed' /\ WinnersAnnounce'
  BY <1>1, <1>2, <1>5 DEF VoteInv, AskersNamed, WinnersAnnounce
<1>9. WinnersExpire'
  BY <1>1, <1>3, <1>5, <1>6 DEF VoteInv, WinnersExpire
<1>10. AnswersDue'
  <2> SUFFICES ASSUME NEW n \in up \ {x}, running'[n], NEW k \in Rivals(n) \ {x}
               PROVE  AnswerDue(n, k)'
    BY <1>1, <1>5 DEF AnswersDue
  <2>1. running[n]
    BY <1>3, <1>6
  <2>2. PICK q \in DOMAIN net : \/ q.type = "ELECTION" /\ q.from = n /\ q.to = k
                                \/ q.type = "ELECTION_OK" /\ q.to = n
    BY <2>1 DEF VoteInv, AnswersDue, AnswerDue
  <2>3. q \in DOMAIN net'
    BY <1>2, <2>2
  <2> QED BY <2>2, <2>3 DEF AnswerDue
<1> QED BY <1>7, <1>8, <1>9, <1>10 DEF VoteInv

\* Nothing but a return or a wrong suspicion ends the time the rest is about.
LEMMA HarmStays ==
    ASSUME ElectionInv, [Next]_vars, Unharmed'
    PROVE  /\ Unharmed
           /\ ~\E n \in Nodes : Restart(n)
           /\ ~\E n, k \in Nodes : SuspectLive(n, k)
<1>1. restarts \in Nat /\ suspicions \in Nat /\ restarts' = 0 /\ suspicions' = 0
  BY DEF ElectionInv, BoundsOK, Unharmed
<1>2. ~\E n \in Nodes : Restart(n)
  BY <1>1 DEF Restart
<1>3. ~\E n, k \in Nodes : SuspectLive(n, k)
  BY <1>1 DEF SuspectLive
<1>4. UNCHANGED <<restarts, suspicions>>
  <2>1. ASSUME NEW n \in Nodes, UntimelyStep(n) PROVE <1>4
    BY <1>3, <2>1 DEF UntimelyStep, Step, StartElection, ArmTimer, DeclareVictory, BackAlive,
                      OkTimerExpires, StaleTimerExpires, Callback, ClaimMastership, DeclareDead,
                      boundVars
  <2>2. ASSUME NEW m \in DOMAIN net, Handle(m) PROVE <1>4
    BY <2>2 DEF Handle, HandleElection, HandleElectionOK, HandleCoordinator, HandleNodeDead, boundVars
  <2>3. ASSUME NEW n \in Nodes, Crash(n) PROVE <1>4
    BY <2>3 DEF Crash
  <2>4. CASE UNCHANGED vars
    BY <2>4 DEF vars, boundVars
  <2> QED BY <1>2, <2>1, <2>2, <2>3, <2>4 DEF Next, Failures
<1> QED BY <1>1, <1>2, <1>3, <1>4 DEF Unharmed

LEMMA VoteStep ==
    ASSUME MasterIsLowest, ElectionInv, VoteInv, [Next]_vars, Unharmed'
    PROVE  VoteInv'
<1>1. ElectionInv'
  BY ElectionStep
<1>2. ASSUME NEW n \in Nodes, UntimelyStep(n) PROVE VoteInv'
  <2>1. ~\E k \in Nodes : SuspectLive(n, k)
    BY HarmStays
  <2> QED BY <1>1, <1>2, <2>1, StartVotes, TimerVotes, VictoryVotes, ViewVotes DEF UntimelyStep, Step
<1>3. ASSUME NEW m \in DOMAIN net, Handle(m) PROVE VoteInv'
  BY <1>1, <1>3, HandleVotes
<1>4. ASSUME NEW n \in Nodes, Crash(n) PROVE VoteInv'
  BY <1>1, <1>4, CrashVotes
<1>5. CASE UNCHANGED vars
  <2>1. UNCHANGED <<up, alive, running, expired, claiming, net, hasty>>
    BY <1>5 DEF vars, engineVars
  <2>2. \A n \in Nodes : ~(expired'[n] > expired[n])
    BY <2>1 DEF ElectionInv, EngineOK, CountersOK
  <2>3. ViewsHold'
    BY <2>1 DEF VoteInv, ViewsHold
  <2> QED BY <1>1, <2>1, <2>2, <2>3, VotesKept
<1> QED BY <1>2, <1>3, <1>4, <1>5, HarmStays DEF Next, Failures

LEMMA InitialVotes == Init => VoteInv
<1> SUFFICES ASSUME Init PROVE VoteInv
  OBVIOUS
<1>1. DOMAIN net = {}
  BY DEF Init, EmptyBag, SetToBag
<1>2. \A n \in Nodes : ~running[n] /\ expired[n] = 0 /\ alive[n] = Nodes /\ (claiming[n] => n = InitialMaster)
  BY DEF Init
<1>3. up = Nodes
  BY DEF Init
<1> QED BY <1>1, <1>2, <1>3 DEF VoteInv, ViewsHold, AskersNamed, AnswersDue, WinnersExpire,
                                WinnersAnnounce, MasterClaims

LEMMA LowestOfUp ==
    ASSUME ElectionInv, VoteInv
    PROVE  OnlyHastyAnnounce
<1> SUFFICES ASSUME NEW m \in DOMAIN net, m.type = "COORDINATOR", m.from \in up, m.from \notin hasty
             PROVE  m.from = Lowest(up)
  BY DEF OnlyHastyAnnounce
<1>1. \A k \in up : k \in Nat
  BY NodesAssumption DEF ElectionInv, ViewsOK
<1>2. \A k \in up : m.from <= k
  BY <1>1 DEF VoteInv, WinnersAnnounce, MayWin, Rivals
<1>3. \A n \in up : (\A k \in up : n <= k) => n = m.from
  BY <1>1, <1>2
<1> QED BY <1>2, <1>3 DEF Lowest

\* Until a node comes back or is suspected wrongly, on any number of nodes, with
\* any number of deaths and messages of any delay: of the nodes that are up one
\* that is not the lowest announces itself only after a timer of its own, an old
\* one or one that was too short, cut an election short to which an answer was
\* still to come. Lost or late views, crashes in the middle of an election and
\* announcements of the dead give no other way (election.go:43-187,
\* heartbeat.go:137-167).
THEOREM OthersWereHasty ==
    ASSUME MasterIsLowest
    PROVE  Spec => []OnlyHastyAnnounce
<1> DEFINE Inv == ElectionInv /\ (Unharmed => VoteInv)
<1>1. Init => Inv
  BY InitialElection, InitialVotes
<1>2. Inv /\ [Next]_vars => Inv'
  <2> SUFFICES ASSUME Inv, [Next]_vars PROVE Inv'
    OBVIOUS
  <2>1. ElectionInv'
    BY ElectionStep
  <2>2. ASSUME Unharmed' PROVE VoteInv'
    <3>1. Unharmed /\ VoteInv
      BY <2>2, HarmStays
    <3> QED BY <2>2, <3>1, VoteStep
  <2> QED BY <2>1, <2>2
<1>3. Inv => OnlyHastyAnnounce
  BY LowestOfUp DEF OnlyHastyAnnounce, Unharmed
<1> QED BY <1>1, <1>2, <1>3, PTL DEF Spec

-----------------------------------------------------------------------------
(* Before anybody elects.                                                  *)

EngineKept(n) ==
    /\ alive'[n] = alive[n] /\ running'[n] = running[n] /\ spawned'[n] = spawned[n]
    /\ sent'[n] = sent[n] /\ armed'[n] = armed[n] /\ leftover'[n] = leftover[n]
    /\ stale'[n] = stale[n] /\ expired'[n] = expired[n]

EngineStepOf(n) ==
    \/ StartElection(n)
    \/ ArmTimer(n)
    \/ (leftover[n] \/ AnswersAreIn(n)) /\ OkTimerExpires(n)
    \/ StaleTimerExpires(n)
    \/ DeclareVictory(n)

VoteOf(n) == \E m \in DOMAIN net : m.to = n /\ (HandleElection(m) \/ HandleElectionOK(m))

\* Who moves the engine of a node that stays up.
LEMMA EngineMoves ==
    ASSUME ElectionInv, VoteInv, [TimelyNext]_vars, Unharmed', NEW n \in up, n \in up'
    PROVE  \/ EngineKept(n)
           \/ EngineStepOf(n)
           \/ \E k \in Nodes \ up : DeclareDead(n, k)
           \/ VoteOf(n)
<1> USE DEF ElectionInv, EngineOK, CountersOK, ViewsOK
<1>1. ASSUME NEW k \in Nodes, TimelyStep(k), k # n PROVE EngineKept(n)
  <2>1. CASE StartElection(k)
    BY <1>1, <2>1 DEF StartElection, EngineKept
  <2>2. CASE ArmTimer(k)
    BY <1>1, <2>2 DEF ArmTimer, EngineKept
  <2>3. CASE OkTimerExpires(k) \/ StaleTimerExpires(k)
    BY <1>1, <2>3 DEF OkTimerExpires, StaleTimerExpires, Callback, EngineKept
  <2>4. CASE DeclareVictory(k) \/ ClaimMastership(k)
    BY <1>1, <2>4 DEF DeclareVictory, ClaimMastership, EngineKept
  <2>5. ASSUME NEW l \in up, BackAlive(k, l) PROVE EngineKept(n)
    BY <1>1, <2>5 DEF BackAlive, engineVars, EngineKept
  <2>6. ASSUME NEW l \in Nodes \ up, DeclareDead(k, l) PROVE EngineKept(n)
    BY <1>1, <2>6 DEF DeclareDead, EngineKept
  <2> QED BY <1>1, <2>1, <2>2, <2>3, <2>4, <2>5, <2>6 DEF TimelyStep, Step
<1>2. ClaimMastership(n) => EngineKept(n)
  BY DEF ClaimMastership, EngineKept
<1>3. ASSUME NEW k \in up, BackAlive(n, k) PROVE EngineKept(n)
  BY <1>3 DEF BackAlive, VoteInv, ViewsHold
<1>4. ASSUME TimelyStep(n) PROVE \/ EngineKept(n) \/ EngineStepOf(n)
                                 \/ \E k \in Nodes \ up : DeclareDead(n, k)
  BY <1>2, <1>3, <1>4 DEF TimelyStep, Step, EngineStepOf
<1>5. ASSUME NEW m \in DOMAIN net, Handle(m) PROVE EngineKept(n) \/ VoteOf(n)
  <2>1. CASE m.to = n /\ (HandleElection(m) \/ HandleElectionOK(m))
    BY <2>1 DEF VoteOf
  <2>2. CASE m.to # n /\ (HandleElection(m) \/ HandleElectionOK(m))
    <3>1. m.to \in Nodes
      BY DEF NetOK, Deliverable, Message
    <3> QED BY <2>2, <3>1 DEF HandleElection, HandleElectionOK, EngineKept
  <2>3. CASE HandleCoordinator(m) \/ HandleNodeDead(m)
    BY <2>3 DEF HandleCoordinator, HandleNodeDead, engineVars, EngineKept
  <2> QED BY <1>5, <2>1, <2>2, <2>3 DEF Handle
<1>6. ASSUME NEW k \in Nodes, Crash(k) PROVE EngineKept(n)
  BY <1>6 DEF Crash, EngineKept
<1>7. CASE UNCHANGED vars
  BY <1>7 DEF vars, engineVars, EngineKept
<1> QED BY <1>1, <1>4, <1>5, <1>6, <1>7, HarmStays, TimelyIsNext DEF TimelyNext, Failures

\* Fewer nodes are up, and none has a rival it had not: until one comes back.
LEMMA RivalsGo ==
    ASSUME ElectionInv, [TimelyNext]_vars, Unharmed'
    PROVE  up' \subseteq up /\ \A n : Rivals(n)' \subseteq Rivals(n)
<1>1. up' \subseteq up
  <2>1. ASSUME NEW n \in Nodes, TimelyStep(n) PROVE up' = up
    BY <2>1 DEF TimelyStep, Step, StartElection, ArmTimer, DeclareVictory, BackAlive, OkTimerExpires,
                StaleTimerExpires, Callback, ClaimMastership, DeclareDead
  <2>2. ASSUME NEW m \in DOMAIN net, Handle(m) PROVE up' = up
    BY <2>2 DEF Handle, HandleElection, HandleElectionOK, HandleCoordinator, HandleNodeDead
  <2>3. ASSUME NEW n \in Nodes, Crash(n) PROVE up' \subseteq up
    BY <2>3 DEF Crash
  <2>4. CASE UNCHANGED vars
    BY <2>4 DEF vars
  <2> QED BY <2>1, <2>2, <2>3, <2>4, HarmStays, TimelyIsNext DEF TimelyNext, Failures
<1> QED BY <1>1 DEF Rivals

Quiet(n) ==
    /\ ~running[n] /\ ~armed[n]
    /\ spawned[n] = 0 /\ sent[n] = 0 /\ stale[n] = 0 /\ expired[n] = 0

Harmless(m) ==
    /\ m.type \notin {"ELECTION", "ELECTION_OK"}
    /\ m.type = "COORDINATOR" => m.id = InitialMaster

AllQuiet ==
    /\ \A n \in up : Quiet(n) /\ masterOf[n] = InitialMaster
    /\ \A m \in DOMAIN net : Harmless(m)

MasterQuiets == InitialMaster \in up => AllQuiet

\* As long as all are quiet no message that elects is sent.
LEMMA QuietNet ==
    ASSUME ElectionInv, VoteInv, AllQuiet, [TimelyNext]_vars, Unharmed'
    PROVE  /\ \A m \in DOMAIN net' : Harmless(m)
           /\ \A n \in up : masterOf'[n] = InitialMaster
<1>1. /\ \A n \in up : Quiet(n) /\ masterOf[n] = InitialMaster
      /\ \A m \in DOMAIN net : Harmless(m)
  BY DEF AllQuiet
<1>2. up \subseteq Nodes /\ masterOf \in [Nodes -> Nodes] /\ NetOK
  BY DEF ElectionInv, ViewsOK
<1> DEFINE Holds == /\ \A m \in DOMAIN net' : Harmless(m)
                    /\ \A n \in up : masterOf'[n] = InitialMaster
<1>3. ASSUME DOMAIN net' \subseteq DOMAIN net, UNCHANGED masterOf PROVE Holds
  BY <1>1, <1>3
<1>4. ASSUME NEW n \in Nodes, TimelyStep(n) PROVE Holds
  <2>1. CASE OkTimerExpires(n) \/ StaleTimerExpires(n) \/ \E k \in up : BackAlive(n, k)
    BY <1>3, <2>1 DEF OkTimerExpires, StaleTimerExpires, Callback, BackAlive
  <2>2. ~StartElection(n) /\ ~ArmTimer(n) /\ ~DeclareVictory(n)
    BY <1>1 DEF Quiet, StartElection, ArmTimer, DeclareVictory
  <2>3. CASE ClaimMastership(n)
    <3>1. n = InitialMaster /\ Win(n)
      BY <2>3 DEF ClaimMastership, VoteInv, MasterClaims
    <3>2. DOMAIN net' = DOMAIN net \cup {m \in Coordinator(n) : m.to \in up}
      BY <1>2, <3>1, SentDomain DEF Win
    <3>3. \A m \in Coordinator(n) : Harmless(m)
      BY <3>1 DEF Coordinator, Msg, Harmless
    <3> QED BY <1>1, <1>2, <3>1, <3>2, <3>3 DEF Win
  <2>4. ASSUME NEW k \in Nodes \ up, DeclareDead(n, k) PROVE Holds
    <3>1. UNCHANGED masterOf
      BY <2>4 DEF DeclareDead
    <3>2. CASE UNCHANGED net
      BY <1>3, <3>1, <3>2
    <3>3. CASE Send({Msg("NODE_DEAD", k, n, masterOf[n])})
      <4>1. DOMAIN net' = DOMAIN net \cup {m \in {Msg("NODE_DEAD", k, n, masterOf[n])} : m.to \in up}
        BY <1>2, <3>3, SentDomain
      <4>2. Harmless(Msg("NODE_DEAD", k, n, masterOf[n]))
        BY DEF Harmless, Msg
      <4> QED BY <1>1, <3>1, <4>1, <4>2
    <3> QED BY <2>4, <3>2, <3>3 DEF DeclareDead
  <2> QED BY <1>4, <2>1, <2>2, <2>3, <2>4 DEF TimelyStep, Step
<1>5. ASSUME NEW m \in DOMAIN net, Handle(m) PROVE Holds
  <2>1. Harmless(m)
    BY <1>1
  <2>2. Reply(m, {}) /\ (HandleCoordinator(m) \/ HandleNodeDead(m))
    BY <1>5, <2>1 DEF Harmless, Handle, HandleElection, HandleElectionOK, HandleCoordinator,
                      HandleNodeDead
  <2>3. DOMAIN net' \subseteq DOMAIN net
    BY <1>2, <2>2, ReplyDomain
  <2>4. CASE HandleCoordinator(m)
    <3>1. m.id = InitialMaster
      BY <2>1, <2>4 DEF Harmless, HandleCoordinator
    <3> QED BY <1>1, <1>2, <2>3, <2>4, <3>1 DEF HandleCoordinator
  <2>5. CASE HandleNodeDead(m)
    BY <1>3, <2>3, <2>5 DEF HandleNodeDead
  <2> QED BY <2>2, <2>4, <2>5
<1>6. ASSUME NEW n \in Nodes, Crash(n) PROVE Holds
  BY <1>3, <1>6 DEF Crash
<1>7. CASE UNCHANGED vars
  BY <1>3, <1>7 DEF vars
<1> QED BY <1>4, <1>5, <1>6, <1>7, HarmStays, TimelyIsNext DEF TimelyNext, Failures

\* A node stays quiet as long as it does not declare the initial master dead.
LEMMA QuietNode ==
    ASSUME ElectionInv, VoteInv, AllQuiet, [TimelyNext]_vars, Unharmed',
           NEW n \in up, n \in up',
           InitialMaster \in up \/ InitialMaster \in alive'[n]
    PROVE  Quiet(n)'
<1>1. Quiet(n) /\ masterOf[n] = InitialMaster /\ \A m \in DOMAIN net : Harmless(m)
  BY DEF AllQuiet
<1>2. ~EngineStepOf(n)
  BY <1>1 DEF EngineStepOf, Quiet, StartElection, ArmTimer, OkTimerExpires, StaleTimerExpires,
              DeclareVictory
<1>3. ~VoteOf(n)
  BY <1>1 DEF VoteOf, Harmless, HandleElection, HandleElectionOK
<1>4. CASE EngineKept(n)
  BY <1>1, <1>4 DEF EngineKept, Quiet
<1>5. ASSUME NEW k \in Nodes \ up, DeclareDead(n, k) PROVE Quiet(n)'
  <2>1. alive' = [alive EXCEPT ![n] = @ \ {k}] /\ n \in Nodes
    BY <1>5 DEF DeclareDead, ElectionInv, ViewsOK
  <2>2. k # InitialMaster
    BY <2>1 DEF ElectionInv, ViewsOK
  <2>3. UNCHANGED <<running, spawned, sent, armed, stale, expired>>
    BY <1>1, <1>5, <2>2 DEF DeclareDead
  <2> QED BY <1>1, <2>3 DEF Quiet
<1> QED BY <1>2, <1>3, <1>4, <1>5, EngineMoves

\* While the initial master is up nobody elects.
LEMMA MasterQuietsStep ==
    ASSUME ElectionInv, VoteInv, MasterQuiets, [TimelyNext]_vars, Unharmed'
    PROVE  MasterQuiets'
<1> SUFFICES ASSUME InitialMaster \in up'
             PROVE  /\ \A n \in up' : Quiet(n)' /\ masterOf'[n] = InitialMaster
                    /\ \A m \in DOMAIN net' : Harmless(m)
  BY DEF MasterQuiets, AllQuiet, Harmless
<1>1. up' \subseteq up
  BY RivalsGo
<1>2. AllQuiet
  BY <1>1 DEF MasterQuiets
<1> QED BY <1>1, <1>2, QuietNet, QuietNode

LEMMA InitialQuiet == Init => AllQuiet
<1> SUFFICES ASSUME Init PROVE AllQuiet
  OBVIOUS
<1>1. DOMAIN net = {}
  BY DEF Init, EmptyBag, SetToBag
<1>2. \A n \in up : Quiet(n) /\ masterOf[n] = InitialMaster
  BY DEF Init, Quiet
<1> QED BY <1>1, <1>2 DEF AllQuiet

-----------------------------------------------------------------------------
(* Where the nodes come to rest after one death.  Until somebody declares  *)
(* the initial master dead nothing happens, and by then nothing of it is   *)
(* under way.  The lowest of the others is never talked out of announcing  *)
(* itself; and whoever announces itself tells everybody, so that nobody    *)
(* keeps the dead master.  If nobody was hasty the lowest is the only one  *)
(* that announces itself.                                                  *)

NewsOrdered ==
    \A m \in DOMAIN net :
        /\ m.type = "COORDINATOR" => m.id = m.from /\ m.to # m.from
        /\ m.type = "ELECTION_OK" => m.from < m.to

MasterSilent == \A m \in DOMAIN net : m.from # InitialMaster

Unaware == AllQuiet /\ \A n \in up : InitialMaster \in alive[n]

\* Node n has a new master, or the announcement of one is on its way to it.
Told(n) ==
    \/ masterOf[n] # InitialMaster
    \/ \E m \in DOMAIN net : m.type = "COORDINATOR" /\ m.to = n

\* If anybody was told of a new master, everybody was.
AllTold == (\E n \in up : Told(n)) => \A n \in up : Told(n)

\* What l, the lowest node that is up, has to do while nobody was told.
Heir(l) ==
    InitialMaster \notin alive[l] =>
        masterOf[l] # InitialMaster \/ spawned[l] > 0 \/ running[l]

\* What l has done and has yet to do if nobody was hasty.
Succession(l) ==
    /\ masterOf[l] \in {InitialMaster, l}
    /\ InitialMaster \notin alive[l] => masterOf[l] = l \/ spawned[l] > 0 \/ running[l]
    /\ masterOf[l] = l =>
        \A n \in up : masterOf[n] = l \/ Msg("COORDINATOR", l, l, n) \in DOMAIN net

\* The initial master is dead and somebody knows.
Vacancy ==
    /\ MasterSilent
    /\ \A n \in up : masterOf[n] \in up \cup {InitialMaster}
    /\ AllTold
    /\ \A l \in up : Rivals(l) = {} => Heir(l) /\ (hasty = {} => Succession(l))

DeathInv ==
    /\ NewsOrdered /\ MasterQuiets
    /\ crashes = 0 => up = Nodes
    /\ InitialMaster \notin up => up = Nodes \ {InitialMaster} /\ (Unaware \/ Vacancy)

LEMMA OnlyCrashes ==
    ASSUME ElectionInv, [TimelyNext]_vars, Unharmed'
    PROVE  UNCHANGED <<up, crashes>> \/ \E n \in Nodes : Crash(n)
<1>1. ASSUME NEW n \in Nodes, TimelyStep(n) PROVE UNCHANGED <<up, crashes>>
  BY <1>1 DEF TimelyStep, Step, StartElection, ArmTimer, DeclareVictory, BackAlive, OkTimerExpires,
              StaleTimerExpires, Callback, ClaimMastership, DeclareDead, boundVars
<1>2. ASSUME NEW m \in DOMAIN net, Handle(m) PROVE UNCHANGED <<up, crashes>>
  BY <1>2 DEF Handle, HandleElection, HandleElectionOK, HandleCoordinator, HandleNodeDead, boundVars
<1>3. CASE UNCHANGED vars
  BY <1>3 DEF vars, boundVars
<1> QED BY <1>1, <1>2, <1>3, HarmStays, TimelyIsNext DEF TimelyNext, Failures

\* Who sends what.
Fresh(m) ==
    /\ m.from \in up
    /\ m.type = "COORDINATOR" => m.id = m.from /\ m.to # m.from
    /\ m.type = "ELECTION_OK" => m.from < m.to

LEMMA WinFresh ==
    ASSUME ElectionInv, NEW n \in up, Win(n)
    PROVE  /\ \A m \in DOMAIN net' : m \in DOMAIN net \/ Fresh(m)
           /\ \A m \in DOMAIN net : m \in DOMAIN net'
<1>1. DOMAIN net' = DOMAIN net \cup {m \in Coordinator(n) : m.to \in up}
  BY SentDomain DEF Win, ElectionInv
<1>2. \A m \in Coordinator(n) : Fresh(m)
  BY DEF Coordinator, Peers, Msg, Fresh
<1> QED BY <1>1, <1>2

LEMMA NewMessages ==
    ASSUME ElectionInv, VoteInv, [TimelyNext]_vars, Unharmed'
    PROVE  \A m \in DOMAIN net' : m \in DOMAIN net \/ Fresh(m)
<1> DEFINE New == \A m \in DOMAIN net' : m \in DOMAIN net \/ Fresh(m)
<1>1. ASSUME DOMAIN net' \subseteq DOMAIN net PROVE New
  BY <1>1
<1>2. ASSUME NEW n \in Nodes, TimelyStep(n) PROVE New
  <2>1. CASE Win(n) /\ n \in up
    BY <2>1, WinFresh
  <2>2. CASE UNCHANGED net
    BY <1>1, <2>2
  <2>3. CASE n \in up /\ Send({Msg("ELECTION", n, n, k) : k \in LowerNodes(n)})
    <3>1. DOMAIN net' = DOMAIN net \cup {m \in {Msg("ELECTION", n, n, k) : k \in LowerNodes(n)} : m.to \in up}
      BY <2>3, SentDomain DEF ElectionInv
    <3>2. \A m \in {Msg("ELECTION", n, n, k) : k \in LowerNodes(n)} : Fresh(m)
      BY <2>3 DEF Msg, Fresh
    <3> QED BY <3>1, <3>2
  <2>4. ASSUME n \in up, NEW k \in Nodes, Send({Msg("NODE_DEAD", k, n, masterOf[n])}) PROVE New
    <3>1. DOMAIN net' = DOMAIN net \cup {m \in {Msg("NODE_DEAD", k, n, masterOf[n])} : m.to \in up}
      BY <2>4, SentDomain DEF ElectionInv
    <3>2. Fresh(Msg("NODE_DEAD", k, n, masterOf[n]))
      BY <2>4 DEF Msg, Fresh
    <3> QED BY <3>1, <3>2
  <2>5. CASE StartElection(n)
    BY <2>1, <2>2, <2>3, <2>5 DEF StartElection
  <2>6. CASE DeclareVictory(n) \/ ClaimMastership(n)
    BY <2>1, <2>6 DEF DeclareVictory, ClaimMastership
  <2>7. CASE ArmTimer(n) \/ OkTimerExpires(n) \/ StaleTimerExpires(n) \/ \E k \in up : BackAlive(n, k)
    BY <2>2, <2>7 DEF ArmTimer, OkTimerExpires, StaleTimerExpires, Callback, BackAlive
  <2>8. ASSUME NEW k \in Nodes \ up, DeclareDead(n, k) PROVE New
    BY <2>2, <2>4, <2>8 DEF DeclareDead
  <2> QED BY <1>2, <2>5, <2>6, <2>7, <2>8 DEF TimelyStep, Step
<1>3. ASSUME NEW m \in DOMAIN net, Handle(m) PROVE New
  <2> DEFINE answer == Msg("ELECTION_OK", m.to, m.to, m.from)
  <2>1. CASE Reply(m, {})
    BY <1>1, <2>1, ReplyDomain DEF ElectionInv
  <2>2. CASE m.type = "ELECTION" /\ m.to < m.id /\ Reply(m, {answer})
    <3>1. DOMAIN net' \subseteq DOMAIN net \cup {answer}
      BY <2>2, ReplyDomain DEF ElectionInv
    <3>2. m.to \in up /\ m.id = m.from
      BY <2>2 DEF ElectionInv, NetOK, Deliverable, VoteInv, AskersNamed
    <3>3. Fresh(answer)
      BY <2>2, <3>2 DEF Fresh, Msg
    <3> QED BY <3>1, <3>3
  <2> QED BY <1>3, <2>1, <2>2 DEF Handle, HandleElection, HandleElectionOK, HandleCoordinator,
                                  HandleNodeDead
<1>4. ASSUME NEW n \in Nodes, Crash(n) PROVE New
  BY <1>1, <1>4 DEF Crash
<1>5. CASE UNCHANGED vars
  BY <1>1, <1>5 DEF vars
<1> QED BY <1>2, <1>3, <1>4, <1>5, HarmStays, TimelyIsNext DEF TimelyNext, Failures

\* The steps that take nothing of the succession back.
LEMMA SuccessionKept ==
    ASSUME NEW l \in up, Succession(l), UNCHANGED <<up, masterOf>>,
           \A m \in DOMAIN net : m.type = "COORDINATOR" => m \in DOMAIN net',
           spawned[l] > 0 \/ running[l] => spawned'[l] > 0 \/ running'[l],
           InitialMaster \in alive[l] => \/ InitialMaster \in alive'[l]
                                         \/ masterOf[l] = l \/ spawned'[l] > 0
    PROVE  Succession(l)'
<1>1. \A n : Msg("COORDINATOR", l, l, n) \in DOMAIN net => Msg("COORDINATOR", l, l, n) \in DOMAIN net'
  BY DEF Msg
<1> QED BY <1>1 DEF Succession

LEMMA SuccessionWon ==
    ASSUME ElectionInv, NEW l \in up, UNCHANGED up, Win(l)
    PROVE  Succession(l)'
<1>1. l \in Nodes /\ up \subseteq Nodes /\ masterOf'[l] = l
  BY DEF Win, ElectionInv, ViewsOK
<1>2. DOMAIN net' = DOMAIN net \cup {m \in Coordinator(l) : m.to \in up}
  BY SentDomain DEF Win, ElectionInv
<1>3. \A n \in up \ {l} : Msg("COORDINATOR", l, l, n) \in DOMAIN net'
  BY <1>1, <1>2 DEF Coordinator, Peers, Msg
<1> QED BY <1>1, <1>3 DEF Succession

\* What everybody but the lowest node sends is no news to the lowest.
LEMMA NewsOfLowest ==
    ASSUME ElectionInv, VoteInv, NewsOrdered, MasterSilent, up = Nodes \ {InitialMaster},
           NEW l \in up, Rivals(l) = {}
    PROVE  /\ \A n \in up : Rivals(n) = {} => n = l
           /\ \A m \in DOMAIN net : m.type = "ELECTION_OK" => m.to # l
           /\ hasty = {} => \A m \in DOMAIN net : m.type = "COORDINATOR" => m.id = l /\ m.to # l
<1>1. \A k \in up : k \in Nat
  BY NodesAssumption
<1>2. \A k \in up : ~(k < l)
  BY DEF Rivals
<1>3. ASSUME NEW n \in up, Rivals(n) = {} PROVE n = l
  <2>1. ~(l < n)
    BY <1>3 DEF Rivals
  <2> QED BY <1>1, <1>2, <2>1
<1>4. \A m \in DOMAIN net : m.from \in up
  BY DEF ElectionInv, NetOK, Deliverable, Message, MasterSilent
<1>5. ASSUME NEW m \in DOMAIN net, m.type = "ELECTION_OK" PROVE m.to # l
  BY <1>2, <1>4, <1>5 DEF NewsOrdered
<1>6. ASSUME hasty = {}, NEW m \in DOMAIN net, m.type = "COORDINATOR" PROVE m.id = l /\ m.to # l
  <2>1. m.from = l
    BY <1>3, <1>4, <1>6 DEF VoteInv, WinnersAnnounce, MayWin
  <2> QED BY <1>6, <2>1 DEF NewsOrdered
<1> QED BY <1>3, <1>5, <1>6

\* Only the lowest node is still to win, and what it has won stays won.
LEMMA SuccessionStep ==
    ASSUME ElectionInv, VoteInv, [TimelyNext]_vars, Unharmed', UNCHANGED up,
           NewsOrdered, MasterSilent, up = Nodes \ {InitialMaster}, hasty = {},
           NEW l \in up, Rivals(l) = {}, Succession(l)
    PROVE  Succession(l)'
<1> USE NewsOfLowest
<1>0. l \in Nodes /\ NetOK /\ masterOf \in [Nodes -> Nodes] /\ running \in [Nodes -> BOOLEAN]
      /\ spawned \in [Nodes -> Nat] /\ alive \in [Nodes -> SUBSET Nodes]
  BY DEF ElectionInv, ViewsOK, EngineOK, CountersOK
<1>1. ASSUME NEW n \in Nodes, TimelyStep(n) PROVE Succession(l)'
  <2>1. ASSUME n \in up, Rivals(n) = {}, Win(n) PROVE Succession(l)'
    BY <2>1, SuccessionWon
  <2>2. CASE StartElection(n)
    <3>0. n \in up
      BY <2>2 DEF StartElection
    <3>1. CASE LowerNodes(n) = {} /\ Win(n)
      BY <2>1, <3>0, <3>1, NobodyLower DEF VoteInv
    <3>2. CASE running[n] /\ UNCHANGED <<masterOf, running, net>>
      <4>1. spawned'[l] = spawned[l] \/ running'[l]
        BY <1>0, <2>2, <3>2 DEF StartElection
      <4>2. UNCHANGED alive
        BY <2>2 DEF StartElection
      <4> QED BY <3>2, <4>1, <4>2, SuccessionKept
    <3>3. CASE /\ running' = [running EXCEPT ![n] = TRUE]
               /\ Send({Msg("ELECTION", n, n, k) : k \in LowerNodes(n)})
               /\ UNCHANGED masterOf
      <4>1. spawned'[l] = spawned[l] \/ running'[l]
        BY <1>0, <2>2, <3>3 DEF StartElection
      <4>2. running[l] => running'[l]
        BY <1>0, <3>3
      <4>3. UNCHANGED alive
        BY <2>2 DEF StartElection
      <4>4. DOMAIN net \subseteq DOMAIN net'
        BY <1>0, <3>3, SentDomain
      <4> QED BY <3>3, <4>1, <4>2, <4>3, <4>4, SuccessionKept
    <3> QED BY <2>2, <3>1, <3>2, <3>3 DEF StartElection
  <2>3. CASE ArmTimer(n) \/ OkTimerExpires(n) \/ StaleTimerExpires(n)
    <3>1. UNCHANGED <<masterOf, running, spawned, alive, net>>
      BY <2>3 DEF ArmTimer, OkTimerExpires, StaleTimerExpires, Callback
    <3> QED BY <3>1, SuccessionKept
  <2>4. CASE DeclareVictory(n)
    <3>1. n \in up /\ Win(n) /\ Rivals(n) = {}
      BY <2>4 DEF DeclareVictory, VoteInv, WinnersExpire, MayWin
    <3> QED BY <2>1, <3>1
  <2>5. ~ClaimMastership(n)
    BY DEF ClaimMastership, VoteInv, MasterClaims
  <2>6. ~\E k \in up : BackAlive(n, k)
    BY DEF BackAlive, VoteInv, ViewsHold
  <2>7. ASSUME NEW k \in Nodes \ up, DeclareDead(n, k) PROVE Succession(l)'
    <3>1. k = InitialMaster /\ UNCHANGED <<masterOf, running>>
      BY <2>7 DEF DeclareDead
    <3>2. DOMAIN net \subseteq DOMAIN net'
      <4>1. CASE UNCHANGED net
        BY <4>1
      <4>2. CASE Send({Msg("NODE_DEAD", k, n, masterOf[n])})
        BY <1>0, <4>2, SentDomain
      <4> QED BY <2>7, <4>1, <4>2 DEF DeclareDead
    <3>3. spawned[l] > 0 => spawned'[l] > 0
      BY <1>0, <2>7 DEF DeclareDead
    <3>4. CASE n # l
      <4>1. alive'[l] = alive[l]
        BY <1>0, <2>7, <3>4 DEF DeclareDead
      <4> QED BY <3>1, <3>2, <3>3, <4>1, SuccessionKept
    <3>5. CASE n = l
      <4>1. masterOf[l] = InitialMaster => spawned'[l] > 0
        BY <1>0, <2>7, <3>1, <3>5 DEF DeclareDead
      <4> QED BY <3>1, <3>2, <3>3, <4>1, SuccessionKept DEF Succession
    <3> QED BY <3>4, <3>5
  <2> QED BY <1>1, <2>2, <2>3, <2>4, <2>5, <2>6, <2>7 DEF TimelyStep, Step
<1>2. ASSUME NEW m \in DOMAIN net, Handle(m) PROVE Succession(l)'
  <2>1. /\ m.type = "ELECTION_OK" => m.to # l
        /\ m.type = "COORDINATOR" => m.id = l /\ m.to # l
    OBVIOUS
  <2>2. \A S : Reply(m, S) => \A k \in DOMAIN net : k = m \/ k \in DOMAIN net'
    BY <1>0, ReplyDomain
  <2>3. CASE HandleElection(m)
    <3>1. m.type = "ELECTION" /\ UNCHANGED <<masterOf, running, alive>>
      BY <2>3 DEF HandleElection
    <3>2. \A k \in DOMAIN net : k = m \/ k \in DOMAIN net'
      BY <2>2, <2>3 DEF HandleElection
    <3>3. spawned[l] > 0 => spawned'[l] > 0
      BY <1>0, <2>3 DEF HandleElection
    <3> QED BY <3>1, <3>2, <3>3, SuccessionKept
  <2>4. CASE HandleElectionOK(m)
    <3>1. m.type = "ELECTION_OK" /\ UNCHANGED <<masterOf, spawned, alive>>
      BY <2>4 DEF HandleElectionOK
    <3>2. \A k \in DOMAIN net : k = m \/ k \in DOMAIN net'
      BY <2>2, <2>4 DEF HandleElectionOK
    <3>3. running'[l] = running[l]
      BY <1>0, <2>1, <2>4 DEF HandleElectionOK
    <3> QED BY <3>1, <3>2, <3>3, SuccessionKept
  <2>5. CASE HandleNodeDead(m)
    <3>1. m.type = "NODE_DEAD" /\ UNCHANGED <<masterOf, running, spawned, alive>>
      BY <2>5 DEF HandleNodeDead, engineVars
    <3>2. \A k \in DOMAIN net : k = m \/ k \in DOMAIN net'
      BY <2>2, <2>5 DEF HandleNodeDead
    <3> QED BY <3>1, <3>2, SuccessionKept
  <2>6. CASE HandleCoordinator(m)
    <3>1. m.id = l /\ m.to # l /\ masterOf' = [masterOf EXCEPT ![m.to] = m.id]
      BY <2>1, <2>6 DEF HandleCoordinator
    <3>2. \A k \in DOMAIN net : k = m \/ k \in DOMAIN net'
      BY <2>2, <2>6 DEF HandleCoordinator
    <3>3. UNCHANGED <<running, spawned, alive>>
      BY <2>6 DEF HandleCoordinator, engineVars
    <3>4. masterOf'[l] = masterOf[l]
      BY <1>0, <3>1
    <3>5. ASSUME masterOf[l] = l, NEW n \in up
          PROVE  masterOf'[n] = l \/ Msg("COORDINATOR", l, l, n) \in DOMAIN net'
      <4>1. CASE n = m.to
        BY <1>0, <3>1, <4>1
      <4>2. CASE n # m.to
        <5>1. masterOf'[n] = masterOf[n]
          BY <1>0, <3>1, <4>2
        <5>2. Msg("COORDINATOR", l, l, n) # m
          BY <4>2 DEF Msg
        <5> QED BY <3>2, <3>5, <5>1, <5>2 DEF Succession
      <4> QED BY <4>1, <4>2
    <3> QED BY <3>3, <3>4, <3>5 DEF Succession
  <2> QED BY <1>2, <2>3, <2>4, <2>5, <2>6 DEF Handle
<1>3. ~\E n \in Nodes : Crash(n)
  BY DEF Crash
<1>4. CASE UNCHANGED vars
  <2>1. UNCHANGED <<masterOf, running, spawned, alive, net>>
    BY <1>4 DEF vars, engineVars
  <2> QED BY <2>1, SuccessionKept
<1> QED BY <1>1, <1>2, <1>3, <1>4, HarmStays, TimelyIsNext DEF TimelyNext, Failures

\* Who declares a node dead has handled, like everybody else, what it sent.
LEMMA LastWords ==
    ASSUME ElectionInv, [TimelyNext]_vars, Unharmed',
           NEW n \in Nodes, NEW k \in alive[n], k \notin alive'[n]
    PROVE  LastWordsAreIn(k)
<1>1. alive \in [Nodes -> SUBSET Nodes]
  BY DEF ElectionInv, ViewsOK
<1>2. alive' # alive
  OBVIOUS
<1>3. ASSUME NEW p \in Nodes, TimelyStep(p) PROVE LastWordsAreIn(k)
  <2>1. ~(StartElection(p) \/ ArmTimer(p) \/ OkTimerExpires(p) \/ StaleTimerExpires(p))
    BY <1>2 DEF StartElection, ArmTimer, OkTimerExpires, StaleTimerExpires, Callback
  <2>2. ~(DeclareVictory(p) \/ ClaimMastership(p))
    BY <1>2 DEF DeclareVictory, ClaimMastership
  <2>3. ~\E q \in up : BackAlive(p, q)
    BY <1>1 DEF BackAlive
  <2>4. PICK q \in Nodes \ up : LastWordsAreIn(q) /\ DeclareDead(p, q)
    BY <1>3, <2>1, <2>2, <2>3 DEF TimelyStep, Step
  <2>5. q = k
    BY <1>1, <2>4 DEF DeclareDead
  <2> QED BY <2>4, <2>5
<1>4. ~\E m \in DOMAIN net : Handle(m)
  BY <1>2 DEF Handle, HandleElection, HandleElectionOK, HandleCoordinator, HandleNodeDead
<1>5. ~\E p \in Nodes : Crash(p)
  BY <1>2 DEF Crash
<1>6. ~UNCHANGED vars
  BY <1>2 DEF vars
<1> QED BY <1>3, <1>4, <1>5, <1>6, HarmStays, TimelyIsNext DEF TimelyNext, Failures

LEMMA HasteStays ==
    ASSUME [TimelyNext]_vars
    PROVE  hasty \subseteq hasty'
<1>1. ASSUME NEW n \in Nodes, TimelyStep(n) PROVE hasty \subseteq hasty'
  BY <1>1 DEF TimelyStep, Step, StartElection, ArmTimer, DeclareVictory, BackAlive, OkTimerExpires,
              StaleTimerExpires, Callback, ClaimMastership, DeclareDead
<1>2. ASSUME NEW m \in DOMAIN net, Handle(m) PROVE hasty \subseteq hasty'
  BY <1>2 DEF Handle, HandleElection, HandleElectionOK, HandleCoordinator, HandleNodeDead
<1>3. ASSUME NEW n \in Nodes, Crash(n) \/ Restart(n) PROVE hasty \subseteq hasty'
  BY <1>3 DEF Crash, Restart
<1>4. ASSUME NEW n \in Nodes, NEW k \in Nodes, SuspectLive(n, k) PROVE hasty \subseteq hasty'
  BY <1>4 DEF SuspectLive, DeclareDead
<1>5. CASE UNCHANGED vars
  BY <1>5 DEF vars
<1> QED BY <1>1, <1>2, <1>3, <1>4, <1>5 DEF TimelyNext, Failures

NewsKept ==
    /\ UNCHANGED masterOf
    /\ \A m : m.type = "COORDINATOR" => (m \in DOMAIN net' <=> m \in DOMAIN net)

\* Who has a new master has won or has handled an announcement.
LEMMA NewsMoves ==
    ASSUME ElectionInv, [TimelyNext]_vars, Unharmed', UNCHANGED up
    PROVE  \/ NewsKept
           \/ \E n \in up : Win(n)
           \/ \E m \in DOMAIN net : HandleCoordinator(m)
<1>0. NetOK /\ up \subseteq Nodes
  BY DEF ElectionInv, ViewsOK
<1>1. ASSUME UNCHANGED <<masterOf, net>> PROVE NewsKept
  BY <1>1 DEF NewsKept
<1>2. ASSUME UNCHANGED masterOf, NEW S, Send(S), \A m \in S : m.type # "COORDINATOR" PROVE NewsKept
  <2>1. DOMAIN net' = DOMAIN net \cup {m \in S : m.to \in up}
    BY <1>0, <1>2, SentDomain
  <2> QED BY <1>2, <2>1 DEF NewsKept
<1>3. ASSUME NEW n \in Nodes, TimelyStep(n) PROVE NewsKept \/ (n \in up /\ Win(n))
  <2>1. CASE StartElection(n)
    <3>1. \A m \in {Msg("ELECTION", n, n, k) : k \in LowerNodes(n)} : m.type # "COORDINATOR"
      BY DEF Msg
    <3>2. CASE UNCHANGED masterOf /\ Send({Msg("ELECTION", n, n, k) : k \in LowerNodes(n)})
      BY <1>2, <3>1, <3>2
    <3> QED BY <1>1, <2>1, <3>2 DEF StartElection
  <2>2. CASE ArmTimer(n) \/ OkTimerExpires(n) \/ StaleTimerExpires(n) \/ \E k \in up : BackAlive(n, k)
    BY <1>1, <2>2 DEF ArmTimer, OkTimerExpires, StaleTimerExpires, Callback, BackAlive
  <2>3. CASE DeclareVictory(n) \/ ClaimMastership(n)
    BY <2>3 DEF DeclareVictory, ClaimMastership
  <2>4. ASSUME NEW k \in Nodes \ up, DeclareDead(n, k) PROVE NewsKept
    <3>1. \A m \in {Msg("NODE_DEAD", k, n, masterOf[n])} : m.type # "COORDINATOR"
      BY DEF Msg
    <3>2. UNCHANGED masterOf
      BY <2>4 DEF DeclareDead
    <3>3. CASE Send({Msg("NODE_DEAD", k, n, masterOf[n])})
      BY <1>2, <3>1, <3>2, <3>3
    <3> QED BY <1>1, <2>4, <3>2, <3>3 DEF DeclareDead
  <2> QED BY <1>3, <2>1, <2>2, <2>3, <2>4 DEF TimelyStep, Step
<1>4. ASSUME NEW m \in DOMAIN net, HandleElection(m) \/ HandleElectionOK(m) \/ HandleNodeDead(m)
      PROVE  NewsKept
  <2> DEFINE answer == Msg("ELECTION_OK", m.to, m.to, m.from)
  <2>1. m.type # "COORDINATOR" /\ answer.type # "COORDINATOR" /\ UNCHANGED masterOf
    BY <1>4 DEF HandleElection, HandleElectionOK, HandleNodeDead, Msg
  <2>2. Reply(m, {}) \/ Reply(m, {answer})
    BY <1>4 DEF HandleElection, HandleElectionOK, HandleNodeDead
  <2>3. /\ DOMAIN net' \subseteq DOMAIN net \cup {answer}
        /\ \A k \in DOMAIN net : k = m \/ k \in DOMAIN net'
    BY <1>0, <2>2, ReplyDomain
  <2> HIDE DEF answer
  <2> QED BY <2>1, <2>3 DEF NewsKept
<1>5. ~\E n \in Nodes : Crash(n)
  BY <1>0 DEF Crash
<1>6. CASE UNCHANGED vars
  BY <1>1, <1>6 DEF vars
<1> QED BY <1>3, <1>4, <1>5, <1>6, HarmStays, TimelyIsNext DEF TimelyNext, Failures, Handle

\* Nobody returns to the dead master, and whoever tells one node tells all.
LEMMA ToldStep ==
    ASSUME ElectionInv, [TimelyNext]_vars, Unharmed', UNCHANGED up, NewsOrdered, Vacancy,
           up = Nodes \ {InitialMaster}
    PROVE  /\ \A n \in up : masterOf'[n] \in up \cup {InitialMaster}
           /\ \A n \in up : masterOf[n] # InitialMaster => masterOf'[n] # InitialMaster
           /\ AllTold'
<1>0. /\ masterOf \in [Nodes -> Nodes] /\ NetOK
      /\ \A n \in up : masterOf[n] \in up \cup {InitialMaster}
  BY DEF ElectionInv, ViewsOK, Vacancy
<1> DEFINE Goal == /\ \A n \in up : masterOf'[n] \in up \cup {InitialMaster}
                   /\ \A n \in up : masterOf[n] # InitialMaster => masterOf'[n] # InitialMaster
                   /\ AllTold'
<1>1. CASE NewsKept
  <2>1. \A n : Told(n)' <=> Told(n)
    BY <1>1 DEF NewsKept, Told
  <2> QED BY <1>0, <1>1, <2>1 DEF NewsKept, Vacancy, AllTold
<1>2. ASSUME NEW k \in up, Win(k) PROVE Goal
  <2>1. DOMAIN net' = DOMAIN net \cup {m \in Coordinator(k) : m.to \in up}
    BY <1>0, <1>2, SentDomain DEF Win
  <2>2. masterOf' = [masterOf EXCEPT ![k] = k] /\ k \in Nodes /\ k # InitialMaster
    BY <1>2 DEF Win
  <2>3. ASSUME NEW n \in up PROVE Told(n)'
    <3>1. CASE n = k
      BY <1>0, <2>2, <3>1 DEF Told
    <3>2. CASE n # k
      <4>1. Msg("COORDINATOR", k, k, n) \in DOMAIN net'
        BY <2>1, <3>2 DEF Coordinator, Peers, Msg
      <4> QED BY <4>1 DEF Told, Msg
    <3> QED BY <3>1, <3>2
  <2>4. AllTold'
    BY <2>3 DEF AllTold
  <2> QED BY <1>0, <2>2, <2>4
<1>3. ASSUME NEW m \in DOMAIN net, HandleCoordinator(m) PROVE Goal
  <2>1. /\ m.type = "COORDINATOR" /\ masterOf' = [masterOf EXCEPT ![m.to] = m.id]
        /\ \A k \in DOMAIN net : k = m \/ k \in DOMAIN net'
    BY <1>0, <1>3, ReplyDomain DEF HandleCoordinator
  <2>2. m.id \in up /\ m.id # InitialMaster /\ m.to \in up
    BY <1>0, <2>1 DEF NetOK, Deliverable, Message, NewsOrdered, Vacancy, MasterSilent
  <2>3. Told(m.to)
    BY <2>1 DEF Told
  <2>4. ASSUME NEW n \in up PROVE Told(n)'
    <3>1. Told(n)
      BY <2>2, <2>3 DEF Vacancy, AllTold
    <3>2. CASE n = m.to
      BY <1>0, <2>1, <2>2, <3>2 DEF Told
    <3>3. CASE n # m.to
      BY <1>0, <2>1, <3>1, <3>3 DEF Told
    <3> QED BY <3>2, <3>3
  <2>5. AllTold'
    BY <2>4 DEF AllTold
  <2> QED BY <1>0, <2>1, <2>2, <2>5
<1> QED BY <1>1, <1>2, <1>3, NewsMoves

\* Nothing talks the lowest node out of the election it owes.
LEMMA HeirStep ==
    ASSUME ElectionInv, VoteInv, [TimelyNext]_vars, Unharmed', UNCHANGED up, NewsOrdered, Vacancy,
           up = Nodes \ {InitialMaster}, NEW l \in up, Rivals(l) = {}
    PROVE  Heir(l)'
<1>0. /\ l \in Nodes /\ l \in up' /\ Heir(l) /\ MasterSilent
      /\ running \in [Nodes -> BOOLEAN] /\ spawned \in [Nodes -> Nat]
      /\ alive \in [Nodes -> SUBSET Nodes] /\ masterOf \in [Nodes -> Nodes]
  BY DEF ElectionInv, ViewsOK, EngineOK, CountersOK, Vacancy
<1>1. masterOf[l] # InitialMaster => masterOf'[l] # InitialMaster
  BY ToldStep
<1>2. ASSUME alive'[l] = alive[l], spawned[l] > 0 \/ running[l] => spawned'[l] > 0 \/ running'[l]
      PROVE  Heir(l)'
  BY <1>0, <1>1, <1>2 DEF Heir
<1>3. ASSUME Win(l) PROVE Heir(l)'
  BY <1>0, <1>3 DEF Win, Heir
<1>4. CASE EngineKept(l)
  BY <1>2, <1>4 DEF EngineKept
<1>5. CASE EngineStepOf(l)
  <2>1. CASE StartElection(l)
    <3>1. CASE running[l] /\ UNCHANGED running
      BY <1>2, <2>1, <3>1 DEF StartElection
    <3>2. CASE running' = [running EXCEPT ![l] = TRUE]
      <4>1. running'[l]
        BY <1>0, <3>2
      <4> QED BY <1>2, <2>1, <4>1 DEF StartElection
    <3> QED BY <1>3, <2>1, <3>1, <3>2 DEF StartElection
  <2>2. CASE ArmTimer(l) \/ OkTimerExpires(l) \/ StaleTimerExpires(l)
    BY <1>2, <2>2 DEF ArmTimer, OkTimerExpires, StaleTimerExpires, Callback
  <2>3. CASE DeclareVictory(l)
    BY <1>3, <2>3 DEF DeclareVictory
  <2> QED BY <1>5, <2>1, <2>2, <2>3 DEF EngineStepOf
<1>6. ASSUME NEW k \in Nodes \ up, DeclareDead(l, k) PROVE Heir(l)'
  <2>1. k = InitialMaster /\ running'[l] = running[l]
    BY <1>6 DEF DeclareDead
  <2>2. spawned[l] > 0 \/ masterOf[l] = InitialMaster => spawned'[l] > 0
    BY <1>0, <1>6, <2>1 DEF DeclareDead
  <2>3. masterOf[l] = InitialMaster \/ masterOf'[l] # InitialMaster
    BY <1>1
  <2> QED BY <2>2, <2>3 DEF Heir
<1>7. ASSUME NEW m \in DOMAIN net, m.to = l, HandleElection(m) PROVE Heir(l)'
  <2>1. spawned[l] > 0 => spawned'[l] > 0
    BY <1>0, <1>7 DEF HandleElection
  <2> QED BY <1>2, <1>7, <2>1 DEF HandleElection
<1>8. ~\E m \in DOMAIN net : m.to = l /\ HandleElectionOK(m)
  BY <1>0, NewsOfLowest DEF HandleElectionOK
<1> QED BY <1>0, <1>4, <1>5, <1>6, <1>7, <1>8, EngineMoves DEF VoteOf

LEMMA VacancyStep ==
    ASSUME ElectionInv, VoteInv, [TimelyNext]_vars, Unharmed', UNCHANGED up, NewsOrdered, Vacancy,
           up = Nodes \ {InitialMaster}
    PROVE  Vacancy'
<1>1. MasterSilent'
  <2>1. \A m \in DOMAIN net' : m.from # InitialMaster
    BY NewMessages DEF Vacancy, MasterSilent, Fresh
  <2> QED BY <2>1 DEF MasterSilent
<1>2. ASSUME NEW l \in up', Rivals(l)' = {} PROVE Heir(l)' /\ (hasty' = {} => Succession(l)')
  <2>1. l \in up /\ Rivals(l) = {}
    BY <1>2 DEF Rivals
  <2>2. Heir(l)'
    BY <2>1, HeirStep
  <2>3. ASSUME hasty' = {} PROVE Succession(l)'
    <3>1. hasty = {}
      BY <2>3, HasteStays
    <3> QED BY <2>1, <3>1, SuccessionStep DEF Vacancy
  <2> QED BY <2>2, <2>3
<1>3. AllTold'
  BY ToldStep
<1>4. \A n \in up : masterOf'[n] \in up \cup {InitialMaster}
  BY ToldStep
<1>5. \A n \in up' : masterOf'[n] \in up' \cup {InitialMaster}
  BY <1>4
<1>6. \A l \in up' : Rivals(l)' = {} => Heir(l)' /\ (hasty' = {} => Succession(l)')
  BY <1>2
<1> QED BY <1>1, <1>3, <1>5, <1>6 DEF Vacancy

\* Before anybody knows nobody was told.
LEMMA FirstNews ==
    ASSUME ElectionInv, NewsOrdered, MasterSilent, AllQuiet, InitialMaster \notin up,
           \A n \in up : InitialMaster \in alive[n]
    PROVE  Vacancy
<1>1. \A n \in up : masterOf[n] = InitialMaster
  BY DEF AllQuiet
<1>2. \A m \in DOMAIN net : m.type # "COORDINATOR"
  BY DEF AllQuiet, Harmless, NewsOrdered, MasterSilent
<1>3. AllTold
  BY <1>1, <1>2 DEF AllTold, Told
<1>4. \A l \in up : Heir(l) /\ Succession(l)
  BY <1>1 DEF Heir, Succession
<1> QED BY <1>1, <1>3, <1>4 DEF Vacancy

LEMMA DeathStep ==
    ASSUME ElectionInv, ElectionInv', VoteInv, DeathInv, [TimelyNext]_vars, Unharmed', crashes' <= 1
    PROVE  DeathInv'
<1>1. NewsOrdered' /\ MasterQuiets'
  <2>1. NewsOrdered'
    <3>1. NewsOrdered
      BY DEF DeathInv
    <3>2. ASSUME NEW m \in DOMAIN net'
          PROVE  /\ m.type = "COORDINATOR" => m.id = m.from /\ m.to # m.from
                 /\ m.type = "ELECTION_OK" => m.from < m.to
      BY <3>1, <3>2, NewMessages DEF NewsOrdered, Fresh
    <3> QED BY <3>2 DEF NewsOrdered
  <2> QED BY <2>1, MasterQuietsStep DEF DeathInv
<1>2. up \subseteq Nodes /\ InitialMaster \in Nodes
  BY MasterAssumption DEF ElectionInv, ViewsOK
<1>3. ASSUME NEW n \in Nodes, Crash(n) PROVE DeathInv'
  <2>1. /\ crashes = 0 /\ crashes' = 1 /\ up' = up \ {n} /\ UNCHANGED alive
    BY <1>3 DEF Crash, ElectionInv, BoundsOK
  <2>2. up = Nodes /\ AllQuiet
    BY <1>2, <2>1 DEF DeathInv, MasterQuiets
  <2>3. ASSUME InitialMaster \notin up' PROVE up' = Nodes \ {InitialMaster} /\ Unaware'
    <3>1. up' = Nodes \ {InitialMaster}
      BY <1>2, <2>1, <2>2, <2>3
    <3>2. \A m \in DOMAIN net' : Harmless(m)
      BY <2>2, QuietNet
    <3>3. \A k \in up' : Quiet(k)' /\ masterOf'[k] = InitialMaster
      BY <1>2, <2>2, <3>1, QuietNet, QuietNode
    <3>4. \A k \in up' : InitialMaster \in alive'[k]
      BY <1>2, <2>1, <2>2 DEF VoteInv, ViewsHold
    <3> QED BY <3>1, <3>2, <3>3, <3>4 DEF Unaware, AllQuiet, Harmless
  <2> QED BY <1>1, <2>1, <2>3 DEF DeathInv
<1>4. CASE UNCHANGED <<up, crashes>>
  <2>1. ASSUME InitialMaster \notin up PROVE Unaware' \/ Vacancy'
    <3>1. up = Nodes \ {InitialMaster} /\ NewsOrdered
      BY <2>1 DEF DeathInv
    <3>2. CASE Vacancy
      BY <1>4, <3>1, <3>2, VacancyStep
    <3>3. CASE Unaware
      <4>1. AllQuiet /\ \A n \in up : InitialMaster \in alive[n]
        BY <3>3 DEF Unaware
      <4>2. CASE \A n \in up : InitialMaster \in alive'[n]
        <5>1. \A m \in DOMAIN net' : Harmless(m)
          BY <4>1, QuietNet
        <5>2. \A n \in up : Quiet(n)' /\ masterOf'[n] = InitialMaster
          BY <1>4, <4>1, <4>2, QuietNet, QuietNode
        <5> QED BY <1>4, <4>2, <5>1, <5>2 DEF Unaware, AllQuiet, Harmless
      <4>3. CASE \E n \in up : InitialMaster \notin alive'[n]
        <5>1. MasterSilent
          BY <1>2, <4>1, <4>3, LastWords DEF LastWordsAreIn, MasterSilent
        <5>2. Vacancy
          BY <2>1, <3>1, <4>1, <5>1, FirstNews
        <5> QED BY <3>2, <5>2
      <4> QED BY <4>2, <4>3
    <3> QED BY <2>1, <3>2, <3>3 DEF DeathInv
  <2>2. crashes' = 0 => up' = Nodes
    BY <1>4 DEF DeathInv
  <2>3. InitialMaster \notin up' => up' = Nodes \ {InitialMaster}
    BY <1>4 DEF DeathInv
  <2> QED BY <1>1, <1>4, <2>1, <2>2, <2>3 DEF DeathInv
<1> QED BY <1>3, <1>4, OnlyCrashes

\* The lowest of the nodes that are up: there is one.
LEMMA SomeLowest ==
    ASSUME NEW S \in SUBSET Nodes, S # {}
    PROVE  \E l \in S : (\A k \in S : ~(k < l)) /\ Lowest(S) = l
<1>1. S \subseteq Nat
  BY NodesAssumption
<1>2. PICK l \in S : \A k \in S : <<k, l>> \notin OpToRel(<, Nat)
  BY <1>1, NatLessThanWellFounded, WFMin
<1>3. \A k \in S : ~(k < l)
  BY <1>1, <1>2 DEF OpToRel
<1>4. \A k \in S : l <= k
  BY <1>1, <1>3
<1>5. \A n \in S : (\A k \in S : n <= k) => n = l
  BY <1>1, <1>4
<1> QED BY <1>3, <1>4, <1>5 DEF Lowest

LEMMA RestOfDeath ==
    ASSUME MasterIsLowest, ElectionInv, DeathInv, Settled
    PROVE  (\A n \in up : masterOf[n] \in up) /\ (hasty = {} => LowestIsMaster)
<1> SUFFICES ASSUME NEW n \in up
             PROVE  masterOf[n] \in up /\ (hasty = {} => masterOf[n] = Lowest(up))
  BY DEF LowestIsMaster
<1>1. up \subseteq Nodes
  BY DEF ElectionInv, ViewsOK
<1>2. PICK l \in up : (\A k \in up : ~(k < l)) /\ Lowest(up) = l
  BY <1>1, SomeLowest
<1>3. CASE InitialMaster \in up
  <2>1. masterOf[n] = InitialMaster
    BY <1>3 DEF DeathInv, MasterQuiets, AllQuiet
  <2>2. InitialMaster <= l /\ ~(InitialMaster < l) /\ l \in Nat /\ InitialMaster \in Nat
    BY <1>1, <1>2, <1>3, NodesAssumption, MasterAssumption DEF MasterIsLowest
  <2>3. l = InitialMaster
    BY <2>2
  <2> QED BY <1>2, <2>1, <2>3
<1>4. CASE InitialMaster \notin up
  <2>1. /\ net = EmptyBag /\ alive[n] = up /\ alive[l] = up
        /\ ~running[l] /\ spawned[l] = 0
    BY DEF Settled
  <2>2. Vacancy /\ Rivals(l) = {}
    BY <1>2, <1>4, <2>1 DEF DeathInv, Unaware, Rivals
  <2>3. DOMAIN net = {}
    BY <2>1 DEF EmptyBag, SetToBag
  <2>4. ~(spawned[l] > 0)
    BY <2>1
  <2>5. masterOf[l] # InitialMaster
    BY <1>4, <2>1, <2>2, <2>4 DEF Vacancy, Heir
  <2>6. masterOf[n] # InitialMaster /\ masterOf[n] \in up
    BY <2>2, <2>3, <2>5 DEF Vacancy, AllTold, Told
  <2>7. ASSUME hasty = {} PROVE masterOf[n] = l
    <3>1. Succession(l)
      BY <2>2, <2>7 DEF Vacancy
    <3> QED BY <2>3, <2>5, <3>1 DEF Succession
  <2> QED BY <1>2, <2>6, <2>7
<1> QED BY <1>3, <1>4

LEMMA InitialDeath == Init => DeathInv
<1> SUFFICES ASSUME Init PROVE DeathInv
  OBVIOUS
<1>1. DOMAIN net = {} /\ up = Nodes
  BY DEF Init, EmptyBag, SetToBag
<1>2. NewsOrdered /\ MasterQuiets
  BY <1>1, InitialQuiet DEF NewsOrdered, MasterQuiets
<1> QED BY <1>1, <1>2, MasterAssumption DEF DeathInv

\* One more step after at most one death.
LEMMA DeathNext ==
    ASSUME ElectionInv, ElectionInv', VoteInv, crashes <= 1 => DeathInv, [TimelyNext]_vars, Unharmed'
    PROVE  crashes' <= 1 => DeathInv'
<1>1. crashes \in Nat
  BY DEF ElectionInv, BoundsOK
<1>2. crashes' = crashes \/ crashes' = crashes + 1
  <2>1. \A n \in Nodes : Crash(n) => crashes' = crashes + 1
    BY DEF Crash
  <2> QED BY <2>1, OnlyCrashes
<1>3. crashes' <= 1 => crashes <= 1
  BY <1>1, <1>2
<1> QED BY <1>3, DeathStep

\* "el maestro cayo - necesitamos elegir uno nuevo" (heartbeat.go:158), after at
\* most one death and on any number of nodes, whatever timers of old elections
\* are left: when the nodes have come to rest no node that is up keeps the dead
\* one for the master; and if no timer cut an election short to which an answer
\* was still to come, the master of all is the lowest of them, "el nodo con menor
\* ID tiene mayor prioridad y gana la eleccion" (election.go:21).
THEOREM OneDeathSettles ==
    ASSUME MasterIsLowest
    PROVE  TimelySpec => []RestAfterOneDeath
<1> DEFINE Inv == ElectionInv /\ (Unharmed => VoteInv /\ (crashes <= 1 => DeathInv))
<1>1. Init => Inv
  BY InitialElection, InitialVotes, InitialDeath
<1>2. Inv /\ [TimelyNext]_vars => Inv'
  <2> SUFFICES ASSUME Inv, [TimelyNext]_vars PROVE Inv'
    OBVIOUS
  <2>1. [Next]_vars /\ ElectionInv'
    BY ElectionStep, TimelyIsNext
  <2>2. ASSUME Unharmed' PROVE VoteInv' /\ (crashes' <= 1 => DeathInv')
    <3>1. Unharmed /\ VoteInv /\ (crashes <= 1 => DeathInv)
      BY <2>1, <2>2, HarmStays
    <3> QED BY <2>1, <2>2, <3>1, VoteStep, DeathNext
  <2> QED BY <2>1, <2>2
<1>3. Inv => RestAfterOneDeath
  <2> SUFFICES ASSUME Inv, restarts = 0, suspicions = 0, crashes <= 1, Settled
               PROVE  (\A n \in up : masterOf[n] \in up) /\ (hasty = {} => LowestIsMaster)
    BY DEF RestAfterOneDeath, SettledOnLive, SettledOnLowest
  <2>1. DeathInv
    BY DEF Unharmed
  <2> QED BY <2>1, RestOfDeath
<1> QED BY <1>1, <1>2, <1>3, PTL DEF TimelySpec

=============================================================================
