---------------------------- MODULE DeviceProofs -----------------------------
(***************************************************************************)
(* The devices the master distributes are spread evenly over the           *)
(* engineers: proofs about DeviceService for any nodes, engineers, devices *)
(* and attempts.                                                           *)
(***************************************************************************)
EXTENDS DeviceService, FiniteSetTheorems, TLAPS

-----------------------------------------------------------------------------
(* The types.  A row is the one its device was given, so an engineer has no *)
(* more rows than there are devices.                                        *)

Proposed(d) == place[d] \in {"propose", "COMMIT", "applied"}

DeviceInv ==
    /\ TypeOK
    /\ \A d \in Devices : d > added => place[d] = "menu"
    /\ \A d \in Devices : Proposed(d) =>
            row[d] \in Row /\ row[d].device = d /\ row[d].id[1] = Sucursal[row[d].ingeniero]
    /\ \A r \in dispositivos : place[r.device] = "applied" /\ r = row[r.device]

LEMMA RowsFinite ==
    ASSUME DeviceInv
    PROVE  /\ IsFiniteSet(dispositivos)
           /\ \A e : DevicesOf(e) \in 0..MaxDevices
<1>1. \A S : S \subseteq dispositivos => IsFiniteSet(S) /\ Cardinality(S) \in 0..MaxDevices
  <2> SUFFICES ASSUME NEW S, S \subseteq dispositivos
               PROVE  IsFiniteSet(S) /\ Cardinality(S) \in 0..MaxDevices
    OBVIOUS
  <2> DEFINE f == [r \in S |-> r.device]
  <2>1. \A r \in S : r.device \in Devices /\ r = row[r.device]
    BY DEF DeviceInv, TypeOK, Row
  <2>2. f \in Injection(S, Devices)
    <3>1. \A r \in S : f[r] = r.device
      OBVIOUS
    <3>2. f \in [S -> Devices]
      BY <2>1
    <3> HIDE DEF f
    <3>3. \A r, s \in S : f[r] = f[s] => r = s
      BY <2>1, <3>1
    <3> QED BY <3>2, <3>3 DEF Injection, IsInjective
  <2>3. IsFiniteSet(Devices) /\ Cardinality(Devices) = MaxDevices
    BY BoundsAssumption, FS_Interval DEF Devices
  <2> HIDE DEF f
  <2>4. IsFiniteSet(S) /\ Cardinality(S) <= Cardinality(Devices)
    BY <2>2, <2>3, FS_Injection
  <2>5. Cardinality(S) \in Nat
    BY <2>4, FS_CardinalityType
  <2> QED BY <2>3, <2>4, <2>5, BoundsAssumption
<1>2. \A e : {r \in dispositivos : r.ingeniero = e} \subseteq dispositivos
  OBVIOUS
<1> QED BY <1>1, <1>2 DEF DevicesOf

\* The device of a step moves from one place to the next and keeps its row.
LEMMA Moved ==
    ASSUME DeviceInv, TypeOK', NEW d \in Devices, NEW p \in Places, GoTo(d, p),
           place[d] \notin {"menu", "applied"}, p \notin {"menu", "applied"},
           Proposed(d)' => Proposed(d),
           row' = row, dispositivos' = dispositivos, added' = added
    PROVE  DeviceInv'
<1>1. place'[d] = p /\ \A x \in Devices : x # d => place'[x] = place[x]
  BY DEF GoTo, DeviceInv, TypeOK
<1>2. \A r \in dispositivos : r.device \in Devices
  BY DEF DeviceInv, TypeOK, Row
<1> QED BY <1>1, <1>2 DEF DeviceInv, Proposed

\* A step that moves no device.
LEMMA Rested ==
    ASSUME DeviceInv, TypeOK', place' = place, row' = row, dispositivos' = dispositivos, added' = added
    PROVE  DeviceInv'
  BY DEF DeviceInv, Proposed

LEMMA Typed ==
    DeviceInv =>
        /\ masterID \in [Nodes -> Nodes] /\ idCounter \in [Nodes -> Nat]
        /\ Seeded \subseteq ingenieros /\ ingenieros \subseteq Engineers
        /\ dispositivos \subseteq Row /\ added \in 0..MaxDevices
        /\ place \in [Devices -> Places] /\ at \in [Devices -> Nodes]
        /\ waiting \in [Devices -> SUBSET Nodes] /\ engRows \in [Devices -> SUBSET Engineers]
        /\ counts \in [Devices -> [Engineers -> 0..MaxDevices]]
        /\ row \in [Devices -> Row \cup {NoRow}] /\ attempt \in [Devices -> 1..MaxAttempts]
        /\ changes \in 0..MaxChanges
  BY DEF DeviceInv, TypeOK

LEMMA StartTypes ==
    ASSUME DeviceInv, NEW n \in Nodes, AddDevice(n)
    PROVE  DeviceInv'
<1> DEFINE d == added + 1
<1>1. /\ d \in Devices /\ added' = d
      /\ UNCHANGED <<nodeVars, engRows, counts, row, attempt, idCounter, ingenieros, dispositivos>>
      /\ at' = [at EXCEPT ![d] = n]
      /\ \E p \in {"engineers", "send"} : place' = [place EXCEPT ![d] = p]
      /\ waiting' = waiting \/ waiting' = [waiting EXCEPT ![d] = Nodes]
  BY DEF AddDevice, StartDistribution, GoTo
<1>2. place[d] = "menu" /\ added \in Nat
  BY <1>1, BoundsAssumption, Typed DEF DeviceInv
<1> PICK p \in {"engineers", "send"} : place' = [place EXCEPT ![d] = p]
  BY <1>1
<1> HIDE DEF d
<1>3. added' \in 0..MaxDevices
  BY <1>1, BoundsAssumption DEF Devices
<1>4. place' \in [Devices -> Places] /\ at' \in [Devices -> Nodes]
      /\ waiting' \in [Devices -> SUBSET Nodes]
  BY <1>1, Typed DEF Places
<1>5. TypeOK'
  BY <1>1, <1>3, <1>4, Typed DEF TypeOK, DeviceInv, nodeVars
<1>6. place'[d] = p /\ \A x \in Devices : x # d => place'[x] = place[x]
  BY <1>1, Typed
<1>7. \A x \in Devices : x > added' => x > added /\ x # d
  BY <1>1, <1>2 DEF d, Devices
<1>8. \A r \in dispositivos : r.device \in Devices
  BY Typed DEF Row
<1>9. \A x \in Devices : Proposed(x)' => Proposed(x)
  BY <1>6 DEF Proposed
<1>10. \A r \in dispositivos : r.device # d
  BY <1>2 DEF DeviceInv
<1> QED BY <1>1, <1>5, <1>6, <1>7, <1>8, <1>9, <1>10 DEF DeviceInv

LEMMA HandledTypes ==
    ASSUME DeviceInv, NEW d \in Devices, SendToMaster(d) \/ SendFails(d) \/ HandleAddDevice(d)
    PROVE  DeviceInv'
<1>1. /\ UNCHANGED <<nodeVars, engRows, counts, row, attempt, idCounter, ingenieros, dispositivos, added>>
      /\ place[d] \in {"send", "ADD_DEVICE"}
      /\ \E p \in {"ADD_DEVICE", "error", "engineers", "dropped"} : GoTo(d, p)
  BY DEF SendToMaster, SendFails, HandleAddDevice, StartDistribution, workVars
<1> PICK p \in {"ADD_DEVICE", "error", "engineers", "dropped"} : GoTo(d, p)
  BY <1>1
<1>2. at' \in [Devices -> Nodes]
  BY Typed DEF SendToMaster, SendFails, HandleAddDevice, StartDistribution, workVars
<1>3. waiting' \in [Devices -> SUBSET Nodes]
  BY Typed DEF SendToMaster, SendFails, HandleAddDevice, StartDistribution, workVars
<1>4. place' \in [Devices -> Places] /\ place'[d] = p
  BY Typed DEF GoTo, Places
<1>5. TypeOK'
  BY <1>1, <1>2, <1>3, <1>4, Typed DEF TypeOK, DeviceInv, nodeVars
<1>6. p \in Places
  BY DEF Places
<1> QED BY <1>1, <1>4, <1>5, <1>6, Moved DEF Proposed

LEMMA QueryTypes ==
    ASSUME DeviceInv, NEW d \in Devices,
           \/ CountDevices(d) \/ QueryTimeout(d) \/ QueryFails(d)
           \/ \E n \in Nodes : ReadEngineers(d, n) \/ ReadDevices(d, n)
    PROVE  DeviceInv'
<1>1. /\ UNCHANGED <<nodeVars, at, row, attempt, idCounter, ingenieros, dispositivos, added>>
      /\ place[d] \in {"engineers", "devices"}
      /\ place' = place \/ \E p \in {"error", "devices"} : GoTo(d, p)
  BY DEF CountDevices, QueryTimeout, QueryFails, ReadEngineers, ReadDevices, workVars
<1>2. waiting' \in [Devices -> SUBSET Nodes]
  <2>1. \/ waiting' = waiting
        \/ \E S : waiting' = [waiting EXCEPT ![d] = S] /\ (S = Nodes \/ S \subseteq waiting[d])
    BY DEF CountDevices, QueryTimeout, QueryFails, ReadEngineers, ReadDevices, workVars
  <2>2. waiting \in [Devices -> SUBSET Nodes] /\ waiting[d] \subseteq Nodes
    BY Typed
  <2> QED BY <2>1, <2>2
<1>3. engRows' \in [Devices -> SUBSET Engineers]
  <2>1. \/ engRows' = engRows
        \/ \E S \in SUBSET ingenieros : engRows' = [engRows EXCEPT ![d] = @ \cup S]
    BY DEF CountDevices, QueryTimeout, QueryFails, ReadEngineers, ReadDevices, workVars
  <2>2. engRows \in [Devices -> SUBSET Engineers] /\ ingenieros \subseteq Engineers
    BY Typed
  <2> QED BY <2>1, <2>2
<1>4. counts' \in [Devices -> [Engineers -> 0..MaxDevices]]
  <2>1. CASE counts' = counts
    BY <2>1, Typed
  <2>2. CASE \E n \in Nodes : ReadDevices(d, n)
    <3> PICK n \in Nodes : ReadDevices(d, n)
      BY <2>2
    <3> DEFINE g == [e \in Engineers |-> IF Sucursal[e] = n THEN DevicesOf(e) ELSE counts[d][e]]
    <3>1. counts' = [counts EXCEPT ![d] = g]
      BY Typed DEF ReadDevices
    <3>2. \A e \in Engineers : DevicesOf(e) \in 0..MaxDevices /\ counts[d][e] \in 0..MaxDevices
      BY RowsFinite, Typed
    <3>3. g \in [Engineers -> 0..MaxDevices]
      BY <3>2
    <3> HIDE DEF g
    <3> QED BY <3>1, <3>3, Typed
  <2> QED BY <2>1, <2>2 DEF CountDevices, QueryTimeout, QueryFails, ReadEngineers, workVars
<1>5. CASE place' = place
  <2>1. TypeOK'
    BY <1>1, <1>2, <1>3, <1>4, <1>5, Typed DEF TypeOK, DeviceInv, nodeVars
  <2> QED BY <1>1, <1>5, <2>1, Rested
<1>6. CASE \E p \in {"error", "devices"} : GoTo(d, p)
  <2> PICK p \in {"error", "devices"} : GoTo(d, p)
    BY <1>6
  <2>1. place' \in [Devices -> Places] /\ place'[d] = p /\ p \in Places
    BY Typed DEF GoTo, Places
  <2>2. TypeOK'
    BY <1>1, <1>2, <1>3, <1>4, <2>1, Typed DEF TypeOK, DeviceInv, nodeVars
  <2> QED BY <1>1, <2>1, <2>2, Moved DEF Proposed
<1> QED BY <1>1, <1>5, <1>6

LEMMA ChooseTypes ==
    ASSUME DeviceInv, NEW d \in Devices, Choose(d)
    PROVE  DeviceInv'
<1>0. /\ place[d] = "devices" /\ GoTo(d, "propose") /\ NewID(at[d])
      /\ UNCHANGED <<nodeVars, at, waiting, engRows, counts, attempt, ingenieros, dispositivos, added>>
  BY DEF Choose
<1> PICK e \in Chosen(d) :
      row' = [row EXCEPT ![d] = [id |-> IdFor(e, at[d]), device |-> d, ingeniero |-> e]]
  BY DEF Choose
<1> DEFINE new == [id |-> IdFor(e, at[d]), device |-> d, ingeniero |-> e]
<1>1. e \in Engineers
  BY Typed DEF Chosen, Fewest
<1>2. new \in Row /\ new.device = d /\ new.ingeniero = e /\ new.id[1] = Sucursal[e]
  BY <1>1, Typed, EngineersAssumption DEF Row, IdFor
<1>3. row' = [row EXCEPT ![d] = new]
  OBVIOUS
<1> HIDE DEF new
<1>4. /\ row' \in [Devices -> Row \cup {NoRow}] /\ row'[d] = new
      /\ \A x \in Devices : x # d => row'[x] = row[x]
  BY <1>2, <1>3, Typed
<1>5. place' \in [Devices -> Places] /\ place'[d] = "propose" /\ \A x \in Devices : x # d => place'[x] = place[x]
  BY <1>0, Typed DEF GoTo, Places
<1>6. idCounter' \in [Nodes -> Nat]
  BY <1>0, Typed DEF NewID
<1>7. TypeOK'
  BY <1>0, <1>4, <1>5, <1>6, Typed DEF TypeOK, DeviceInv, nodeVars
<1>8. \A x \in Devices : Proposed(x)' =>
        row'[x] \in Row /\ row'[x].device = x /\ row'[x].id[1] = Sucursal[row'[x].ingeniero]
  BY <1>2, <1>4, <1>5 DEF Proposed, DeviceInv
<1>9. \A r \in dispositivos : r.device \in Devices /\ r.device # d
  BY <1>0, Typed DEF DeviceInv, Row
<1>10. \A r \in dispositivos' : place'[r.device] = "applied" /\ r = row'[r.device]
  BY <1>0, <1>4, <1>5, <1>9 DEF DeviceInv
<1>11. \A x \in Devices : x > added' => place'[x] = "menu"
  BY <1>0, <1>5 DEF DeviceInv
<1> QED BY <1>7, <1>8, <1>10, <1>11 DEF DeviceInv

\* The commit handler of the engineer's node: of two rows with an id the first stays.
LEMMA InsertTypes ==
    ASSUME DeviceInv, NEW d \in Devices, place[d] \in {"propose", "COMMIT"},
           Insert(row[d]), GoTo(d, "applied"),
           UNCHANGED <<nodeVars, workVars, idCounter, ingenieros, added>>
    PROVE  DeviceInv'
<1> USE DEF workVars
<1>1. row[d] \in Row /\ row[d].device = d /\ row[d].id[1] = Sucursal[row[d].ingeniero]
  BY DEF DeviceInv, Proposed
<1>2. /\ place' \in [Devices -> Places] /\ place'[d] = "applied"
      /\ \A x \in Devices : x # d => place'[x] = place[x]
  BY Typed DEF GoTo, Places
<1>3. \/ dispositivos' = dispositivos
      \/ /\ dispositivos' = dispositivos \cup {row[d]}
         /\ \A r \in dispositivos : r.id # row[d].id
  BY DEF Insert
<1>4. /\ dispositivos' \subseteq Row
      /\ \A r \in dispositivos' : r.id[1] = Sucursal[r.ingeniero]
      /\ \A r, s \in dispositivos' : r.id = s.id => r = s
  BY <1>1, <1>3, Typed DEF DeviceInv, TypeOK
<1>5. TypeOK'
  BY <1>2, <1>4, Typed DEF TypeOK, nodeVars
<1>6. \A r \in dispositivos : r.device \in Devices /\ r.device # d
  BY Typed DEF DeviceInv, Row
<1>7. \A r \in dispositivos' : place'[r.device] = "applied" /\ r = row'[r.device]
  BY <1>1, <1>2, <1>3, <1>6 DEF DeviceInv
<1>8. \A x \in Devices : Proposed(x)' => Proposed(x)
  BY <1>2 DEF Proposed
<1>9. \A x \in Devices : x > added' => place'[x] = "menu"
  BY <1>2 DEF DeviceInv
<1> QED BY <1>5, <1>7, <1>8, <1>9 DEF DeviceInv

LEMMA ProposalTypes ==
    ASSUME DeviceInv, NEW d \in Devices, Propose(d) \/ HandleCommit(d) \/ CommitFails(d) \/ Lose(d)
    PROVE  DeviceInv'
<1>1. CASE /\ place[d] \in {"propose", "COMMIT"} /\ Insert(row[d]) /\ GoTo(d, "applied")
           /\ UNCHANGED <<nodeVars, workVars, idCounter, ingenieros, added>>
  BY <1>1, InsertTypes
<1>2. CASE /\ place[d] \in {"propose", "COMMIT", "ADD_DEVICE"}
           /\ \E p \in {"COMMIT", "error", "lost"} : GoTo(d, p) /\ (p = "COMMIT" => place[d] = "propose")
           /\ UNCHANGED <<nodeVars, workVars, idCounter, ingenieros, dispositivos, added>>
  <2> PICK p \in {"COMMIT", "error", "lost"} : GoTo(d, p) /\ (p = "COMMIT" => place[d] = "propose")
    BY <1>2
  <2> USE DEF workVars
  <2>1. place' \in [Devices -> Places] /\ place'[d] = p /\ p \in Places
    BY Typed DEF GoTo, Places
  <2>2. TypeOK'
    BY <1>2, <2>1, Typed DEF TypeOK, DeviceInv, nodeVars
  <2> QED BY <1>2, <2>1, <2>2, Moved DEF Proposed
<1>3. CASE ProposeFails(d) /\ attempt[d] # MaxAttempts
  <2>1. attempt' \in [Devices -> 1..MaxAttempts]
    <3>1. attempt[d] + 1 \in 1..MaxAttempts
      <4>1. attempt[d] \in 1..MaxAttempts /\ attempt[d] # MaxAttempts /\ MaxAttempts \in Nat
        BY <1>3, Typed, BoundsAssumption
      <4> QED BY <4>1
    <3>2. attempt' = [attempt EXCEPT ![d] = attempt[d] + 1]
      BY <1>3, Typed DEF ProposeFails
    <3> QED BY <3>1, <3>2, Typed
  <2>2. TypeOK'
    BY <1>3, <2>1, Typed DEF ProposeFails, TypeOK, DeviceInv, nodeVars
  <2> QED BY <1>3, <2>2, Rested DEF ProposeFails
<1> QED BY <1>1, <1>2, <1>3 DEF Propose, ProposeCommits, ProposeFails, HandleCommit, CommitFails, Lose, workVars

LEMMA OtherTypes ==
    ASSUME DeviceInv, (\E e \in Engineers : AddIngeniero(e)) \/ (\E n, m \in Nodes : MasterChange(n, m))
    PROVE  DeviceInv'
<1>1. CASE \E e \in Engineers : AddIngeniero(e)
  <2> PICK e \in Engineers : AddIngeniero(e)
    BY <1>1
  <2>1. idCounter' \in [Nodes -> Nat]
    <3>1. Sucursal[e] \in Nodes
      BY EngineersAssumption
    <3>2. idCounter[Sucursal[e]] + 1 \in Nat
      BY <3>1, Typed
    <3>3. idCounter' = [idCounter EXCEPT ![Sucursal[e]] = idCounter[Sucursal[e]] + 1]
      BY <3>1, Typed DEF AddIngeniero, NewID
    <3> QED BY <3>1, <3>2, <3>3, Typed
  <2>2. TypeOK'
    <3>1. Seeded \subseteq ingenieros' /\ ingenieros' \subseteq Engineers
      BY Typed DEF AddIngeniero
    <3>2. UNCHANGED <<nodeVars, workVars, dispositivos, added, place>>
      BY DEF AddIngeniero
    <3> QED BY <2>1, <3>1, <3>2, Typed DEF TypeOK, DeviceInv, nodeVars, workVars
  <2> QED BY <2>2, Rested DEF AddIngeniero, workVars
<1>2. CASE \E n, m \in Nodes : MasterChange(n, m)
  <2> PICK n \in Nodes, m \in Nodes : MasterChange(n, m)
    BY <1>2
  <2>1. masterID' \in [Nodes -> Nodes] /\ changes' \in 0..MaxChanges
    BY Typed, BoundsAssumption DEF MasterChange
  <2>2. TypeOK'
    <3>1. UNCHANGED <<workVars, idCounter, ingenieros, dispositivos, added, place>>
      BY DEF MasterChange
    <3> QED BY <2>1, <3>1, Typed DEF TypeOK, DeviceInv, workVars
  <2> QED BY <2>2, Rested DEF MasterChange, workVars
<1> QED BY <1>1, <1>2

LEMMA InitialDevices == Init => DeviceInv
<1> SUFFICES ASSUME Init PROVE DeviceInv
  OBVIOUS
<1> USE DEF Init
<1>1. idCounter \in [Nodes -> Nat]
  BY CounterAssumption
<1>2. 0 \in 0..MaxDevices /\ 1 \in 1..MaxAttempts /\ 0 \in 0..MaxChanges
  BY BoundsAssumption
<1>3. TypeOK
  BY <1>1, <1>2, MasterAssumption, EngineersAssumption DEF TypeOK, Places
<1> QED BY <1>3 DEF DeviceInv, Proposed

LEMMA DeviceStep == DeviceInv /\ [Next]_vars => DeviceInv'
<1> SUFFICES ASSUME DeviceInv, [Next]_vars PROVE DeviceInv'
  OBVIOUS
<1>1. CASE \E n \in Nodes : AddDevice(n)
  BY <1>1, StartTypes
<1>2. CASE (\E e \in Engineers : AddIngeniero(e)) \/ (\E n, m \in Nodes : MasterChange(n, m))
  BY <1>2, OtherTypes
<1>3. ASSUME NEW d \in Devices, Handle(d) \/ Distribute(d) \/ Fail(d) \/ QueryTimeout(d)
      PROVE  DeviceInv'
  BY <1>3, HandledTypes, QueryTypes, ChooseTypes, ProposalTypes DEF Handle, Distribute, Fail
<1>4. CASE UNCHANGED vars
  <2>1. TypeOK'
    BY <1>4, Typed DEF vars, nodeVars, workVars, DeviceInv, TypeOK
  <2> QED BY <1>4, <2>1, Rested DEF vars, workVars
<1> QED BY <1>1, <1>2, <1>3, <1>4 DEF Next, CompleteNext

\* What a device carries from step to step is of its kind: the counts a query
\* brought are of devices there are, the row to insert is the device's own and
\* its id begins with the branch of the engineer it goes to
\* (ticket_service.go:115-184, seed.go:12-35, db.go:221-229).
THEOREM DeviceTypes == Spec => []TypeOK
<1>1. DeviceInv => TypeOK
  BY DEF DeviceInv
<1> QED BY <1>1, InitialDevices, DeviceStep, PTL DEF Spec
-----------------------------------------------------------------------------
(* Devices are spread evenly.  Take a level that engineer e has passed and  *)
(* engineer f has not.  Who counts e from then on finds him above f and     *)
(* passes him over, so only the devices that had counted him before, or had *)
(* been given to him, can still bring him more, and these were under way at *)
(* once with the device that made him pass the level.                       *)

\* The devices e has been given, or can still be given at level l.
Rivals(e, l) ==
    {d \in Devices :
        \/ place[d] \in {"propose", "COMMIT"} /\ row[d].ingeniero = e
        \/ place[d] = "devices" /\ Sucursal[e] \notin waiting[d] /\ counts[d][e] <= l}

UnderWay == {d \in Devices : place[d] \in Under}

\* No query misses an engineer of the seed, and counts are at most too low.
SeededRead == \A d \in Devices :
    /\ place[d] = "engineers" => \A f \in Seeded : Sucursal[f] \in waiting[d] \/ f \in engRows[d]
    /\ place[d] = "devices" => Seeded \subseteq engRows[d]
CountsOld == \A d \in Devices, e \in Engineers : counts[d][e] <= DevicesOf(e)

Level(e, f, l) ==
    DevicesOf(f) <= l /\ l < DevicesOf(e) =>
        DevicesOf(e) + Cardinality(Rivals(e, l)) <= l + MaxOverlap

SpreadInv ==
    /\ DeviceInv /\ SeededRead /\ CountsOld
    /\ Cardinality(UnderWay) <= MaxOverlap
    /\ \A e \in Engineers, f \in Seeded, l \in 0..MaxDevices : Level(e, f, l)

LEMMA RivalsCount ==
    ASSUME DeviceInv, NEW e, NEW l
    PROVE  /\ IsFiniteSet(UnderWay) /\ Cardinality(UnderWay) \in Nat
           /\ IsFiniteSet(Rivals(e, l)) /\ Cardinality(Rivals(e, l)) \in Nat
           /\ Rivals(e, l) \subseteq UnderWay
           /\ Cardinality(Rivals(e, l)) <= Cardinality(UnderWay)
<1>1. IsFiniteSet(Devices)
  BY BoundsAssumption, FS_Interval DEF Devices
<1>2. UnderWay \subseteq Devices
  BY DEF UnderWay
<1>3. IsFiniteSet(UnderWay)
  BY <1>1, <1>2, FS_Subset
<1>4. Rivals(e, l) \subseteq UnderWay
  BY DEF Rivals, UnderWay, Under
<1>5. IsFiniteSet(Rivals(e, l)) /\ Cardinality(Rivals(e, l)) <= Cardinality(UnderWay)
  BY <1>3, <1>4, FS_Subset
<1> QED BY <1>3, <1>4, <1>5, FS_CardinalityType

\* A step that stores no device and brings no device nearer to an engineer.
LEMMA LevelsKept ==
    ASSUME SpreadInv, DeviceInv', SeededRead', CountsOld', dispositivos' = dispositivos,
           Cardinality(UnderWay)' <= MaxOverlap,
           \A e \in Engineers, f \in Seeded, l \in 0..MaxDevices :
                DevicesOf(f) <= l /\ l < DevicesOf(e) => Rivals(e, l)' \subseteq Rivals(e, l)
    PROVE  SpreadInv'
<1> SUFFICES ASSUME NEW e \in Engineers, NEW f \in Seeded, NEW l \in 0..MaxDevices
             PROVE  Level(e, f, l)'
  BY DEF SpreadInv
<1>1. DeviceInv
  BY DEF SpreadInv
<1>2. DevicesOf(e)' = DevicesOf(e) /\ DevicesOf(f)' = DevicesOf(f)
  BY DEF DevicesOf
<1>3. SUFFICES ASSUME DevicesOf(f) <= l, l < DevicesOf(e)
               PROVE  DevicesOf(e) + Cardinality(Rivals(e, l))' <= l + MaxOverlap
  BY <1>2 DEF Level
<1>4. Rivals(e, l)' \subseteq Rivals(e, l)
  BY <1>3
<1>5. Cardinality(Rivals(e, l)') <= Cardinality(Rivals(e, l)) /\ Cardinality(Rivals(e, l)') \in Nat
  BY <1>1, <1>4, RivalsCount, FS_Subset, FS_CardinalityType
<1>6. DevicesOf(e) + Cardinality(Rivals(e, l)) <= l + MaxOverlap
  BY <1>3 DEF SpreadInv, Level
<1>7. DevicesOf(e) \in Nat /\ Cardinality(Rivals(e, l)) \in Nat
  BY <1>1, RowsFinite, RivalsCount
<1> QED BY <1>5, <1>6, <1>7, BoundsAssumption

LEMMA UnderWayKept ==
    ASSUME SpreadInv, UnderWay' \subseteq UnderWay
    PROVE  Cardinality(UnderWay)' <= MaxOverlap
<1>1. IsFiniteSet(UnderWay) /\ Cardinality(UnderWay) \in Nat /\ Cardinality(UnderWay) <= MaxOverlap
  BY RivalsCount DEF SpreadInv
<1>2. Cardinality(UnderWay') <= Cardinality(UnderWay) /\ IsFiniteSet(UnderWay')
  BY <1>1, FS_Subset
<1>3. Cardinality(UnderWay') \in Nat
  BY <1>2, FS_CardinalityType
<1> QED BY <1>1, <1>2, <1>3, BoundsAssumption

LEMMA StartSpread ==
    ASSUME SpreadInv, DeviceInv', NEW n \in Nodes, AddDevice(n)
    PROVE  SpreadInv'
<1> DEFINE d == added + 1
<1>1. /\ d \in Devices /\ Cardinality(UnderWay) < MaxOverlap
      /\ UNCHANGED <<engRows, counts, row, dispositivos>>
      /\ \/ place' = [place EXCEPT ![d] = "engineers"] /\ waiting' = [waiting EXCEPT ![d] = Nodes]
         \/ place' = [place EXCEPT ![d] = "send"] /\ waiting' = waiting
  BY DEF AddDevice, StartDistribution, GoTo, UnderWay
<1> HIDE DEF d
<1>2. /\ place \in [Devices -> Places] /\ waiting \in [Devices -> SUBSET Nodes] /\ DeviceInv
  BY Typed DEF SpreadInv
<1>3. /\ \A x \in Devices : x # d => place'[x] = place[x] /\ waiting'[x] = waiting[x]
      /\ place'[d] = "send" \/ (place'[d] = "engineers" /\ waiting'[d] = Nodes)
  BY <1>1, <1>2
<1>4. SeededRead'
  BY <1>1, <1>3, EngineersAssumption DEF SpreadInv, SeededRead
<1>5. CountsOld'
  BY <1>1 DEF SpreadInv, CountsOld, DevicesOf
<1>6. Cardinality(UnderWay)' <= MaxOverlap
  <2>1. UnderWay' \subseteq UnderWay \cup {d}
    BY <1>3 DEF UnderWay
  <2>2. IsFiniteSet(UnderWay) /\ Cardinality(UnderWay) \in Nat
    BY <1>2, RivalsCount
  <2>3. IsFiniteSet(UnderWay \cup {d}) /\ Cardinality(UnderWay \cup {d}) =
            IF d \in UnderWay THEN Cardinality(UnderWay) ELSE Cardinality(UnderWay) + 1
    BY <2>2, FS_AddElement, Zenon
  <2>4. Cardinality(UnderWay \cup {d}) \in Nat /\ Cardinality(UnderWay \cup {d}) <= Cardinality(UnderWay) + 1
    BY <2>2, <2>3
  <2>5. Cardinality(UnderWay') <= Cardinality(UnderWay \cup {d}) /\ IsFiniteSet(UnderWay')
    BY <2>1, <2>3, FS_Subset
  <2>6. Cardinality(UnderWay') \in Nat
    BY <2>5, FS_CardinalityType
  <2> QED BY <1>1, <2>2, <2>4, <2>5, <2>6, BoundsAssumption
<1>7. \A e \in Engineers, l \in 0..MaxDevices : Rivals(e, l)' \subseteq Rivals(e, l)
  BY <1>1, <1>3 DEF Rivals
<1> QED BY <1>1, <1>4, <1>5, <1>6, <1>7, LevelsKept

\* The device of a step moves on, without coming nearer to an engineer.
LEMMA MovedSpread ==
    ASSUME SpreadInv, DeviceInv', NEW d \in Devices, place[d] \in Under,
           UNCHANGED <<counts, row, dispositivos>>,
           \A x \in Devices : x # d =>
                place'[x] = place[x] /\ waiting'[x] = waiting[x] /\ engRows'[x] = engRows[x],
           place'[d] \in {"propose", "COMMIT"} => place[d] \in {"propose", "COMMIT"},
           place'[d] = "devices" => \A e \in Engineers : Sucursal[e] \in waiting'[d],
           place'[d] = "devices" => Seeded \subseteq engRows'[d],
           place'[d] = "engineers" => \A f \in Seeded : Sucursal[f] \in waiting'[d] \/ f \in engRows'[d]
    PROVE  SpreadInv'
<1>1. SeededRead'
  BY DEF SpreadInv, SeededRead
<1>2. CountsOld'
  BY DEF SpreadInv, CountsOld, DevicesOf
<1>3. UnderWay' \subseteq UnderWay
  BY DEF UnderWay
<1>4. \A e \in Engineers, l \in 0..MaxDevices : Rivals(e, l)' \subseteq Rivals(e, l)
  BY DEF Rivals
<1> QED BY <1>1, <1>2, <1>3, <1>4, UnderWayKept, LevelsKept

LEMMA HandledSpread ==
    ASSUME SpreadInv, DeviceInv', NEW d \in Devices,
           SendToMaster(d) \/ SendFails(d) \/ HandleAddDevice(d) \/ QueryFails(d)
    PROVE  SpreadInv'
<1>1. /\ UNCHANGED <<counts, row, dispositivos, engRows>>
      /\ place[d] \in Under
      /\ \/ waiting' = waiting /\ \E p \in {"ADD_DEVICE", "error", "dropped"} : GoTo(d, p)
         \/ waiting' = [waiting EXCEPT ![d] = Nodes] /\ GoTo(d, "engineers")
  BY DEF SendToMaster, SendFails, HandleAddDevice, QueryFails, StartDistribution, workVars, Under
<1>2. /\ place \in [Devices -> Places] /\ waiting \in [Devices -> SUBSET Nodes]
  BY Typed DEF SpreadInv
<1>3. /\ \A x \in Devices : x # d => place'[x] = place[x] /\ waiting'[x] = waiting[x]
      /\ \/ place'[d] \in {"ADD_DEVICE", "error", "dropped"}
         \/ place'[d] = "engineers" /\ waiting'[d] = Nodes
  BY <1>1, <1>2 DEF GoTo
<1>4. \A f \in Seeded : Sucursal[f] \in Nodes
  BY EngineersAssumption
<1>5. /\ place'[d] \notin {"propose", "COMMIT", "devices"}
      /\ place'[d] = "engineers" => \A f \in Seeded : Sucursal[f] \in waiting'[d]
  BY <1>3, <1>4
<1> QED BY <1>1, <1>3, <1>5, MovedSpread

LEMMA EngineersRead ==
    ASSUME SpreadInv, DeviceInv', NEW d \in Devices,
           CountDevices(d) \/ \E n \in Nodes : ReadEngineers(d, n)
    PROVE  SpreadInv'
<1>1. /\ place \in [Devices -> Places] /\ waiting \in [Devices -> SUBSET Nodes]
      /\ engRows \in [Devices -> SUBSET Engineers] /\ Seeded \subseteq ingenieros
  BY Typed DEF SpreadInv
<1>2. /\ UNCHANGED <<counts, row, dispositivos>> /\ place[d] = "engineers"
      /\ \A f \in Seeded : Sucursal[f] \in waiting[d] \/ f \in engRows[d]
  BY DEF CountDevices, ReadEngineers, SpreadInv, SeededRead
<1>3. CASE CountDevices(d)
  <2>1. /\ engRows' = engRows /\ waiting[d] = {}
        /\ \/ GoTo(d, "error") /\ waiting' = waiting
           \/ GoTo(d, "devices") /\ waiting' = [waiting EXCEPT ![d] = Nodes]
    BY <1>3 DEF CountDevices
  <2>2. /\ \A x \in Devices : x # d => place'[x] = place[x] /\ waiting'[x] = waiting[x]
        /\ place'[d] = "error" \/ (place'[d] = "devices" /\ waiting'[d] = Nodes)
    BY <1>1, <2>1 DEF GoTo
  <2>3. \A e \in Engineers : Sucursal[e] \in Nodes
    BY EngineersAssumption
  <2>4. Seeded \subseteq engRows[d]
    BY <1>2, <2>1
  <2> QED BY <1>2, <2>1, <2>2, <2>3, <2>4, MovedSpread DEF Under
<1>4. CASE \E n \in Nodes : ReadEngineers(d, n)
  <2> PICK n \in Nodes : ReadEngineers(d, n)
    BY <1>4
  <2>1. /\ place' = place
        /\ waiting'[d] = waiting[d] \ {n}
        /\ engRows'[d] = engRows[d] \cup {e \in ingenieros : Sucursal[e] = n}
        /\ \A x \in Devices : x # d => waiting'[x] = waiting[x] /\ engRows'[x] = engRows[x]
    BY <1>1 DEF ReadEngineers
  <2>2. \A f \in Seeded : Sucursal[f] \in waiting'[d] \/ f \in engRows'[d]
    BY <1>1, <1>2, <2>1
  <2> QED BY <1>2, <2>1, <2>2, MovedSpread DEF Under
<1> QED BY <1>3, <1>4

\* Who reads the devices of an engineer above the level passes him over.
LEMMA DevicesRead ==
    ASSUME SpreadInv, DeviceInv', NEW d \in Devices, NEW n \in Nodes, ReadDevices(d, n)
    PROVE  SpreadInv'
<1>0. /\ waiting \in [Devices -> SUBSET Nodes]
      /\ counts \in [Devices -> [Engineers -> 0..MaxDevices]] /\ DeviceInv
  BY Typed DEF SpreadInv
<1>1. /\ place[d] = "devices" /\ waiting'[d] = waiting[d] \ {n}
      /\ UNCHANGED <<place, engRows, row, dispositivos>>
      /\ \A x \in Devices : x # d => waiting'[x] = waiting[x] /\ counts'[x] = counts[x]
      /\ \A e \in Engineers : counts'[d][e] = IF Sucursal[e] = n THEN DevicesOf(e) ELSE counts[d][e]
  BY <1>0 DEF ReadDevices
<1>2. \A e \in Engineers : DevicesOf(e)' = DevicesOf(e) /\ DevicesOf(e) \in Nat
  <2>1. \A e : DevicesOf(e)' = DevicesOf(e)
    BY <1>1 DEF DevicesOf
  <2>2. \A e : DevicesOf(e) \in 0..MaxDevices
    BY <1>0, RowsFinite
  <2> QED BY <2>1, <2>2
<1>3. SeededRead'
  BY <1>1 DEF SpreadInv, SeededRead
<1>4. CountsOld'
  <2> SUFFICES ASSUME NEW x \in Devices, NEW e \in Engineers PROVE counts'[x][e] <= DevicesOf(e)
    BY <1>2 DEF CountsOld
  <2>1. counts'[x][e] = counts[x][e] \/ counts'[x][e] = DevicesOf(e)
    BY <1>1
  <2> QED BY <1>2, <2>1 DEF SpreadInv, CountsOld
<1>5. UnderWay' \subseteq UnderWay
  BY <1>1 DEF UnderWay
<1>6. ASSUME NEW e \in Engineers, NEW l \in 0..MaxDevices, l < DevicesOf(e)
      PROVE  Rivals(e, l)' \subseteq Rivals(e, l)
  <2> SUFFICES ASSUME NEW x \in Rivals(e, l)' PROVE x \in Rivals(e, l)
    OBVIOUS
  <2>1. x \in Devices
    BY DEF Rivals
  <2>2. CASE x # d \/ Sucursal[e] # n
    BY <1>1, <2>1, <2>2 DEF Rivals
  <2>3. CASE x = d /\ Sucursal[e] = n
    <3>1. counts'[d][e] = DevicesOf(e) /\ ~(DevicesOf(e) <= l)
      BY <1>1, <1>2, <1>6, <2>3
    <3> QED BY <1>1, <2>3, <3>1 DEF Rivals
  <2> QED BY <2>2, <2>3
<1> QED BY <1>1, <1>3, <1>4, <1>5, <1>6, UnderWayKept, LevelsKept

\* Who is chosen has been counted, and no higher than the others.
LEMMA ChooseSpread ==
    ASSUME SpreadInv, DeviceInv', NEW d \in Devices, Choose(d)
    PROVE  SpreadInv'
<1>0. /\ place \in [Devices -> Places] /\ engRows \in [Devices -> SUBSET Engineers]
      /\ row \in [Devices -> Row \cup {NoRow}] /\ DeviceInv
      /\ counts \in [Devices -> [Engineers -> 0..MaxDevices]]
  BY Typed DEF SpreadInv
<1>1. /\ place[d] = "devices" /\ waiting[d] = {} /\ GoTo(d, "propose")
      /\ UNCHANGED <<waiting, engRows, counts, dispositivos>>
  BY DEF Choose
<1> PICK e \in Chosen(d) :
      row' = [row EXCEPT ![d] = [id |-> IdFor(e, at[d]), device |-> d, ingeniero |-> e]]
  BY DEF Choose
<1>2. /\ \A x \in Devices : x # d => place'[x] = place[x] /\ row'[x] = row[x]
      /\ place'[d] = "propose" /\ row'[d].ingeniero = e
  BY <1>0, <1>1 DEF GoTo
<1>3. e \in Engineers /\ \A f \in Seeded : counts[d][e] <= counts[d][f]
  BY <1>0, <1>1 DEF Chosen, Fewest, SpreadInv, SeededRead
<1>4. SeededRead'
  BY <1>1, <1>2 DEF SpreadInv, SeededRead
<1>5. CountsOld'
  BY <1>1 DEF SpreadInv, CountsOld, DevicesOf
<1>6. UnderWay' \subseteq UnderWay
  BY <1>1, <1>2 DEF UnderWay, Under
<1>7. ASSUME NEW g \in Engineers, NEW f \in Seeded, NEW l \in 0..MaxDevices, DevicesOf(f) <= l
      PROVE  Rivals(g, l)' \subseteq Rivals(g, l)
  <2> SUFFICES ASSUME NEW x \in Rivals(g, l)' PROVE x \in Rivals(g, l)
    OBVIOUS
  <2>1. x \in Devices
    BY DEF Rivals
  <2>2. CASE x # d
    BY <1>1, <1>2, <2>1, <2>2 DEF Rivals
  <2>3. CASE x = d
    <3>1. g = e
      BY <1>2, <2>3 DEF Rivals
    <3>2. counts[d][e] <= l
      <4>1. f \in Engineers
        BY EngineersAssumption
      <4>2. counts[d][e] <= counts[d][f] /\ counts[d][f] <= DevicesOf(f)
        BY <1>3, <4>1 DEF SpreadInv, CountsOld
      <4>3. counts[d][e] \in Nat /\ counts[d][f] \in Nat /\ DevicesOf(f) \in Nat
        BY <1>0, <1>3, <4>1, RowsFinite
      <4> QED BY <1>7, <4>2, <4>3
    <3> QED BY <1>1, <2>3, <3>1, <3>2 DEF Rivals
  <2> QED BY <2>2, <2>3
<1> QED BY <1>1, <1>4, <1>5, <1>6, <1>7, UnderWayKept, LevelsKept

\* A device is stored: one rival less, and one device more of the engineer at most.
LEMMA InsertSpread ==
    ASSUME SpreadInv, DeviceInv', NEW d \in Devices, place[d] \in {"propose", "COMMIT"},
           Insert(row[d]), GoTo(d, "applied"),
           UNCHANGED <<nodeVars, workVars, idCounter, ingenieros, added>>
    PROVE  SpreadInv'
<1> USE DEF workVars
<1> PICK g : g = row[d].ingeniero
  OBVIOUS
<1>0. place \in [Devices -> Places] /\ DeviceInv
  BY Typed DEF SpreadInv
<1>1. /\ place'[d] = "applied" /\ \A x \in Devices : x # d => place'[x] = place[x]
      /\ UNCHANGED <<waiting, engRows, counts, row>>
  BY <1>0 DEF GoTo
<1>2. \/ dispositivos' = dispositivos
      \/ dispositivos' = dispositivos \cup {row[d]} /\ row[d] \notin dispositivos
  BY DEF Insert
<1>3. \A e : /\ DevicesOf(e) \in Nat /\ DevicesOf(e)' \in Nat
             /\ DevicesOf(e) <= DevicesOf(e)'
             /\ e # g => DevicesOf(e)' = DevicesOf(e)
             /\ DevicesOf(e)' <= DevicesOf(e) + 1
  <2> SUFFICES ASSUME NEW e
               PROVE  /\ DevicesOf(e) \in Nat /\ DevicesOf(e)' \in Nat
                      /\ DevicesOf(e) <= DevicesOf(e)'
                      /\ e # g => DevicesOf(e)' = DevicesOf(e)
                      /\ DevicesOf(e)' <= DevicesOf(e) + 1
    OBVIOUS
  <2> DEFINE R == {r \in dispositivos : r.ingeniero = e}
             S == {r \in dispositivos' : r.ingeniero = e}
  <2>1. DevicesOf(e) = Cardinality(R) /\ DevicesOf(e)' = Cardinality(S)
    BY DEF DevicesOf
  <2>2. S = R \/ (S = R \cup {row[d]} /\ e = g)
    BY <1>2
  <2>3. IsFiniteSet(R)
    <3>1. IsFiniteSet(dispositivos) /\ R \subseteq dispositivos
      BY <1>0, RowsFinite
    <3> QED BY <3>1, FS_Subset
  <2> HIDE DEF R, S
  <2>4. Cardinality(R) \in Nat
    BY <2>3, FS_CardinalityType
  <2>5. Cardinality(R \cup {row[d]}) =
            IF row[d] \in R THEN Cardinality(R) ELSE Cardinality(R) + 1
    BY <2>3, FS_AddElement, Zenon
  <2>6. CASE S = R
    BY <2>1, <2>4, <2>6
  <2>7. CASE S = R \cup {row[d]} /\ e = g
    BY <2>1, <2>4, <2>5, <2>7
  <2> QED BY <2>2, <2>6, <2>7
<1>4. SeededRead'
  BY <1>1 DEF SpreadInv, SeededRead
<1>5. CountsOld'
  <2> SUFFICES ASSUME NEW x \in Devices, NEW e \in Engineers PROVE counts[x][e] <= DevicesOf(e)'
    BY <1>1 DEF CountsOld
  <2>1. counts[x][e] <= DevicesOf(e) /\ counts[x][e] \in Nat
    BY <1>0, Typed DEF SpreadInv, CountsOld
  <2>2. DevicesOf(e) \in Nat /\ DevicesOf(e)' \in Nat /\ DevicesOf(e) <= DevicesOf(e)'
    BY <1>3
  <2> QED BY <2>1, <2>2
<1>6. Cardinality(UnderWay)' <= MaxOverlap
  <2>1. UnderWay' \subseteq UnderWay
    BY <1>1 DEF UnderWay, Under
  <2> QED BY <2>1, UnderWayKept
<1>7. ASSUME NEW e \in Engineers, NEW f \in Seeded, NEW l \in 0..MaxDevices
      PROVE  Level(e, f, l)'
  <2> SUFFICES ASSUME DevicesOf(f)' <= l, l < DevicesOf(e)'
               PROVE  DevicesOf(e)' + Cardinality(Rivals(e, l))' <= l + MaxOverlap
    BY DEF Level
  <2>1. /\ IsFiniteSet(Rivals(e, l)) /\ Cardinality(Rivals(e, l)) \in Nat
        /\ Cardinality(Rivals(e, l)) <= MaxOverlap
    <3>1. /\ IsFiniteSet(Rivals(e, l)) /\ Cardinality(Rivals(e, l)) \in Nat
          /\ Cardinality(Rivals(e, l)) <= Cardinality(UnderWay) /\ Cardinality(UnderWay) \in Nat
      BY <1>0, RivalsCount
    <3>2. Cardinality(UnderWay) <= MaxOverlap
      BY DEF SpreadInv
    <3> QED BY <3>1, <3>2, BoundsAssumption
  <2>2. DevicesOf(f) <= l /\ DevicesOf(e) \in Nat /\ DevicesOf(e)' \in Nat
    <3>1. DevicesOf(f) \in Nat /\ DevicesOf(f)' \in Nat /\ DevicesOf(f) <= DevicesOf(f)'
      BY <1>3
    <3> QED BY <1>3, <3>1
  <2>3. l < DevicesOf(e) => DevicesOf(e) + Cardinality(Rivals(e, l)) <= l + MaxOverlap
    BY <2>2 DEF SpreadInv, Level
  <2>4. Rivals(e, l)' \subseteq Rivals(e, l) \ {d}
    BY <1>1 DEF Rivals
  <2>5. CASE e # g
    <3>1. Cardinality(Rivals(e, l)') <= Cardinality(Rivals(e, l)) /\ Cardinality(Rivals(e, l)') \in Nat
      <4>1. Rivals(e, l)' \subseteq Rivals(e, l)
        BY <2>4
      <4> QED BY <2>1, <4>1, FS_Subset, FS_CardinalityType
    <3>2. DevicesOf(e)' = DevicesOf(e)
      BY <1>3, <2>5
    <3> QED BY <2>1, <2>2, <2>3, <3>1, <3>2, BoundsAssumption
  <2>6. CASE e = g
    <3>1. d \in Rivals(e, l)
      BY <2>6 DEF Rivals
    <3>2. IsFiniteSet(Rivals(e, l) \ {d}) /\ Cardinality(Rivals(e, l) \ {d}) =
            IF d \in Rivals(e, l) THEN Cardinality(Rivals(e, l)) - 1 ELSE Cardinality(Rivals(e, l))
      BY <2>1, FS_RemoveElement, Zenon
    <3>3. /\ Cardinality(Rivals(e, l)') <= Cardinality(Rivals(e, l) \ {d})
          /\ Cardinality(Rivals(e, l)') \in Nat
      BY <2>4, <3>2, FS_Subset, FS_CardinalityType
    <3>4. Cardinality(Rivals(e, l)') <= Cardinality(Rivals(e, l)) - 1
      BY <3>1, <3>2, <3>3
    <3>5. DevicesOf(e)' <= DevicesOf(e) + 1
      BY <1>3
    <3>6. CASE l < DevicesOf(e)
      BY <2>1, <2>2, <2>3, <3>3, <3>4, <3>5, <3>6, BoundsAssumption
    <3>7. CASE ~(l < DevicesOf(e))
      BY <2>1, <2>2, <3>3, <3>4, <3>5, <3>7, BoundsAssumption
    <3> QED BY <3>6, <3>7
  <2> QED BY <2>5, <2>6
<1> QED BY <1>4, <1>5, <1>6, <1>7 DEF SpreadInv

LEMMA ProposalSpread ==
    ASSUME SpreadInv, DeviceInv', NEW d \in Devices, Propose(d) \/ HandleCommit(d) \/ CommitFails(d) \/ Lose(d)
    PROVE  SpreadInv'
<1>0. place \in [Devices -> Places]
  BY Typed DEF SpreadInv
<1>1. CASE /\ place[d] \in {"propose", "COMMIT"} /\ Insert(row[d]) /\ GoTo(d, "applied")
           /\ UNCHANGED <<nodeVars, workVars, idCounter, ingenieros, added>>
  BY <1>1, InsertSpread
<1>2. CASE /\ place[d] \in {"propose", "COMMIT", "ADD_DEVICE"}
           /\ \/ place' = place
              \/ \E p \in {"COMMIT", "error", "lost"} : GoTo(d, p) /\ (p = "COMMIT" => place[d] = "propose")
           /\ UNCHANGED <<waiting, engRows, counts, row, dispositivos>>
  <2>1. /\ \A x \in Devices : x # d => place'[x] = place[x]
        /\ place'[d] = place[d] \/ place'[d] \in {"COMMIT", "error", "lost"}
        /\ place'[d] = "COMMIT" => place[d] \in {"propose", "COMMIT"}
    BY <1>0, <1>2 DEF GoTo
  <2>2. place'[d] \notin {"devices", "engineers"}
    BY <1>2, <2>1
  <2>3. place'[d] \in {"propose", "COMMIT"} => place[d] \in {"propose", "COMMIT"}
    BY <1>2, <2>1
  <2> QED BY <1>2, <2>1, <2>2, <2>3, MovedSpread DEF Under
<1> QED BY <1>1, <1>2 DEF Propose, ProposeCommits, ProposeFails, HandleCommit, CommitFails, Lose, workVars

LEMMA InitialSpread == Init => SpreadInv
<1> SUFFICES ASSUME Init PROVE SpreadInv
  OBVIOUS
<1>1. DeviceInv
  BY InitialDevices
<1>2. SeededRead /\ UnderWay = {}
  BY DEF Init, SeededRead, UnderWay, Under
<1>3. Cardinality(UnderWay) <= MaxOverlap
  BY <1>2, FS_EmptySet, BoundsAssumption
<1>4. \A e : DevicesOf(e) = 0
  <2>1. \A e : {r \in dispositivos : r.ingeniero = e} = {}
    BY DEF Init
  <2> QED BY <2>1, FS_EmptySet DEF DevicesOf
<1>5. CountsOld
  BY <1>4 DEF Init, CountsOld
<1>6. \A e \in Engineers, f \in Seeded, l \in 0..MaxDevices : Level(e, f, l)
  BY <1>4 DEF Level
<1> QED BY <1>1, <1>2, <1>3, <1>5, <1>6 DEF SpreadInv

LEMMA SpreadStep == SpreadInv /\ [CompleteNext]_vars => SpreadInv'
<1> SUFFICES ASSUME SpreadInv, [CompleteNext]_vars PROVE SpreadInv'
  OBVIOUS
<1>1. DeviceInv'
  BY DeviceStep DEF SpreadInv, Next
<1>2. CASE \E n \in Nodes : AddDevice(n)
  BY <1>1, <1>2, StartSpread
<1>3. ASSUME NEW d \in Devices, Handle(d) \/ Distribute(d) \/ Fail(d)
      PROVE  SpreadInv'
  BY <1>1, <1>3, HandledSpread, EngineersRead, DevicesRead, ChooseSpread, ProposalSpread
     DEF Handle, Distribute, Fail
<1>4. CASE UNCHANGED <<place, waiting, engRows, counts, row, dispositivos>>
  <2>1. SeededRead' /\ CountsOld' /\ UnderWay' \subseteq UnderWay
    BY <1>4 DEF SpreadInv, SeededRead, CountsOld, DevicesOf, UnderWay
  <2>2. \A e \in Engineers, l \in 0..MaxDevices : Rivals(e, l)' \subseteq Rivals(e, l)
    BY <1>4 DEF Rivals
  <2> QED BY <1>1, <1>4, <2>1, <2>2, UnderWayKept, LevelsKept
<1>5. CASE \/ \E e \in Engineers : AddIngeniero(e)
           \/ \E n, m \in Nodes : MasterChange(n, m)
           \/ UNCHANGED vars
  BY <1>4, <1>5 DEF AddIngeniero, MasterChange, vars, nodeVars, workVars
<1> QED BY <1>2, <1>3, <1>5 DEF CompleteNext

\* As long as every query is answered in time, no engineer has more devices
\* than one of the seed by more than can be under way at once: AddDevice counts
\* and inserts with nothing held in between, and each of the devices under way
\* may go by a count that is old (ticket_service.go:115-184, consensus.go:61-92).
THEOREM DevicesEven == CompleteSpec => []EvenSpread
<1>1. SpreadInv => EvenSpread
  <2> SUFFICES ASSUME SpreadInv, NEW e \in Engineers, NEW f \in Seeded
               PROVE  DevicesOf(e) - DevicesOf(f) <= MaxOverlap
    BY DEF EvenSpread
  <2>1. DeviceInv
    BY DEF SpreadInv
  <2>2. DevicesOf(e) \in 0..MaxDevices /\ DevicesOf(f) \in 0..MaxDevices
    BY <2>1, RowsFinite
  <2>3. CASE DevicesOf(f) < DevicesOf(e)
    <3>1. DevicesOf(e) + Cardinality(Rivals(e, DevicesOf(f))) <= DevicesOf(f) + MaxOverlap
      BY <2>2, <2>3 DEF SpreadInv, Level
    <3>2. Cardinality(Rivals(e, DevicesOf(f))) \in Nat
      BY <2>1, RivalsCount
    <3> QED BY <2>2, <3>1, <3>2, BoundsAssumption
  <2>4. CASE ~(DevicesOf(f) < DevicesOf(e))
    BY <2>2, <2>4, BoundsAssumption
  <2> QED BY <2>3, <2>4
<1> QED BY <1>1, InitialSpread, SpreadStep, PTL DEF CompleteSpec
=============================================================================
