---------------------------- MODULE DeviceService -----------------------------
(***************************************************************************)
(* The devices of internal/service: AddDevice, HandleAddDevice and         *)
(* distributeDevice, with the part of the commit handler and of the        *)
(* database they use, and AddIngeniero.                                    *)
(*                                                                         *)
(* A device is handed to the master, which counts the devices of every     *)
(* engineer and gives it to one who has the fewest.  Counting is two       *)
(* queries that every node answers at a moment of its own; nothing is      *)
(* locked, and each ADD_DEVICE has a goroutine of its own.  The row goes   *)
(* to the node of the engineer with a COMMIT, under an id that the process *)
(* of the distributor has drawn for that node.                             *)
(***************************************************************************)
EXTENDS Integers, FiniteSets

CONSTANTS
    Nodes,
    Engineers,      \* ids of engineers
    Sucursal,       \* sucursal_id of each engineer
    Seeded,         \* the engineers of the seed
    InitialMaster,  \* master_id of nodes.json
    FirstCounters,  \* what idCounter of a process can be when it starts
    MaxDevices,     \* bound: devices added in a behaviour
    MaxOverlap,     \* bound: devices the users of all nodes add at once
    MaxAttempts,    \* proposeMaxRetries
    MaxChanges      \* bound: nodes that change their mind about the master

ASSUME EngineersAssumption ==
    Engineers \subseteq Nat /\ Sucursal \in [Engineers -> Nodes] /\ Seeded \subseteq Engineers
ASSUME MasterAssumption == InitialMaster \in Nodes
ASSUME CounterAssumption == FirstCounters \subseteq Nat
ASSUME BoundsAssumption ==
    MaxDevices \in Nat /\ MaxOverlap \in Nat /\ MaxChanges \in Nat /\ MaxAttempts \in Nat \ {0}

VARIABLES
    masterID,     \* State.masterID of each node
    idCounter,    \* one per process
    ingenieros,   \* the tables INGENIEROS of all nodes: a row is at its sucursal
    dispositivos, \* the tables DISPOSITIVOS of all nodes
    added,        \* devices users have asked for, numbered in that order
    place,        \* where the device is
    at,           \* the node that handles it
    waiting,      \* nodes that have yet to answer the query
    engRows,      \* rows of INGENIEROS that came back
    counts,       \* devices of each engineer, of those that came back
    row,          \* the row that is proposed
    attempt,      \* of Propose
    changes

workVars == <<at, waiting, engRows, counts, row, attempt>>
nodeVars == <<masterID, changes>>
vars == <<nodeVars, workVars, idCounter, ingenieros, dispositivos, added, place>>

Devices == 1..MaxDevices
Places == {"menu",         \* not added yet
           "send",         \* AddDevice runs at a node that was not master
           "ADD_DEVICE",   \* the message is under way
           "engineers", "devices", "propose",   \* distributeDevice
           "COMMIT",       \* the message to the engineer's node is under way
           "applied",      \* the commit handler of that node has run
           "error",        \* reported to the user, or logged by a node
           "lost",         \* the message was lost
           "dropped"}      \* HandleAddDevice ran at a node that is not master
Under == {"send", "ADD_DEVICE", "engineers", "devices", "propose", "COMMIT"}

Row == [id : Nodes \X Nat, device : Devices, ingeniero : Engineers]
NoRow == [id |-> <<InitialMaster, 0>>, device |-> 0, ingeniero |-> 0]

DevicesOf(e) == Cardinality({r \in dispositivos : r.ingeniero = e})
Stored(d) == \E r \in dispositivos : r.device = d

Init ==
    /\ masterID = [n \in Nodes |-> InitialMaster]
    /\ idCounter \in [Nodes -> FirstCounters]
    /\ ingenieros = Seeded
    /\ dispositivos = {}
    /\ added = 0
    /\ place = [d \in Devices |-> "menu"]
    /\ at = [d \in Devices |-> InitialMaster]
    /\ waiting = [d \in Devices |-> {}]
    /\ engRows = [d \in Devices |-> {}]
    /\ counts = [d \in Devices |-> [e \in Engineers |-> 0]]
    /\ row = [d \in Devices |-> NoRow]
    /\ attempt = [d \in Devices |-> 1]
    /\ changes = 0

-----------------------------------------------------------------------------
(* The user's node.                                                        *)

GoTo(d, p) == place' = [place EXCEPT ![d] = p]

\* distributeDevice up to its first query.
StartDistribution(d, n) ==
    /\ GoTo(d, "engineers")
    /\ waiting' = [waiting EXCEPT ![d] = Nodes]
    /\ at' = [at EXCEPT ![d] = n]

\* AddDevice up to the second time it reads masterID, if node n is not master.
AddDevice(n) ==
    LET d == added + 1
    IN  /\ d \in Devices
        /\ Cardinality({x \in Devices : place[x] \in Under}) < MaxOverlap
        /\ added' = d
        /\ IF masterID[n] = n
           THEN StartDistribution(d, n)
           ELSE /\ GoTo(d, "send")
                /\ at' = [at EXCEPT ![d] = n]
                /\ UNCHANGED waiting
        /\ UNCHANGED <<nodeVars, engRows, counts, row, attempt, idCounter, ingenieros, dispositivos>>

\* The node it is sent to may be node n itself by now.
SendToMaster(d) ==
    /\ place[d] = "send"
    /\ GoTo(d, "ADD_DEVICE")
    /\ at' = [at EXCEPT ![d] = masterID[@]]
    /\ UNCHANGED <<nodeVars, waiting, engRows, counts, row, attempt, idCounter, ingenieros, dispositivos, added>>

SendFails(d) ==
    /\ place[d] = "send"
    /\ GoTo(d, "error")
    /\ UNCHANGED <<nodeVars, workVars, idCounter, ingenieros, dispositivos, added>>

\* Fault: newID adds without a lock, and two goroutines that add at once add one.
NewIDUnsafe(n) ==
    \/ idCounter' = [idCounter EXCEPT ![n] = @ + 1]
    \/ /\ Cardinality({d \in Devices : at[d] = n /\ place[d] = "devices" /\ waiting[d] = {}}) > 1
       /\ UNCHANGED idCounter

\* newID in the process of node n.
NewID(n) == idCounter' = [idCounter EXCEPT ![n] = @ + 1]

\* INSERT_INGENIERO is applied by the node that proposes it, and by no other.
AddIngeniero(e) ==
    /\ e \notin ingenieros
    /\ NewID(Sucursal[e])
    /\ ingenieros' = ingenieros \cup {e}
    /\ UNCHANGED <<nodeVars, workVars, dispositivos, added, place>>

-----------------------------------------------------------------------------
(* The master's node.                                                      *)

HandleAddDevice(d) ==
    /\ place[d] = "ADD_DEVICE"
    /\ IF masterID[at[d]] = at[d]
       THEN StartDistribution(d, at[d])
       ELSE GoTo(d, "dropped") /\ UNCHANGED <<waiting, at>>
    /\ UNCHANGED <<nodeVars, engRows, counts, row, attempt, idCounter, ingenieros, dispositivos, added>>

\* The rows node n sends, or for the distributor itself reads.
ReadEngineers(d, n) ==
    /\ place[d] = "engineers" /\ n \in waiting[d]
    /\ waiting' = [waiting EXCEPT ![d] = @ \ {n}]
    /\ engRows' = [engRows EXCEPT ![d] = @ \cup {e \in ingenieros : Sucursal[e] = n}]
    /\ UNCHANGED <<nodeVars, at, counts, row, attempt, idCounter, ingenieros, dispositivos, added, place>>

\* The first query is over: the second one starts, unless there are no rows.
CountDevices(d) ==
    /\ place[d] = "engineers" /\ waiting[d] = {}
    /\ IF engRows[d] = {}
       THEN GoTo(d, "error") /\ UNCHANGED waiting
       ELSE GoTo(d, "devices") /\ waiting' = [waiting EXCEPT ![d] = Nodes]
    /\ UNCHANGED <<nodeVars, at, engRows, counts, row, attempt, idCounter, ingenieros, dispositivos, added>>

ReadDevices(d, n) ==
    /\ place[d] = "devices" /\ n \in waiting[d]
    /\ waiting' = [waiting EXCEPT ![d] = @ \ {n}]
    /\ counts' = [counts EXCEPT ![d] = [e \in Engineers |->
                    IF Sucursal[e] = n THEN DevicesOf(e) ELSE @[e]]]
    /\ UNCHANGED <<nodeVars, at, engRows, row, attempt, idCounter, ingenieros, dispositivos, added, place>>

\* The distributor cannot read its own table: ListAll returns the error.
QueryFails(d) ==
    /\ place[d] \in {"engineers", "devices"} /\ at[d] \in waiting[d]
    /\ GoTo(d, "error")
    /\ UNCHANGED <<nodeVars, workVars, idCounter, ingenieros, dispositivos, added>>

\* A node does not answer within queryTimeout, or not at all because it cannot
\* read its table; its rows are missing.
QueryTimeout(d) ==
    /\ place[d] \in {"engineers", "devices"} /\ waiting[d] \ {at[d]} # {}
    /\ at[d] \notin waiting[d]
    /\ waiting' = [waiting EXCEPT ![d] = {}]
    /\ UNCHANGED <<nodeVars, at, engRows, counts, row, attempt, idCounter, ingenieros, dispositivos, added, place>>

\* Fault: an engineer without a device is not among the counts, and passed over.
FewestCounted(d) ==
    LET S == {e \in engRows[d] : counts[d][e] > 0}
        T == IF S = {} THEN engRows[d] ELSE S
    IN  {e \in T : \A f \in T : counts[d][e] <= counts[d][f]}

Fewest(d) == {e \in engRows[d] : \A f \in engRows[d] : counts[d][e] <= counts[d][f]}
\* Of these, the ones that come first in the list: the local
\* rows, in the order of their ids, then those of each peer as it answered.
Precedes(d, e, f) == \/ Sucursal[e] = at[d] /\ Sucursal[f] # at[d]
                     \/ Sucursal[e] = Sucursal[f] /\ e < f
Chosen(d) == {e \in Fewest(d) : \A f \in Fewest(d) : ~Precedes(d, f, e)}

\* Fault: the id is drawn for the distributor's node.
IdForSelf(e, n) == <<n, idCounter[n] + 1>>

\* The id node n draws for a device of engineer e.
IdFor(e, n) == <<Sucursal[e], idCounter[n] + 1>>

Choose(d) ==
    /\ place[d] = "devices" /\ waiting[d] = {}
    /\ \E e \in Chosen(d) :
         row' = [row EXCEPT ![d] = [id |-> IdFor(e, at[d]),
                                    device |-> d, ingeniero |-> e]]
    /\ NewID(at[d])
    /\ GoTo(d, "propose")
    /\ UNCHANGED <<nodeVars, at, waiting, engRows, counts, attempt, ingenieros, dispositivos, added>>

-----------------------------------------------------------------------------
(* The proposal.                                                           *)

\* INSERT OR IGNORE by the commit handler of the engineer's node.
Insert(r) ==
    dispositivos' = IF \E x \in dispositivos : x.id = r.id
                    THEN dispositivos
                    ELSE dispositivos \cup {r}

\* The row is for the distributor itself, or for the node it sends a COMMIT.
ProposeCommits(d) ==
    /\ place[d] = "propose"
    /\ IF Sucursal[row[d].ingeniero] = at[d]
       THEN Insert(row[d]) /\ GoTo(d, "applied")
       ELSE GoTo(d, "COMMIT") /\ UNCHANGED dispositivos
    /\ UNCHANGED <<nodeVars, workVars, idCounter, ingenieros, added>>

\* A round without a majority, or an error of the distributor's own handler:
\* nobody has applied anything.
ProposeFails(d) ==
    /\ place[d] = "propose"
    /\ IF attempt[d] = MaxAttempts
       THEN GoTo(d, "error") /\ UNCHANGED attempt
       ELSE attempt' = [attempt EXCEPT ![d] = @ + 1] /\ UNCHANGED place
    /\ UNCHANGED <<nodeVars, at, waiting, engRows, counts, row, idCounter, ingenieros, dispositivos, added>>

HandleCommit(d) ==
    /\ place[d] = "COMMIT"
    /\ Insert(row[d])
    /\ GoTo(d, "applied")
    /\ UNCHANGED <<nodeVars, workVars, idCounter, ingenieros, added>>

\* The commit handler of the engineer's node returns an error, which is logged.
CommitFails(d) ==
    /\ place[d] = "COMMIT"
    /\ GoTo(d, "error")
    /\ UNCHANGED <<nodeVars, workVars, idCounter, ingenieros, dispositivos, added>>

-----------------------------------------------------------------------------
(* The environment.                                                        *)

Lose(d) ==
    /\ place[d] \in {"ADD_DEVICE", "COMMIT"}
    /\ GoTo(d, "lost")
    /\ UNCHANGED <<nodeVars, workVars, idCounter, ingenieros, dispositivos, added>>

\* SetMaster: election.go decides, node n follows.
MasterChange(n, m) ==
    /\ changes < MaxChanges /\ masterID[n] # m
    /\ changes' = changes + 1
    /\ masterID' = [masterID EXCEPT ![n] = m]
    /\ UNCHANGED <<workVars, idCounter, ingenieros, dispositivos, added, place>>

Propose(d) == ProposeCommits(d) \/ ProposeFails(d)
Distribute(d) ==
    \/ \E n \in Nodes : ReadEngineers(d, n) \/ ReadDevices(d, n)
    \/ CountDevices(d)
    \/ Choose(d)
    \/ Propose(d)
Handle(d) == SendToMaster(d) \/ HandleAddDevice(d) \/ HandleCommit(d)
Fail(d) == SendFails(d) \/ QueryFails(d) \/ CommitFails(d) \/ Lose(d)

CompleteNext ==
    \/ \E n \in Nodes : AddDevice(n)
    \/ \E e \in Engineers : AddIngeniero(e)
    \/ \E d \in Devices : Handle(d) \/ Distribute(d) \/ Fail(d)
    \/ \E n, m \in Nodes : MasterChange(n, m)

\* No node fails to answer a query in time.
CompleteSpec == Init /\ [][CompleteNext]_vars

Next == CompleteNext \/ \E d \in Devices : QueryTimeout(d)
Spec == Init /\ [][Next]_vars

\* Goroutines run, and a message that is not lost is handled.
FairSpec ==
    /\ CompleteSpec
    /\ \A d \in Devices : WF_vars(Handle(d)) /\ WF_vars(Distribute(d))

-----------------------------------------------------------------------------
(* Properties.                                                             *)

\* Rows have the sucursal of their engineer, no id is in a table twice, and what
\* is proposed was drawn from the counter of the distributor.
TypeOK ==
    /\ masterID \in [Nodes -> Nodes]
    /\ idCounter \in [Nodes -> Nat]
    /\ Seeded \subseteq ingenieros /\ ingenieros \subseteq Engineers
    /\ dispositivos \subseteq Row
    /\ added \in 0..MaxDevices
    /\ place \in [Devices -> Places]
    /\ at \in [Devices -> Nodes]
    /\ waiting \in [Devices -> SUBSET Nodes]
    /\ engRows \in [Devices -> SUBSET Engineers]
    /\ counts \in [Devices -> [Engineers -> 0..MaxDevices]]
    /\ row \in [Devices -> Row \cup {NoRow}]
    /\ attempt \in [Devices -> 1..MaxAttempts]
    /\ changes \in 0..MaxChanges
    /\ \A r \in dispositivos : r.id[1] = Sucursal[r.ingeniero]
    /\ \A r, s \in dispositivos : r.id = s.id => r = s

\* The comment of AddDevice says that the master distributes devices evenly
\* (ticket_service.go:115): no engineer has more devices than another one who was
\* there from the start by more than the devices that are ever added at once,
\* though counts are old when they are used, masters change, and messages are
\* lost or late.
EvenSpread ==
    \A e \in Engineers, f \in Seeded : DevicesOf(e) - DevicesOf(f) <= MaxOverlap

\* A device a user adds is stored in the end, or an error is reported or logged,
\* unless its message is lost: ids drawn at once do not hide one another, and
\* under one master nothing is dropped.
EveryDeviceStored ==
    []<>(changes = 0 => \A d \in 1..added : Stored(d) \/ place[d] \in {"error", "lost"})

\* What is applied is stored, which two masters with equal counters break: the
\* comment of idCounter (ticket_service.go:26) has ids unique at each node.
AppliedIsStored == \A d \in Devices : place[d] = "applied" => Stored(d)

\* AddDevice has returned without an error, and the device is nowhere.
NothingDropped == \A d \in Devices : place[d] # "dropped"
=============================================================================
