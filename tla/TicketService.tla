---------------------------- MODULE TicketService ----------------------------
(***************************************************************************)
(* The tickets of internal/service, with the commit handler of main.go and *)
(* the tables of internal/db.  A row of INGENIEROS is kept by the node of  *)
(* its sucursal only, a row of TICKETS by the node of id_sucursal only; a  *)
(* raise reads the engineers of all nodes with the lock of internal/mutex, *)
(* and writes with the proposals of internal/consensus.                    *)
(*                                                                         *)
(* The lock is what FifoLock promises: one client inside.  A proposal is   *)
(* what AtomicCommit promises: it is aborted, or every node applies it in   *)
(* its own time, or never.  The proposer applies it last of all, when its  *)
(* COMMITs are sent.  That shows in a CLOSE_TICKET only, which changes the *)
(* tables of two nodes; the other operations change the table of one, the  *)
(* proposer's or that of the one receiver, and for these the COMMITs and   *)
(* the proposer's own handler are one step.  A query is what ListAll       *)
(* promises: the rows of the nodes that answered before the timeout, each  *)
(* read at a moment of its own.                                            *)
(***************************************************************************)
EXTENDS Naturals, FiniteSets, Bags

CONSTANTS
    Nodes,
    Engineers,
    Sucursal,       \* sucursal_id of each engineer
    Ids,            \* ticket ids newID can return; bound: as many are drawn
    None,           \* no engineer, no ticket, no node
    Raisers,        \* the nodes whose user raises tickets
    Closers,        \* the nodes whose user closes tickets
    Tasks,          \* bound: goroutines that run RedistributeTickets
    MaxAttempts,    \* raiseMaxRetries
    MaxCrashes,     \* bound: crashes in a behaviour
    MaxCloses       \* bound: tickets selected to be closed in a behaviour

ASSUME SucursalAssumption == Sucursal \in [Engineers -> Nodes]
ASSUME ActorsAssumption == IsFiniteSet(Nodes) /\ IsFiniteSet(Tasks) /\ Nodes \cap Tasks = {}
ASSUME NoneAssumption == None \notin Nodes \cup Engineers \cup Ids
ASSUME UsersAssumption == Raisers \subseteq Nodes /\ Closers \subseteq Nodes
ASSUME BoundsAssumption == MaxAttempts \in Nat \ {0} /\ MaxCrashes \in Nat /\ MaxCloses \in Nat

VARIABLES
    up,         \* the nodes that run; heartbeat holds exactly these alive
    available,  \* INGENIEROS.disponible, in the table of the engineer's node
    tickets,    \* the table TICKETS of each node
    commits,    \* COMMIT messages sent and not yet handled
    inside,     \* the nodes whose raise owns the lock
    user,       \* the user of each node: what is being done, and for a raise
                \*   its attempt, the chosen engineer, ticketID, and as history
                \*   the tickets this call of RaiseTicket has made
    task,       \* each redistribution: where it is, the master that runs it, the
                \*   dead node, and the tickets it has yet to reassign
    asked,      \* nodes that have yet to answer the query of a node or task
    seen,       \* the rows those that answered sent
    used,       \* ids already drawn
    doubtful,   \* history: the engineers of whom what the nodes acted on, or left
                \*   undone, is known to be wrong
    crashes, closes

userVars == <<user, used, closes>>
tableVars == <<available, tickets, commits, doubtful>>
listVars == <<asked, seen>>
nodeVars == <<up, crashes>>
vars == <<userVars, task, tableVars, listVars, nodeVars, inside>>

Row == [id : Ids, ing : Engineers, estado : {"ABIERTO", "CERRADO"},
        folio : Engineers \cup {None}]

\* suc is id_sucursal of the row of an INSERT or a REASSIGN.
Operation == [op : {"INSERT_TICKET", "REASSIGN_TICKET", "UPDATE_TICKET_FOLIO",
                    "UPDATE_INGENIERO_DISPONIBLE", "CLOSE_TICKET"},
              id : Ids, ing : Engineers, suc : Nodes \cup {None}]

Op(op, id, ing, suc) == [op |-> op, id |-> id, ing |-> ing, suc |-> suc]

AlivePeers(n) == up \ {n}
Quorum == 2 * Cardinality(up) > Cardinality(Nodes)

NewUser == [pc |-> "menu", attempt |-> 0, engineer |-> None, ticket |-> None, born |-> {}]
NewTask == [pc |-> "ready", host |-> None, dead |-> None, orphans |-> {}]

Init ==
    /\ up = Nodes
    /\ available = [e \in Engineers |-> TRUE]
    /\ tickets = [n \in Nodes |-> {}]
    /\ commits = EmptyBag
    /\ inside = {}
    /\ user = [n \in Nodes |-> NewUser]
    /\ task = [t \in Tasks |-> NewTask]
    /\ asked = [p \in Nodes \cup Tasks |-> {}]
    /\ seen = [p \in Nodes \cup Tasks |-> {}]
    /\ used = {}
    /\ doubtful = {}
    /\ crashes = 0
    /\ closes = 0

-----------------------------------------------------------------------------
(* The tables: what the commit handler of node k makes of an operation.    *)

NewRow(c) == [id |-> c.id, ing |-> c.ing, estado |-> "ABIERTO", folio |-> None]

\* INSERT OR IGNORE at the node of the row, UPDATE ... WHERE id at every node.
TicketsAfter(k, c) ==
    CASE c.op \in {"INSERT_TICKET", "REASSIGN_TICKET"} ->
            IF c.suc = k /\ \A r \in tickets[k] : r.id # c.id
            THEN tickets[k] \cup {NewRow(c)}
            ELSE tickets[k]
      [] c.op = "UPDATE_TICKET_FOLIO" ->
            {IF r.id = c.id THEN [r EXCEPT !.folio = c.ing] ELSE r : r \in tickets[k]}
      [] c.op = "CLOSE_TICKET" ->
            {IF r.id = c.id THEN [r EXCEPT !.estado = "CERRADO"] ELSE r : r \in tickets[k]}
      [] OTHER -> tickets[k]

\* Fault: the operation that marks an engineer is not known.
AvailableOnlyFreed(k, c) ==
    IF c.op = "CLOSE_TICKET" /\ Sucursal[c.ing] = k
    THEN [available EXCEPT ![c.ing] = TRUE]
    ELSE available

AvailableAfter(k, c) ==
    IF c.op \in {"UPDATE_INGENIERO_DISPONIBLE", "CLOSE_TICKET"} /\ Sucursal[c.ing] = k
    THEN [available EXCEPT ![c.ing] = c.op = "CLOSE_TICKET"]
    ELSE available

CommitHandler(k, c) ==
    /\ tickets' = [tickets EXCEPT ![k] = TicketsAfter(k, c)]
    /\ available' = AvailableAfter(k, c)

\* Whether k can have a use for c: COMMITs that cannot change a table of
\* their receiver are left out.  A ticket comes to a second node by a
\* redistribution only.
Concerns(c, k) ==
    CASE c.op \in {"INSERT_TICKET", "REASSIGN_TICKET"} -> c.suc = k
      [] c.op = "UPDATE_INGENIERO_DISPONIBLE" -> Sucursal[c.ing] = k
      [] OTHER -> \/ Tasks # {} \/ \E r \in tickets[k] : r.id = c.id
                  \/ c.op = "CLOSE_TICKET" /\ Sucursal[c.ing] = k

To(k, c) == [to |-> k, c |-> c]
CloseOf(n) == Op("CLOSE_TICKET", user[n].ticket, user[n].engineer, None)

\* What has been committed and is not applied yet: the COMMITs, and the close
\* whose proposer is still sending them.
Underway ==
    DOMAIN commits \cup
    {To(n, CloseOf(n)) : n \in {n \in Nodes : user[n].pc = "closing"}}

Open(k, id, e) == \E r \in tickets[k] : r.id = id /\ r.ing = e /\ r.estado = "ABIERTO"
BeingClosed(id) == \E m \in Underway : m.c.op = "CLOSE_TICKET" /\ m.c.id = id

\* Engineer e has ticket id: it is open, and no close of it is under way.
Busy(id, e) == ~BeingClosed(id) /\ \E k \in Nodes : Open(k, id, e)

\* The engineers whose row or whose open ticket was to change with what is in M
\* and will not.
Undone(M) ==
    {e \in Engineers : \E m \in M :
        \/ m.c.op = "UPDATE_INGENIERO_DISPONIBLE" /\ m.c.ing = e /\ m.to = Sucursal[e]
        \/ m.c.op = "CLOSE_TICKET" /\ Open(m.to, m.c.id, e)}

\* The engineer of a ticket that another user has closed is freed once more, and
\* the engineer of a ticket that is reassigned stays free.
Misused(c) ==
    {e \in Engineers :
        /\ e = c.ing
        /\ \/ c.op = "REASSIGN_TICKET"
           \/ c.op = "CLOSE_TICKET" /\ ~Busy(c.id, e)}

\* n sends the COMMITs of c; the nodes that are down get none.
SendCommits(n, c) ==
    /\ Quorum
    /\ commits' = commits (+) SetToBag({To(k, c) : k \in {k \in AlivePeers(n) : Concerns(c, k)}})
    /\ doubtful' = doubtful \cup Misused(c) \cup Undone({To(k, c) : k \in Nodes \ up})

\* A proposal of n that is committed.
Commit(n, c) ==
    /\ SendCommits(n, c)
    /\ CommitHandler(n, c)

HandleCommit(m) ==
    /\ m.to \in up
    /\ CommitHandler(m.to, m.c)
    /\ commits' = commits (-) SetToBag({m})
    /\ UNCHANGED <<task, userVars, listVars, nodeVars, inside, doubtful>>

\* A COMMIT whose send failed, that was on a connection that broke, or whose
\* handler returned an error.
Lose(m) ==
    /\ commits' = commits (-) SetToBag({m})
    /\ doubtful' = doubtful \cup Undone({m})
    /\ UNCHANGED <<task, userVars, listVars, nodeVars, inside, available, tickets>>

-----------------------------------------------------------------------------
(* ListAll, run by the user of a node or by a redistribution.              *)

LocalEngineers(k) == {e \in Engineers : Sucursal[e] = k /\ available[e]}
LocalTickets(k) == {[at |-> k, row |-> r] : r \in {r \in tickets[k] : r.estado = "ABIERTO"}}

\* The rows of interest in the answer to a query of p: free engineers or
\* open tickets.
LocalRows(p, k) ==
    IF (p \in Nodes /\ user[p].pc = "engineers") \/ (p \in Tasks /\ task[p].pc = "engineers")
    THEN LocalEngineers(k)
    ELSE LocalTickets(k)

\* n asks itself and the peers it holds alive.
Ask(p) ==
    /\ asked' = [asked EXCEPT ![p] = up]
    /\ seen' = [seen EXCEPT ![p] = {}]

\* The engineers a raise of p is shown as free by k while what marks or frees
\* them is on its way to k.
ReadEarly(p, k) ==
    {e \in LocalEngineers(k) :
        /\ p \in Nodes /\ user[p].pc = "engineers"
        /\ \E m \in Underway :
            /\ m.to = k /\ m.c.ing = e
            /\ m.c.op \in {"UPDATE_INGENIERO_DISPONIBLE", "CLOSE_TICKET"}}

\* The rows n was sent have been used.
Forget(n) ==
    /\ seen' = [seen EXCEPT ![n] = {}]
    /\ UNCHANGED asked

\* Node k answers the query of p, or p reads its own table.
Answer(p, k) ==
    /\ k \in asked[p] \cap up
    /\ seen' = [seen EXCEPT ![p] = @ \cup LocalRows(p, k)]
    /\ asked' = [asked EXCEPT ![p] = @ \ {k}]
    /\ doubtful' = doubtful \cup ReadEarly(p, k)
    /\ UNCHANGED <<task, userVars, available, tickets, commits, nodeVars, inside>>

\* queryTimeout: what has not been answered is missing from the result.
QueryTimeout(p) ==
    /\ asked[p] # {}
    /\ (IF p \in Nodes THEN p ELSE task[p].host) \notin asked[p]
    /\ asked' = [asked EXCEPT ![p] = {}]
    /\ UNCHANGED <<task, userVars, tableVars, seen, nodeVars, inside>>

-----------------------------------------------------------------------------
(* RaiseTicket.                                                            *)

RaiseTicket(n) ==
    /\ n \in Raisers \cap up
    /\ user[n].pc = "menu"
    /\ user' = [user EXCEPT ![n].pc = "acquire", ![n].attempt = 1]
    /\ UNCHANGED <<task, tableVars, listVars, nodeVars, inside, used, closes>>

\* Fault: one attempt too many.
AttemptFailsOffByOne(n) ==
    /\ inside' = inside \ {n}
    /\ \/ /\ user[n].attempt <= MaxAttempts
          /\ user' = [user EXCEPT ![n].pc = "acquire", ![n].attempt = @ + 1]
       \/ /\ user[n].attempt > MaxAttempts
          /\ user' = [user EXCEPT ![n] = NewUser]

\* raiseTicket returns an error: it releases the lock, and RaiseTicket sleeps
\* and tries again or returns the error.
AttemptFails(n) ==
    /\ inside' = inside \ {n}
    /\ \/ /\ user[n].attempt < MaxAttempts
          /\ user' = [user EXCEPT ![n].pc = "acquire", ![n].attempt = @ + 1]
       \/ /\ user[n].attempt = MaxAttempts
          /\ user' = [user EXCEPT ![n] = NewUser]

\* Fault: the engineers are looked up without the lock.
AcquireNothing(n) ==
    /\ user[n].pc = "acquire"
    /\ user' = [user EXCEPT ![n].pc = "engineers"]
    /\ Ask(n)
    /\ UNCHANGED <<task, tableVars, nodeVars, inside, used, closes>>

Acquire(n) ==
    /\ user[n].pc = "acquire"
    /\ inside = {}
    /\ inside' = {n}
    /\ user' = [user EXCEPT ![n].pc = "engineers"]
    /\ Ask(n)
    /\ UNCHANGED <<task, tableVars, nodeVars, used, closes>>

\* Without the lock, or with it and a table of its own that cannot be read, n has
\* asked for nothing: the attempt has failed.
AcquireFails(n) ==
    /\ user[n].pc = "acquire"
    /\ AttemptFails(n)
    /\ UNCHANGED <<task, tableVars, listVars, nodeVars, used, closes>>

\* Local rows come first in the result of ListAll, the others as they came.
Candidates(n) ==
    LET local == {e \in seen[n] : Sucursal[e] = n}
    IN  IF local # {} THEN local ELSE seen[n]

Choose(n, e) ==
    /\ user[n].pc = "engineers" /\ asked[n] = {}
    /\ e \in Candidates(n)
    /\ user' = [user EXCEPT ![n].engineer = e, ![n].pc = "insert"]
    /\ Forget(n)
    /\ UNCHANGED <<task, tableVars, nodeVars, inside, used, closes>>

NoEngineer(n) ==
    /\ user[n].pc = "engineers" /\ asked[n] = {}
    /\ seen[n] = {}
    /\ AttemptFails(n)
    /\ UNCHANGED <<task, tableVars, listVars, nodeVars, used, closes>>

InsertTicket(n, id) ==
    /\ user[n].pc = "insert"
    /\ id \in Ids \ used
    /\ used' = used \cup {id}
    /\ Commit(n, Op("INSERT_TICKET", id, user[n].engineer, n))
    /\ user' = [user EXCEPT ![n].ticket = id,
                            ![n].born = @ \cup {id},
                            ![n].pc = "folio"]
    /\ UNCHANGED <<task, listVars, nodeVars, inside, closes>>

\* The id that was drawn is seen by nobody and not counted among those used.
InsertFails(n) ==
    /\ user[n].pc = "insert"
    /\ AttemptFails(n)
    /\ UNCHANGED <<task, tableVars, listVars, nodeVars, used, closes>>

\* An error of this proposal and of the next is logged and no more.
UpdateFolio(n) ==
    /\ user[n].pc = "folio"
    /\ Commit(n, Op("UPDATE_TICKET_FOLIO", user[n].ticket, user[n].engineer, None))
    /\ user' = [user EXCEPT ![n].pc = "mark"]
    /\ UNCHANGED <<task, listVars, nodeVars, inside, used, closes>>

FolioFails(n) ==
    /\ user[n].pc = "folio"
    /\ user' = [user EXCEPT ![n].pc = "mark"]
    /\ UNCHANGED <<task, tableVars, listVars, nodeVars, inside, used, closes>>

\* raiseTicket returns nil and releases the lock.
Return(n) ==
    /\ inside' = inside \ {n}
    /\ user' = [user EXCEPT ![n] = NewUser]
    /\ UNCHANGED <<task, listVars, nodeVars, used, closes>>

MarkEngineer(n) ==
    /\ user[n].pc = "mark"
    /\ Commit(n, Op("UPDATE_INGENIERO_DISPONIBLE", user[n].ticket, user[n].engineer, None))
    /\ Return(n)

\* Fault: the error is returned, so that RaiseTicket tries again.
MarkFailsRaise(n) ==
    /\ user[n].pc = "mark"
    /\ AttemptFails(n)
    /\ UNCHANGED <<task, tableVars, listVars, nodeVars, used, closes>>

MarkFails(n) ==
    /\ user[n].pc = "mark"
    /\ Return(n)
    /\ doubtful' = doubtful \cup {user[n].engineer}
    /\ UNCHANGED <<available, tickets, commits>>

-----------------------------------------------------------------------------
(* The menu entry that closes a ticket: the user is shown the open tickets, *)
(* selects one, and it is closed without the lock.                         *)

ListOpen(n) ==
    /\ n \in Closers \cap up
    /\ user[n].pc = "menu"
    /\ user' = [user EXCEPT ![n].pc = "tickets"]
    /\ Ask(n)
    /\ UNCHANGED <<task, tableVars, nodeVars, inside, used, closes>>

\* The engineer of the row that was shown is the one that is freed.
Select(n, s) ==
    /\ user[n].pc = "tickets" /\ asked[n] = {}
    /\ s \in seen[n]
    /\ closes < MaxCloses /\ closes' = closes + 1
    /\ user' = [user EXCEPT ![n].ticket = s.row.id,
                            ![n].engineer = s.row.ing,
                            ![n].pc = "close"]
    /\ Forget(n)
    /\ UNCHANGED <<task, tableVars, nodeVars, inside, used>>

NothingOpen(n) ==
    /\ user[n].pc = "tickets" /\ asked[n] = {}
    /\ seen[n] = {}
    /\ user' = [user EXCEPT ![n] = NewUser]
    /\ UNCHANGED <<task, tableVars, listVars, nodeVars, inside, used, closes>>

CloseTicket(n) ==
    /\ user[n].pc = "close"
    /\ SendCommits(n, CloseOf(n))
    /\ user' = [user EXCEPT ![n].pc = "closing"]
    /\ UNCHANGED <<task, available, tickets, listVars, nodeVars, inside, used, closes>>

\* The proposal ends with the handler of n itself.
ApplyClose(n) ==
    /\ user[n].pc = "closing"
    /\ CommitHandler(n, CloseOf(n))
    /\ user' = [user EXCEPT ![n] = NewUser]
    /\ UNCHANGED <<task, commits, doubtful, listVars, nodeVars, inside, used, closes>>

\* The proposal is aborted, or the handler of n returns an error.
CloseFails(n) ==
    /\ user[n].pc \in {"close", "closing"}
    /\ doubtful' = doubtful \cup
            (IF user[n].pc = "closing" THEN Undone({To(n, CloseOf(n))}) ELSE {})
    /\ user' = [user EXCEPT ![n] = NewUser]
    /\ UNCHANGED <<task, available, tickets, commits, listVars, nodeVars, inside, used, closes>>

-----------------------------------------------------------------------------
(* RedistributeTickets, run by a master without the lock.                  *)

\* Master n runs it for d, which n or the sender of a NODE_DEAD gave up for
\* dead: d is down, or its PONGs were late, or it has come back since.
RedistributeTickets(t, n, d) ==
    /\ task[t].pc = "ready"
    /\ n \in up /\ d # n
    /\ task' = [task EXCEPT ![t].pc = "tickets", ![t].host = n, ![t].dead = d]
    /\ Ask(t)
    /\ UNCHANGED <<userVars, tableVars, nodeVars, inside>>

\* Fault: the open tickets of every node.
FindOrphansAnywhere(t) ==
    LET found == {s.row : s \in seen[t]}
    IN  /\ task[t].pc = "tickets" /\ asked[t] = {}
        /\ found # {}
        /\ task' = [task EXCEPT ![t].pc = "engineers", ![t].orphans = found]
        /\ Ask(t)
        /\ UNCHANGED <<userVars, tableVars, nodeVars, inside>>

\* The open tickets whose id_sucursal is the dead node; without any it is over.
FindOrphans(t) ==
    LET found == {s.row : s \in {s \in seen[t] : s.at = task[t].dead}}
    IN  /\ task[t].pc = "tickets" /\ asked[t] = {}
        /\ \/ /\ found = {}
              /\ task' = [task EXCEPT ![t].pc = "done"]
              /\ UNCHANGED listVars
           \/ /\ found # {}
              /\ task' = [task EXCEPT ![t].pc = "engineers", ![t].orphans = found]
              /\ Ask(t)
        /\ UNCHANGED <<userVars, tableVars, nodeVars, inside>>

\* seen becomes the slice available: the free engineers of the other nodes.
FindEngineers(t) ==
    /\ task[t].pc = "engineers" /\ asked[t] = {}
    /\ seen' = [seen EXCEPT ![t] = {e \in @ : Sucursal[e] # task[t].dead}]
    /\ task' = [task EXCEPT ![t].pc = "reassign"]
    /\ UNCHANGED <<userVars, tableVars, asked, nodeVars, inside>>

\* The next engineer is used up even if the proposal fails.
NextOrphan(t, r, e) ==
    /\ task[t].pc = "reassign"
    /\ r \in task[t].orphans /\ e \in seen[t]
    /\ task' = [task EXCEPT ![t].orphans = @ \ {r}]
    /\ seen' = [seen EXCEPT ![t] = @ \ {e}]
    /\ UNCHANGED <<userVars, asked, nodeVars, inside>>

Reassign(t, r, e) ==
    /\ NextOrphan(t, r, e)
    /\ Commit(task[t].host, Op("REASSIGN_TICKET", r.id, e, Sucursal[e]))

ReassignFails(t, r, e) ==
    /\ NextOrphan(t, r, e)
    /\ UNCHANGED tableVars

EndRedistribution(t) ==
    /\ task[t].pc = "reassign"
    /\ task[t].orphans = {} \/ seen[t] = {}
    /\ task' = [task EXCEPT ![t].pc = "done"]
    /\ UNCHANGED <<userVars, tableVars, listVars, nodeVars, inside>>

-----------------------------------------------------------------------------
(* The environment.                                                        *)

\* The process of a node stops, with what its user does and the
\* redistributions on it.  Its tables are files and stay.  The lock it owned
\* stays with it, unless it was the master as well.
Crash(n) ==
    /\ n \in up
    /\ crashes < MaxCrashes
    /\ crashes' = crashes + 1
    /\ up' = up \ {n}
    /\ commits' = [m \in {m \in DOMAIN commits : m.to # n} |-> commits[m]]
    /\ user' = [user EXCEPT ![n] = NewUser]
    /\ task' = [t \in Tasks |->
                   IF task[t].host = n THEN [task[t] EXCEPT !.pc = "cut short"] ELSE task[t]]
    /\ asked' = [p \in Nodes \cup Tasks |->
                   IF p = n \/ (p \in Tasks /\ task[p].host = n) THEN {} ELSE asked[p]]
    /\ inside' \in {inside, inside \ {n}}
    /\ doubtful' = doubtful
            \cup Undone({m \in Underway : m.to = n})
            \cup {e \in Engineers : user[n].pc \in {"folio", "mark"} /\ user[n].engineer = e}
    /\ UNCHANGED <<used, closes, available, tickets, seen>>

\* A restart takes longer than queryTimeout.
Restart(n) ==
    /\ n \notin up
    /\ \A p \in Nodes \cup Tasks : n \notin asked[p]
    /\ up' = up \cup {n}
    /\ UNCHANGED <<task, userVars, tableVars, listVars, crashes, inside>>

-----------------------------------------------------------------------------
\* What a raise and a close do when no proposal fails and no query times out.
Raise(n) ==
    \/ RaiseTicket(n)
    \/ Acquire(n)
    \/ \E e \in Engineers : Choose(n, e)
    \/ NoEngineer(n)
    \/ \E id \in Ids : InsertTicket(n, id)
    \/ UpdateFolio(n)
    \/ MarkEngineer(n)

Close(n) ==
    \/ ListOpen(n)
    \/ \E s \in seen[n] : user[n].pc = "tickets" /\ Select(n, s)
    \/ NothingOpen(n)
    \/ CloseTicket(n)
    \/ ApplyClose(n)

ProposalFails(n) ==
    \/ InsertFails(n)
    \/ FolioFails(n)
    \/ MarkFails(n)
    \/ CloseFails(n)

Redistribution(t) ==
    \/ \E n, d \in Nodes : RedistributeTickets(t, n, d)
    \/ FindOrphans(t)
    \/ FindEngineers(t)
    \/ \E r \in task[t].orphans, e \in Engineers : Reassign(t, r, e) \/ ReassignFails(t, r, e)
    \/ EndRedistribution(t)

ReliableNext ==
    \/ \E n \in Nodes : Raise(n) \/ Close(n)
    \/ \E p \in Nodes \cup Tasks, k \in Nodes : Answer(p, k)
    \/ \E m \in DOMAIN commits : HandleCommit(m)

\* What is committed is applied before the next query of the node.
TimelyNext ==
    \/ \E n \in Nodes : Raise(n) \/ Close(n)
    \/ \E p \in Nodes \cup Tasks, k \in Nodes :
            (\A m \in Underway : m.to # k) /\ Answer(p, k)
    \/ \E m \in DOMAIN commits : HandleCommit(m)

Next ==
    \/ ReliableNext
    \/ \E n \in Nodes : AcquireFails(n) \/ ProposalFails(n) \/ Crash(n) \/ Restart(n)
    \/ \E p \in Nodes \cup Tasks : QueryTimeout(p)
    \/ \E m \in DOMAIN commits : Lose(m)
    \/ \E t \in Tasks : Redistribution(t)

TimelySpec == Init /\ [][TimelyNext]_vars
ReliableSpec == Init /\ [][ReliableNext]_vars
Spec == Init /\ [][Next]_vars

-----------------------------------------------------------------------------
(* Properties.                                                             *)

\* The values the variables can have.
TypeOK ==
    /\ up \subseteq Nodes
    /\ available \in [Engineers -> BOOLEAN]
    /\ tickets \in [Nodes -> SUBSET Row]
    /\ IsABag(commits) /\ DOMAIN commits \subseteq [to : Nodes, c : Operation]
    /\ inside \subseteq Nodes
    /\ user \in [Nodes -> [pc : {"menu", "acquire", "engineers", "insert", "folio", "mark",
                               "tickets", "close", "closing"},
                         attempt : 0..MaxAttempts, engineer : Engineers \cup {None},
                         ticket : Ids \cup {None}, born : SUBSET Ids]]
    /\ task \in [Tasks -> [pc : {"ready", "tickets", "engineers", "reassign", "done", "cut short"},
                         host : Nodes \cup {None}, dead : Nodes \cup {None},
                         orphans : SUBSET Row]]
    /\ asked \in [Nodes \cup Tasks -> SUBSET Nodes]
    /\ \A p \in Nodes \cup Tasks :
        seen[p] \subseteq Engineers \/ seen[p] \subseteq [at : Nodes, row : Row]
    /\ used \subseteq Ids
    /\ doubtful \subseteq Engineers
    /\ crashes \in 0..MaxCrashes /\ closes \in 0..MaxCloses

\* The open tickets of an engineer, a ticket that has two rows twice.
OpenOf(e) ==
    {s \in UNION {LocalTickets(n) : n \in Nodes} : s.row.ing = e /\ ~BeingClosed(s.row.id)}

\* "adquiere el lock de exclusion mutua para evitar doble asignacion"
\* (ticket_service.go:218): no engineer has two open tickets.
NoDoubleAssignment == \A e \in Engineers : Cardinality(OpenOf(e)) <= 1

\* What the lock does for it: an engineer has two open tickets only after a raise
\* was shown him as free while his mark or his release was on its way, after a
\* close of a ticket that somebody else had closed, or after one of the failures
\* noted in doubtful.
TwiceOnlyIfDoubtful == \A e \in Engineers \ doubtful : Cardinality(OpenOf(e)) <= 1

\* No raise, no close and no COMMIT is under way.
Settled == commits = EmptyBag /\ \A n \in Nodes : user[n].pc = "menu"

\* When everything has come to rest an engineer that has an open ticket is not
\* offered to the next raise (ticket_service.go:277-282), with the same exceptions.
FreeOnlyIfDoubtful ==
    Settled => \A e \in Engineers \ doubtful : OpenOf(e) # {} => ~available[e]

\* "el ingeniero queda disponible para recibir nuevos tickets"
\* (ticket_service.go:289-290): at rest an engineer without an open ticket is
\* free.
IdleAreFree == Settled => \A e \in Engineers : OpenOf(e) = {} => available[e]

\* However often RaiseTicket tries it makes one ticket: an attempt that will
\* be followed by another has made none, and one that made a ticket is the
\* last.
OneTicketPerRaise ==
    \A n \in Nodes :
        /\ Cardinality(user[n].born) <= 1
        /\ user[n].pc \in {"acquire", "engineers", "insert"} => user[n].born = {}

\* The nodes that have a row of a ticket.
Holders(id) == {n \in Nodes : \E r \in tickets[n] : r.id = id}

\* A ticket is copied only by redistributions for a node that has it and was given
\* up for dead, and each of them copies it once at most, however redistribution,
\* raise, close, crash and late COMMITs overlap: every row but the first has a
\* redistribution of its own.
CopiesOnlyOfGivenUp ==
    \A id \in Ids :
        Cardinality(Holders(id)) <= 1 + Cardinality({t \in Tasks : task[t].dead \in Holders(id)})

\* "reasigna los tickets abiertos de un nodo caido a ingenieros disponibles"
\* (ticket_service.go:301): a redistribution that is over has left no open
\* ticket of a node that is still away to itself while another node has a
\* free engineer.
DeadTicketsReassigned ==
    \A t \in Tasks : task[t].pc = "done" /\ task[t].dead \notin up =>
        \A s \in LocalTickets(task[t].dead) :
            \/ \E n \in up : \E r \in tickets[n] : r.id = s.row.id
            \/ \A e \in Engineers : Sucursal[e] \in up => ~available[e]
=============================================================================
