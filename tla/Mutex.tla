------------------------------- MODULE Mutex -------------------------------
(***************************************************************************)
(* The distributed lock of internal/mutex: every node runs an Engine, and  *)
(* the engine of the node that is master arbitrates the lock.  A client is *)
(* a goroutine that calls Acquire and later the returned release closure.  *)
(*                                                                         *)
(* Request identifiers are uuids: each attempt draws one never used before.*)
(* The network is a set of messages, because the hub of the receiver hands *)
(* each message to a goroutine of its own, in any order; a message is      *)
(* never sent twice.                                                       *)
(***************************************************************************)
EXTENDS Naturals, Sequences

CONSTANTS
    Nodes,          \* the sucursales
    Clients,        \* goroutines that acquire and release the lock
    Home,           \* the node each client runs on
    Requests,       \* request identifiers (uuid)
    Free,           \* the value "" of Engine.holder
    InitialMaster,  \* master_id of nodes.json
    MaxAttempts     \* acquireMaxRetries

ASSUME HomeAssumption == Home \in [Clients -> Nodes]
ASSUME MasterAssumption == InitialMaster \in Nodes
ASSUME FreeAssumption == Free \notin Requests
ASSUME AttemptsAssumption == MaxAttempts \in Nat \ {0}

VARIABLES
    masterOf,   \* State.masterID of each node
    holder,     \* Engine.holder of each node
    queue,      \* Engine.queue of each node
    grants,     \* the keys of Engine.grants of each node
    chan,       \* whether the channel made for a request holds its token
    net,        \* messages sent and not yet handled
    pc,         \* where each client is
    req,        \* the request of each client's current attempt
    attempt,    \* the attempt of Acquire each client is at
    used        \* request identifiers already drawn

engineVars == <<holder, queue, grants, chan>>
clientVars == <<pc, req, attempt, used>>
vars == <<masterOf, engineVars, net, clientVars>>

PendingReq == [requestID : Requests, fromNode : Nodes]

Message == [type : {"LOCK_REQUEST", "LOCK_GRANT", "LOCK_DENY", "LOCK_RELEASE"},
            requestID : Requests, from : Nodes, to : Nodes]

Msg(type, r, from, to) ==
    [type |-> type, requestID |-> r, from |-> from, to |-> to]

(***************************************************************************)
(* idle      not in Acquire                                                *)
(* acquire   about to run one attempt                                      *)
(* local     the attempt goes to the local engine                          *)
(* enqueued  in the queue of the local engine, channel not yet registered  *)
(* waitLocal, waitRemote   blocked in the select                           *)
(* remote    the attempt goes to the master over TCP                       *)
(* critLocal, critRemote   owns a release closure it has not called        *)
(***************************************************************************)
Locations == {"idle", "acquire", "local", "enqueued", "waitLocal",
              "remote", "waitRemote", "critLocal", "critRemote"}

Critical(c) == pc[c] \in {"critLocal", "critRemote"}

Fresh == Requests \ used

Init ==
    /\ masterOf = [n \in Nodes |-> InitialMaster]
    /\ holder = [n \in Nodes |-> Free]
    /\ queue = [n \in Nodes |-> <<>>]
    /\ grants = [n \in Nodes |-> {}]
    /\ chan = [r \in Requests |-> FALSE]
    /\ net = {}
    /\ pc = [c \in Clients |-> "idle"]
    /\ req = [c \in Clients |-> Free]
    /\ attempt = [c \in Clients |-> 0]
    /\ used = {}

-----------------------------------------------------------------------------
(* The arbiter: what an engine does with its holder and its queue.         *)

\* Fault: the newest request goes to the front.
EnqueueInFront(n, r, from) ==
    queue' = [queue EXCEPT ![n] = <<[requestID |-> r, fromNode |-> from]>> \o @]

Enqueue(n, r, from) ==
    queue' = [queue EXCEPT ![n] = Append(@, [requestID |-> r, fromNode |-> from])]

\* Fault: the lock is freed and the queue forgotten.
ReleaseLocalForgetsQueue(n, r, rest) ==
    /\ holder' = [holder EXCEPT ![n] = IF @ = r THEN Free ELSE @]
    /\ net' = rest
    /\ UNCHANGED <<queue, grants, chan>>

\* Fault: whoever asks, the current holder is released.
ReleaseLocalUnchecked(n, r, rest) ==
    /\ holder' = [holder EXCEPT ![n] = Free]
    /\ net' = rest
    /\ UNCHANGED <<queue, grants, chan>>

\* releaseLocal of engine n; rest is the network without the message that
\* caused the call.  A waiter that has no registered channel is sent a
\* LOCK_GRANT, even when it waits on n itself.
ReleaseLocal(n, r, rest) ==
    \/ /\ holder[n] # r
       /\ net' = rest
       /\ UNCHANGED engineVars
    \/ /\ holder[n] = r
       /\ queue[n] = <<>>
       /\ holder' = [holder EXCEPT ![n] = Free]
       /\ net' = rest
       /\ UNCHANGED <<queue, grants, chan>>
    \/ /\ holder[n] = r
       /\ queue[n] # <<>>
       /\ LET next == Head(queue[n]) IN
            /\ holder' = [holder EXCEPT ![n] = next.requestID]
            /\ queue' = [queue EXCEPT ![n] = Tail(@)]
            /\ \/ /\ next.requestID \in grants[n]
                  /\ chan' = [chan EXCEPT ![next.requestID] = TRUE]
                  /\ grants' = [grants EXCEPT ![n] = @ \ {next.requestID}]
                  /\ net' = rest
               \/ /\ next.requestID \notin grants[n]
                  /\ net' = rest \cup
                        {Msg("LOCK_GRANT", next.requestID, n, next.fromNode)}
                  /\ UNCHANGED <<grants, chan>>

-----------------------------------------------------------------------------
(* The clients.                                                            *)

Goto(c, loc) == pc' = [pc EXCEPT ![c] = loc]

\* Fault: one attempt too many.
AttemptFailsOffByOne(c) ==
    \/ /\ attempt[c] <= MaxAttempts
       /\ Goto(c, "acquire")
       /\ attempt' = [attempt EXCEPT ![c] = @ + 1]
    \/ /\ attempt[c] > MaxAttempts
       /\ Goto(c, "idle")
       /\ attempt' = [attempt EXCEPT ![c] = 0]

\* The attempt of c failed: Acquire sleeps and tries again, or gives up.
AttemptFails(c) ==
    \/ /\ attempt[c] < MaxAttempts
       /\ Goto(c, "acquire")
       /\ attempt' = [attempt EXCEPT ![c] = @ + 1]
    \/ /\ attempt[c] = MaxAttempts
       /\ Goto(c, "idle")
       /\ attempt' = [attempt EXCEPT ![c] = 0]

Acquire(c) ==
    /\ pc[c] = "idle"
    /\ Goto(c, "acquire")
    /\ attempt' = [attempt EXCEPT ![c] = 1]
    /\ UNCHANGED <<masterOf, engineVars, net, req, used>>

\* acquire: one read of IsMaster decides between the two ways.
ChooseWay(c) ==
    /\ pc[c] = "acquire"
    /\ \/ masterOf[Home[c]] = Home[c] /\ Goto(c, "local")
       \/ masterOf[Home[c]] # Home[c] /\ Goto(c, "remote")
    /\ UNCHANGED <<masterOf, engineVars, net, req, attempt, used>>

Draw(c, r) ==
    /\ r \in Fresh
    /\ req' = [req EXCEPT ![c] = r]
    /\ used' = used \cup {r}

AcquireLocalFree(c, r) ==
    /\ pc[c] = "local"
    /\ holder[Home[c]] = Free
    /\ Draw(c, r)
    /\ holder' = [holder EXCEPT ![Home[c]] = r]
    /\ Goto(c, "critLocal")
    /\ UNCHANGED <<masterOf, queue, grants, chan, net, attempt>>

\* The mutex of the engine is given up between the two halves.
AcquireLocalEnqueue(c, r) ==
    /\ pc[c] = "local"
    /\ holder[Home[c]] # Free
    /\ Draw(c, r)
    /\ Enqueue(Home[c], r, Home[c])
    /\ Goto(c, "enqueued")
    /\ UNCHANGED <<masterOf, holder, grants, chan, net, attempt>>

AcquireLocalRegister(c) ==
    /\ pc[c] = "enqueued"
    /\ grants' = [grants EXCEPT ![Home[c]] = @ \cup {req[c]}]
    /\ Goto(c, "waitLocal")
    /\ UNCHANGED <<masterOf, holder, queue, chan, net, req, attempt, used>>

AcquireLocalGranted(c) ==
    /\ pc[c] = "waitLocal"
    /\ chan[req[c]]
    /\ chan' = [chan EXCEPT ![req[c]] = FALSE]
    /\ Goto(c, "critLocal")
    /\ UNCHANGED <<masterOf, holder, queue, grants, net, req, attempt, used>>

\* Neither the queue entry nor the registered channel is taken back.
AcquireLocalTimeout(c) ==
    /\ pc[c] = "waitLocal"
    /\ AttemptFails(c)
    /\ UNCHANGED <<masterOf, engineVars, net, req, used>>

AcquireRemoteSend(c, r) ==
    /\ pc[c] = "remote"
    /\ Draw(c, r)
    /\ grants' = [grants EXCEPT ![Home[c]] = @ \cup {r}]
    /\ net' = net \cup {Msg("LOCK_REQUEST", r, Home[c], masterOf[Home[c]])}
    /\ Goto(c, "waitRemote")
    /\ UNCHANGED <<masterOf, holder, queue, chan, attempt>>

\* SendJSON returned an error: the channel is unregistered again.
AcquireRemoteSendFails(c, r) ==
    /\ pc[c] = "remote"
    /\ Draw(c, r)
    /\ AttemptFails(c)
    /\ UNCHANGED <<masterOf, engineVars, net>>

AcquireRemoteGranted(c) ==
    /\ pc[c] = "waitRemote"
    /\ chan[req[c]]
    /\ chan' = [chan EXCEPT ![req[c]] = FALSE]
    /\ Goto(c, "critRemote")
    /\ UNCHANGED <<masterOf, holder, queue, grants, net, req, attempt, used>>

\* Only the node's own channel is taken back: the master is not told.
AcquireRemoteTimeout(c) ==
    /\ pc[c] = "waitRemote"
    /\ grants' = [grants EXCEPT ![Home[c]] = @ \ {req[c]}]
    /\ AttemptFails(c)
    /\ UNCHANGED <<masterOf, holder, queue, chan, net, req, used>>

ReleaseAsMaster(c) ==
    /\ pc[c] = "critLocal"
    /\ ReleaseLocal(Home[c], req[c], net)
    /\ Goto(c, "idle")
    /\ attempt' = [attempt EXCEPT ![c] = 0]
    /\ UNCHANGED <<masterOf, req, used>>

\* Fault: LOCK_RELEASE is sent while the client still works under the lock.
ReleaseRemoteEarly(c) ==
    /\ pc[c] = "critRemote"
    /\ net' = net \cup {Msg("LOCK_RELEASE", req[c], Home[c], masterOf[Home[c]])}
    /\ UNCHANGED <<masterOf, engineVars, clientVars>>

\* LOCK_RELEASE goes to the node that is master now.
ReleaseRemote(c) ==
    /\ pc[c] = "critRemote"
    /\ net' = net \cup {Msg("LOCK_RELEASE", req[c], Home[c], masterOf[Home[c]])}
    /\ Goto(c, "idle")
    /\ attempt' = [attempt EXCEPT ![c] = 0]
    /\ UNCHANGED <<masterOf, engineVars, req, used>>

-----------------------------------------------------------------------------
(* The handlers.                                                           *)

\* Fault: the lock is granted and the holder not recorded.
HandleLockRequestUnrecorded(m) ==
    /\ m.type = "LOCK_REQUEST"
    /\ holder[m.to] = Free
    /\ net' = (net \ {m}) \cup {Msg("LOCK_GRANT", m.requestID, m.to, m.from)}
    /\ UNCHANGED <<masterOf, engineVars, clientVars>>

\* Fault: no return after the grant, so the request is queued as well.
HandleLockRequestAlsoQueues(m) ==
    /\ m.type = "LOCK_REQUEST"
    /\ holder[m.to] = Free
    /\ holder' = [holder EXCEPT ![m.to] = m.requestID]
    /\ Enqueue(m.to, m.requestID, m.from)
    /\ net' = (net \ {m}) \cup {Msg("LOCK_GRANT", m.requestID, m.to, m.from)}
    /\ UNCHANGED <<masterOf, grants, chan, clientVars>>

HandleLockRequest(m) ==
    /\ m.type = "LOCK_REQUEST"
    /\ \/ /\ holder[m.to] = Free
          /\ holder' = [holder EXCEPT ![m.to] = m.requestID]
          /\ net' = (net \ {m}) \cup {Msg("LOCK_GRANT", m.requestID, m.to, m.from)}
          /\ UNCHANGED queue
       \/ /\ holder[m.to] # Free
          /\ Enqueue(m.to, m.requestID, m.from)
          /\ net' = (net \ {m}) \cup {Msg("LOCK_DENY", m.requestID, m.to, m.from)}
          /\ UNCHANGED holder
    /\ UNCHANGED <<masterOf, grants, chan, clientVars>>

\* The channel has room for one token: a second send would block.  A grant
\* whose channel is no longer registered is dropped.
HandleLockGrant(m) ==
    /\ m.type = "LOCK_GRANT"
    /\ \/ /\ m.requestID \in grants[m.to]
          /\ ~chan[m.requestID]
          /\ chan' = [chan EXCEPT ![m.requestID] = TRUE]
       \/ /\ m.requestID \notin grants[m.to]
          /\ UNCHANGED chan
    /\ net' = net \ {m}
    /\ UNCHANGED <<masterOf, holder, queue, grants, clientVars>>

HandleLockDeny(m) ==
    /\ m.type = "LOCK_DENY"
    /\ net' = net \ {m}
    /\ UNCHANGED <<masterOf, engineVars, clientVars>>

HandleLockRelease(m) ==
    /\ m.type = "LOCK_RELEASE"
    /\ ReleaseLocal(m.to, m.requestID, net \ {m})
    /\ UNCHANGED <<masterOf, clientVars>>

-----------------------------------------------------------------------------
(* The environment.                                                        *)

\* The error of a send of LOCK_GRANT, LOCK_DENY or LOCK_RELEASE is ignored,
\* and a write on a connection the peer has closed may report no error.
Lose(m) ==
    /\ net' = net \ {m}
    /\ UNCHANGED <<masterOf, engineVars, clientVars>>

\* The election sets the master a node believes in (SetMasterID).
MasterChange(n, master) ==
    /\ masterOf[n] # master
    /\ masterOf' = [masterOf EXCEPT ![n] = master]
    /\ UNCHANGED <<engineVars, net, clientVars>>

\* The process of node n stops and starts again: engine, clients and the
\* messages that were on their way to it are gone.
Restart(n) ==
    /\ masterOf' = [masterOf EXCEPT ![n] = InitialMaster]
    /\ holder' = [holder EXCEPT ![n] = Free]
    /\ queue' = [queue EXCEPT ![n] = <<>>]
    /\ grants' = [grants EXCEPT ![n] = {}]
    /\ net' = {m \in net : m.to # n}
    /\ pc' = [c \in Clients |-> IF Home[c] = n THEN "idle" ELSE pc[c]]
    /\ attempt' = [c \in Clients |-> IF Home[c] = n THEN 0 ELSE attempt[c]]
    /\ UNCHANGED <<chan, req, used>>

-----------------------------------------------------------------------------
Handle(m) ==
    \/ HandleLockRequest(m)
    \/ HandleLockGrant(m)
    \/ HandleLockDeny(m)
    \/ HandleLockRelease(m)

\* What a client does when no send fails and no timer expires.
Advance(c) ==
    \/ ChooseWay(c)
    \/ \E r \in Requests : \/ AcquireLocalFree(c, r)
                           \/ AcquireLocalEnqueue(c, r)
                           \/ AcquireRemoteSend(c, r)
    \/ AcquireLocalRegister(c)
    \/ AcquireLocalGranted(c)
    \/ AcquireRemoteGranted(c)
    \/ ReleaseAsMaster(c)
    \/ ReleaseRemote(c)

\* The ways an attempt of a client ends in an error.
Fail(c) ==
    \/ AcquireLocalTimeout(c)
    \/ AcquireRemoteTimeout(c)
    \/ \E r \in Requests : AcquireRemoteSendFails(c, r)

TimelyNext ==
    \/ \E c \in Clients : Acquire(c) \/ Advance(c)
    \/ \E m \in net : Handle(m)

Next ==
    \/ TimelyNext
    \/ \E c \in Clients : Fail(c)
    \/ \E m \in net : Lose(m)

FailoverNext ==
    \/ Next
    \/ \E n, master \in Nodes : MasterChange(n, master)
    \/ \E n \in Nodes : Restart(n)

\* One master for ever; messages are lost and timers expire.
Spec == Init /\ [][Next]_vars

\* The master a node believes in may change and a node may stop and start
\* again, at any time.
FailoverSpec == Init /\ [][FailoverNext]_vars

\* One master, no loss and no timer that expires: goroutines run, messages
\* are handled and a client that has the lock gives it up in the end.
TimelySpec ==
    /\ Init /\ [][TimelyNext]_vars
    /\ \A c \in Clients : WF_vars(Advance(c))
    /\ WF_vars(\E m \in net : Handle(m))
-----------------------------------------------------------------------------
(* Properties.                                                             *)

\* The values the variables can have.
TypeOK ==
    /\ masterOf \in [Nodes -> Nodes]
    /\ holder \in [Nodes -> Requests \cup {Free}]
    /\ queue \in [Nodes -> Seq(PendingReq)]
    /\ grants \in [Nodes -> SUBSET Requests]
    /\ chan \in [Requests -> BOOLEAN]
    /\ net \subseteq Message
    /\ pc \in [Clients -> Locations]
    /\ req \in [Clients -> Requests \cup {Free}]
    /\ attempt \in [Clients -> 0..MaxAttempts]
    /\ used \subseteq Requests
    /\ \A c \in Clients : req[c] = Free => pc[c] \in {"idle", "acquire", "local", "remote"}

\* "solo un nodo puede tener el lock a la vez" (mutex.go:34): no two clients
\* own the lock at the same time.
MutualExclusion ==
    \A c, d \in Clients : Critical(c) /\ Critical(d) => c = d

\* Where the right to the lock can be: in a grant or a release on its way, in
\* the channel of a request, or with a client.
NetTokens ==
    {<<"net", m.requestID, m>> : m \in {k \in net : k.type \in {"LOCK_GRANT", "LOCK_RELEASE"}}}
ChanTokens == {<<"chan", r, r>> : r \in {k \in Requests : chan[k]}}
ClientTokens == {<<"client", req[c], c>> : c \in {d \in Clients : Critical(d)}}
Tokens == NetTokens \cup ChanTokens \cup ClientTokens

\* Under one master there is at most one right to the lock, and it belongs to
\* the request the master's engine has as holder: a grant to a client that
\* gave up, a late grant and a retry never make a second one.
OneToken ==
    /\ \A t \in Tokens : t[2] = holder[InitialMaster]
    /\ \A t, u \in Tokens : t = u

\* The send on a request's channel never blocks, which in releaseLocal would
\* stop the whole engine with its mutex held: when a grant is on its way or a
\* request still waits in a queue, its channel is empty.
GrantNeverBlocks ==
    \A r \in Requests : chan[r] =>
        /\ \A m \in net : m.type = "LOCK_GRANT" => m.requestID # r
        /\ \A n \in Nodes : \A i \in DOMAIN queue[n] : queue[n][i].requestID # r

\* An engine with a free lock has nobody waiting in its queue.
NoIdleQueue == \A n \in Nodes : holder[n] = Free => queue[n] = <<>>

\* A request is at one place of one engine at most: nobody is queued twice, or
\* both holds the lock and waits for it, whoever is thought to be master.
OnePlace ==
    \A n, k \in Nodes : \A i \in DOMAIN queue[n] :
        /\ queue[n][i].requestID # holder[k]
        /\ \A j \in DOMAIN queue[k] :
                queue[k][j].requestID = queue[n][i].requestID => n = k /\ i = j

\* An engine that handed the lock to a client keeps it for that client: only
\* the release of this client, or the death of the engine, takes it away, not
\* a timeout, a retry or a release of another request that comes late.
HolderKept ==
    [][\A n \in Nodes, c \in Clients :
        Critical(c) /\ holder[n] = req[c] /\ holder'[n] # req[c]
            => ~Critical(c)' \/ Restart(n)]_vars

\* "holder es el requestID del nodo que tiene el lock actualmente" (mutex.go:41):
\* a client has or awaits the lock the arbiter holds for it, or its release is
\* on its way.
HolderHasClient ==
    \A n \in Nodes : holder[n] # Free =>
        \/ \E c \in Clients : /\ req[c] = holder[n]
                             /\ pc[c] \in {"enqueued", "waitLocal", "waitRemote",
                                          "critLocal", "critRemote"}
        \/ \E m \in net : m.type = "LOCK_RELEASE" /\ m.requestID = holder[n]

\* "lock ocupado - nos encolamos y esperamos a que nos lo otorguen"
\* (mutex.go:107): a client of the master that waits gets the lock.
LocalWaiterServed ==
    \A c \in Clients : pc[c] = "waitLocal" ~> pc[c] # "waitLocal"

\* "ya quedamos encolados en el maestro y esperamos el LOCK_GRANT"
\* (mutex.go:246): a client of another node that waits gets the lock.
RemoteWaiterServed ==
    \A c \in Clients : pc[c] = "waitRemote" ~> pc[c] = "critRemote"

\* What every client of the lock relies on: clients own it one at a time, in
\* the order in which their requests reached the arbiter.
Line(n) ==
    IF holder[n] = Free
    THEN <<>>
    ELSE <<holder[n]>> \o [i \in DOMAIN queue[n] |-> queue[n][i].requestID]

Lock == INSTANCE FifoLock WITH
    line <- Line(InitialMaster),
    inside <- {req[c] : c \in {c \in Clients : Critical(c)}}

ImplementsFifoLock == Lock!Spec
=============================================================================
