------------------------------ MODULE Transport -------------------------------
(***************************************************************************)
(* How a message gets from a goroutine of one node to a handler of         *)
(* another: the pool of connections of pkg/sender, the connection of       *)
(* pkg/tcpclient, the accept loop of pkg/tcp_server and the hub of         *)
(* pkg/hub.                                                                *)
(*                                                                         *)
(* A pool keeps one connection per peer, and dials with its mutex held.  A *)
(* Send that fails removes the entry of the peer, whatever connection that *)
(* is by then.  The bytes of a connection are read line by line by one     *)
(* goroutine and put on the hub's channel; the hub takes them off it one   *)
(* by one and starts a goroutine for each, which may send an answer.  Both *)
(* the buffers of a connection and the channel are bounded: a writer that  *)
(* finds them full waits.                                                  *)
(*                                                                         *)
(* The messages are requests, sent by anything a node does on its own, and *)
(* the replies their handlers send.  One goroutine sends one message.      *)
(***************************************************************************)
EXTENDS Naturals, FiniteSets, Sequences

CONSTANTS
    Nodes,
    Requests,       \* bound: messages sent, numbered as they are
    From, To,       \* the sender and the receiver of each request
    TooLong,        \* messages that are longer than the buffer of a scanner
    Conns,          \* bound: connections dialled in a behaviour, numbered
    None,
    BufferSize,     \* lines the buffers of a connection hold
    BroadcastSize,  \* capacity of Hub.broadcast
    MaxFaults       \* bound: connections broken by the network, failed dials

ASSUME RequestsAssumption ==
    /\ Requests \subseteq Nat
    /\ From \in [Requests -> Nodes] /\ To \in [Requests -> Nodes]
Messages == Requests \X {"request", "reply"}
ASSUME ValuesAssumption == TooLong \subseteq Messages /\ Conns \subseteq Nat /\ None \notin Conns \cup Messages
ASSUME SizesAssumption ==
    BufferSize \in Nat \ {0} /\ BroadcastSize \in Nat \ {0} /\ MaxFaults \in Nat

Sender(m) == IF m[2] = "request" THEN From[m[1]] ELSE To[m[1]]
Receiver(m) == IF m[2] = "request" THEN To[m[1]] ELSE From[m[1]]
ReplyTo(m) == <<m[1], "reply">>

VARIABLES
    pc,         \* the goroutine that sends each message
    client,     \* the connection its Send has got from the pool
    conns,      \* Pool.conns of each node
    poolMu,     \* the goroutine that dials with Pool.mu of a node held
    ends,       \* the connections dialled: their ends
    far,        \* the receiving end: not accepted yet, read by a readPump, closed
    done,       \* connections whose readLoop has ended: IsClosed
    buffer,     \* lines written and not yet read
    broadcast,  \* Hub.broadcast of each node
    dispatched, \* how often a message was dispatched
    faults

sendVars == <<pc, client>>
poolVars == <<conns, poolMu>>
connVars == <<ends, far, done, buffer>>
hubVars == <<broadcast, dispatched>>
vars == <<sendVars, poolVars, connVars, hubVars, faults>>

Dialled == DOMAIN ends
Ok(c) == far[c] # "closed"
Line == [conn : Conns, msg : Messages]

Init ==
    /\ pc = [m \in Messages |-> "none"]
    /\ client = [m \in Messages |-> None]
    /\ conns = [n \in Nodes |-> [k \in Nodes |-> None]]
    /\ poolMu = [n \in Nodes |-> None]
    /\ ends = <<>>
    /\ far = [c \in Conns |-> "backlog"]
    /\ done = {}
    /\ buffer = [c \in Conns |-> <<>>]
    /\ broadcast = [n \in Nodes |-> <<>>]
    /\ dispatched = [m \in Messages |-> 0]
    /\ faults = 0

-----------------------------------------------------------------------------
(* Pool.Send, by the goroutine of message m.                               *)

GoTo(m, p) == pc' = [pc EXCEPT ![m] = p]

\* Something the node does on its own: a ping, a proposal, a query.
Start(r) ==
    /\ pc[<<r, "request">>] = "none"
    /\ \A q \in Requests : q < r => pc[<<q, "request">>] # "none"
    /\ GoTo(<<r, "request">>, "get")
    /\ UNCHANGED <<client, poolVars, connVars, hubVars, faults>>

\* What get finds in the map, unless it is closed.
Pooled(m) == conns[Sender(m)][Receiver(m)]
Usable(m) == Pooled(m) # None /\ Pooled(m) \notin done
Locked(m) == poolMu[Sender(m)] # None

GetPooled(m) ==
    /\ pc[m] = "get" /\ ~Locked(m) /\ Usable(m)
    /\ client' = [client EXCEPT ![m] = Pooled(m)]
    /\ GoTo(m, "write")
    /\ UNCHANGED <<poolVars, connVars, hubVars, faults>>

\* Fault: get gives the mutex back before it dials.
GetUnpooledUnlocked(m) ==
    /\ pc[m] = "get" /\ ~Locked(m) /\ ~Usable(m)
    /\ GoTo(m, "dial")
    /\ UNCHANGED <<client, poolVars, connVars, hubVars, faults>>

GetUnpooled(m) ==
    /\ pc[m] = "get" /\ ~Locked(m) /\ ~Usable(m)
    /\ poolMu' = [poolMu EXCEPT ![Sender(m)] = m]
    /\ GoTo(m, "dial")
    /\ UNCHANGED <<client, conns, connVars, hubVars, faults>>

\* Fault: the map is that of the peer.
PoolSwapped(n, k, c) == conns' = [conns EXCEPT ![k][n] = c]

\* p.conns[k] of node n.
Pool(n, k, c) == conns' = [conns EXCEPT ![n][k] = c]

\* Connect succeeds: the peer's kernel has the connection in its backlog.
Dial(m) ==
    LET c == Len(ends) + 1
    IN  /\ pc[m] = "dial" /\ c \in Conns
        /\ ends' = Append(ends, [from |-> Sender(m), to |-> Receiver(m)])
        /\ Pool(Sender(m), Receiver(m), c)
        /\ poolMu' = [poolMu EXCEPT ![Sender(m)] = None]
        /\ client' = [client EXCEPT ![m] = c]
        /\ GoTo(m, "write")
        /\ UNCHANGED <<far, done, buffer, hubVars, faults>>

\* The peer cannot be reached; Send returns the error.
DialFails(m) ==
    /\ pc[m] = "dial" /\ faults < MaxFaults
    /\ faults' = faults + 1
    /\ poolMu' = [poolMu EXCEPT ![Sender(m)] = None]
    /\ GoTo(m, "failed")
    /\ UNCHANGED <<client, conns, connVars, hubVars>>

\* Client.Send: the line fits into the buffers, or the goroutine waits.
Write(m) ==
    /\ pc[m] = "write" /\ Ok(client[m])
    /\ Len(buffer[client[m]]) < BufferSize
    /\ buffer' = [buffer EXCEPT ![client[m]] = Append(@, m)]
    /\ GoTo(m, "sent")
    /\ UNCHANGED <<client, poolVars, ends, far, done, hubVars, faults>>

\* The first bytes written to an end that is closed are taken, and lost.
WriteLost(m) ==
    /\ pc[m] = "write" /\ ~Ok(client[m])
    /\ GoTo(m, "sent")
    /\ UNCHANGED <<client, poolVars, connVars, hubVars, faults>>

WriteFails(m) ==
    /\ pc[m] = "write" /\ ~Ok(client[m])
    /\ GoTo(m, "delete")
    /\ UNCHANGED <<client, poolVars, connVars, hubVars, faults>>

\* Fault: the mutex is not given back after the entry was deleted.
DeleteKeepsMutex(m) ==
    /\ pc[m] = "delete" /\ ~Locked(m)
    /\ Pool(Sender(m), Receiver(m), None)
    /\ poolMu' = [poolMu EXCEPT ![Sender(m)] = m]
    /\ GoTo(m, "failed")
    /\ UNCHANGED <<client, connVars, hubVars, faults>>

\* delete(p.conns, to.ID): whatever connection is there by now.  It is not closed.
Delete(m) ==
    /\ pc[m] = "delete" /\ ~Locked(m)
    /\ Pool(Sender(m), Receiver(m), None)
    /\ GoTo(m, "failed")
    /\ UNCHANGED <<client, poolMu, connVars, hubVars, faults>>

\* readLoop of the client sees that the peer has closed.
ReadLoopEnds(c) ==
    /\ ~Ok(c) /\ c \notin done
    /\ done' = done \cup {c}
    /\ UNCHANGED <<sendVars, poolVars, ends, far, buffer, hubVars, faults>>

-----------------------------------------------------------------------------
(* The receiving node.                                                     *)

\* Accept, and Hub.Serve: the client is registered and its readPump started.
Serve(c) ==
    /\ c \in Dialled /\ far[c] = "backlog"
    /\ far' = [far EXCEPT ![c] = "served"]
    /\ UNCHANGED <<sendVars, poolVars, ends, done, buffer, hubVars, faults>>

Readable(c) == c \in Dialled /\ far[c] = "served" /\ buffer[c] # <<>>

\* Fault: the line is not copied.  The scanner reads the next one into the same
\* bytes, and what is still on the channel changes with them.
ReadPumpAliases(c) ==
    LET n == ends[c].to
        m == Head(buffer[c])
    IN  /\ Readable(c) /\ m \notin TooLong
        /\ Len(broadcast[n]) < BroadcastSize
        /\ buffer' = [buffer EXCEPT ![c] = Tail(@)]
        /\ broadcast' = [broadcast EXCEPT ![n] =
               Append([i \in DOMAIN @ |-> IF @[i].conn = c THEN [conn |-> c, msg |-> m] ELSE @[i]],
                      [conn |-> c, msg |-> m])]
        /\ UNCHANGED <<sendVars, poolVars, ends, far, done, dispatched, faults>>

ReadPump(c) ==
    LET n == ends[c].to
        m == Head(buffer[c])
    IN  /\ Readable(c) /\ m \notin TooLong
        /\ Len(broadcast[n]) < BroadcastSize
        /\ buffer' = [buffer EXCEPT ![c] = Tail(@)]
        /\ broadcast' = [broadcast EXCEPT ![n] = Append(@, [conn |-> c, msg |-> m])]
        /\ UNCHANGED <<sendVars, poolVars, ends, far, done, dispatched, faults>>

\* The receiving end is closed with what it has not read.
Close(c) ==
    /\ far' = [far EXCEPT ![c] = "closed"]
    /\ buffer' = [buffer EXCEPT ![c] = <<>>]

\* Scan ends at a line that is too long, and readPump with it: it leaves the hub
\* and closes the connection.
ReadPumpEnds(c) ==
    /\ Readable(c) /\ Head(buffer[c]) \in TooLong
    /\ Close(c)
    /\ UNCHANGED <<sendVars, poolVars, ends, done, hubVars, faults>>

\* Fault: Run calls the dispatcher itself, and takes no line before the handler's
\* reply has been sent.
RunWaits(n) ==
    /\ broadcast[n] # <<>>
    /\ \A r \in Requests : To[r] = n => pc[<<r, "reply">>] \in {"none", "sent", "failed"}
    /\ LET m == Head(broadcast[n]).msg
       IN  /\ dispatched' = [dispatched EXCEPT ![m] = @ + 1]
           /\ IF m[2] = "request" /\ pc[ReplyTo(m)] = "none"
              THEN GoTo(ReplyTo(m), "get")
              ELSE UNCHANGED pc
    /\ broadcast' = [broadcast EXCEPT ![n] = Tail(@)]
    /\ UNCHANGED <<client, poolVars, connVars, faults>>

\* One turn of Hub.Run: the message is dispatched in a goroutine of its own, and
\* the handler of a request sends a reply.
Run(n) ==
    /\ broadcast[n] # <<>>
    /\ LET m == Head(broadcast[n]).msg
       IN  /\ dispatched' = [dispatched EXCEPT ![m] = @ + 1]
           /\ IF m[2] = "request" /\ pc[ReplyTo(m)] = "none"
              THEN GoTo(ReplyTo(m), "get")
              ELSE UNCHANGED pc
    /\ broadcast' = [broadcast EXCEPT ![n] = Tail(@)]
    /\ UNCHANGED <<client, poolVars, connVars, faults>>

\* The network resets a connection, or the process of the receiver dies.
Break(c) ==
    /\ c \in Dialled /\ Ok(c) /\ faults < MaxFaults
    /\ faults' = faults + 1
    /\ Close(c)
    /\ UNCHANGED <<sendVars, poolVars, ends, done, hubVars>>

Get(m) == GetPooled(m) \/ GetUnpooled(m)
Send(m) == Get(m) \/ Dial(m) \/ Write(m) \/ WriteLost(m) \/ WriteFails(m) \/ Delete(m)
Receive(c) == Serve(c) \/ ReadPump(c) \/ ReadPumpEnds(c)

Next ==
    \/ \E r \in Requests : Start(r)
    \/ \E m \in Messages : Send(m) \/ DialFails(m)
    \/ \E c \in Conns : Receive(c) \/ ReadLoopEnds(c) \/ Break(c)
    \/ \E n \in Nodes : Run(n)

Spec == Init /\ [][Next]_vars

\* Goroutines run; a dial ends, one way or the other.
FairSpec ==
    /\ Spec
    /\ \A m \in Messages : WF_vars(Send(m))
    /\ \A c \in Conns : WF_vars(Receive(c))
    /\ \A n \in Nodes : WF_vars(Run(n))

-----------------------------------------------------------------------------
(* Properties.                                                             *)

\* A connection leads from the node that has it in its pool to the peer it has it
\* for, and its lines are between the same two.
TypeOK ==
    /\ pc \in [Messages -> {"none", "get", "dial", "write", "delete", "sent", "failed"}]
    /\ client \in [Messages -> Conns \cup {None}]
    /\ conns \in [Nodes -> [Nodes -> Conns \cup {None}]]
    /\ poolMu \in [Nodes -> Messages \cup {None}]
    /\ ends \in Seq([from : Nodes, to : Nodes]) /\ Dialled \subseteq Conns
    /\ far \in [Conns -> {"backlog", "served", "closed"}]
    /\ done \subseteq Conns
    /\ buffer \in [Conns -> Seq(Messages)]
    /\ broadcast \in [Nodes -> Seq(Line)]
    /\ dispatched \in [Messages -> Nat]
    /\ faults \in 0..MaxFaults
    /\ \A n, k \in Nodes : conns[n][k] # None => ends[conns[n][k]] = [from |-> n, to |-> k]
    /\ \A c \in Conns : Len(buffer[c]) <= BufferSize
    /\ \A n \in Nodes : Len(broadcast[n]) <= BroadcastSize

\* The transport is what the other modules take for the network: what was not sent
\* is not handled, and nothing is handled twice, although lines of one connection
\* share the buffer of its scanner.
Net == INSTANCE Network WITH
           accepted <- {m \in Messages : pc[m] = "sent"},
           handled <- dispatched
ImplementsNetwork == Net!Spec

\* Connections from n to k that are open at both ends, and Sends between them that
\* failed at a connection.
Open(n, k) == {c \in Dialled : ends[c] = [from |-> n, to |-> k] /\ Ok(c) /\ c \notin done}
Failed(n, k) == {m \in Messages : /\ Sender(m) = n /\ Receiver(m) = k
                                  /\ pc[m] = "failed" /\ client[m] # None}

\* A pool opens one connection to a peer at a time, although goroutines ask for it
\* at once; each that Delete forgets open costs a Send that failed at a connection
\* that was broken.
FewConnections ==
    \A n, k \in Nodes : Cardinality(Open(n, k)) <= 1 + Cardinality(Failed(n, k))

\* A message that is sent is dispatched, or its Send returns an error, or its
\* connection breaks: nobody waits for ever for the pool, for a peer that waits
\* itself, or on a connection that has been forgotten.
Ended(m) == \/ pc[m] = "failed"
            \/ pc[m] = "sent" /\ (dispatched[m] > 0 \/ ~Ok(client[m]))
EverySendEnds == []<>(\A m \in Messages : pc[m] # "none" => Ended(m))

\* What the comment of Pool says (sender.go:14): the map has the connection of each
\* node, and existing ones are used again.
OneConnection == \A n, k \in Nodes : Cardinality(Open(n, k)) <= 1

\* No goroutine waits for the pool while another dials a different peer.
NoWaitForOthers ==
    \A m, x \in Messages :
        pc[m] = "get" /\ poolMu[Sender(m)] = x => Receiver(x) = Receiver(m)
=============================================================================
