--------------------------- MODULE TransportProofs ---------------------------
(***************************************************************************)
(* The transport keeps what the other modules take for granted: a message  *)
(* is dispatched at most once, and only if it was sent; and a pool opens   *)
(* few connections.  Proofs about Transport for any number of nodes and    *)
(* messages and for buffers of any size, whatever breaks.                  *)
(***************************************************************************)
EXTENDS Transport, FiniteSetTheorems, SequenceTheorems, TLAPS

-----------------------------------------------------------------------------
(* The inductive invariants.                                               *)

\* What a pool or a goroutine holds has been dialled.
TypeInv ==
    /\ TypeOK
    /\ \A n, k \in Nodes : conns[n][k] # None => conns[n][k] \in Dialled
    /\ \A m \in Messages : pc[m] \in {"write", "delete"} => client[m] \in Dialled

\* Where a message can be on its way.
InBuffer(c, i, m) == i \in DOMAIN buffer[c] /\ buffer[c][i] = m
OnChannel(n, i, m) == i \in DOMAIN broadcast[n] /\ broadcast[n][i].msg = m

\* A message is in one place at most: in a buffer, on a channel, or dispatched;
\* and only if it was sent.
OnePlace ==
    \A m \in Messages :
        /\ dispatched[m] \in {0, 1}
        /\ dispatched[m] = 1 => pc[m] = "sent"
        /\ \A c \in Conns, i \in Nat : InBuffer(c, i, m) =>
              /\ pc[m] = "sent" /\ dispatched[m] = 0
              /\ \A n \in Nodes, j \in Nat : ~OnChannel(n, j, m)
              /\ \A d \in Conns, j \in Nat : InBuffer(d, j, m) => d = c /\ j = i
        /\ \A n \in Nodes, i \in Nat : OnChannel(n, i, m) =>
              /\ pc[m] = "sent" /\ dispatched[m] = 0
              /\ \A k \in Nodes, j \in Nat : OnChannel(k, j, m) => k = n /\ j = i

\* Who dials holds the mutex, and there is still nothing to use in the pool.
DialsAlone ==
    \A m \in Messages :
        pc[m] = "dial" => poolMu[Sender(m)] = m /\ ~Usable(m)

\* Open connections that the pool has forgotten.
Forgotten(n, k) == Open(n, k) \ {conns[n][k]}

\* Each was forgotten by a Send that failed.
FewForgotten ==
    \A n, k \in Nodes :
        /\ IsFiniteSet(Failed(n, k))
        /\ Cardinality(Forgotten(n, k)) <= Cardinality(Failed(n, k))

-----------------------------------------------------------------------------
(* Types.                                                                  *)

LEMMA MessageParts ==
    ASSUME NEW m \in Messages
    PROVE  Sender(m) \in Nodes /\ Receiver(m) \in Nodes /\ ReplyTo(m) \in Messages
BY RequestsAssumption DEF Messages, Sender, Receiver, ReplyTo

\* One more connection is dialled; the ends of the others are what they were.
LEMMA OneMoreDialled ==
    ASSUME TypeInv, NEW e \in [from : Nodes, to : Nodes],
           ends' = Append(ends, e), Len(ends) + 1 \in Conns
    PROVE  /\ ends' \in Seq([from : Nodes, to : Nodes])
           /\ Dialled' = Dialled \cup {Len(ends) + 1} /\ Len(ends) + 1 \notin Dialled
           /\ Dialled' \subseteq Conns
           /\ \A c \in Dialled : ends'[c] = ends[c]
           /\ ends'[Len(ends) + 1] = e
BY SMTT(20) DEF TypeInv, TypeOK, Dialled

PCs == {"none", "get", "dial", "write", "delete", "sent", "failed"}

\* Steps that give nobody a connection: they change lines, the far end of
\* connections, and where goroutines are.
LEMMA LinesType ==
    ASSUME TypeInv, UNCHANGED <<client, conns, ends>>,
           poolMu' \in [Nodes -> Messages \cup {None}],
           pc' \in [Messages -> PCs],
           \A m \in Messages : pc'[m] \in {"write", "delete"} => pc[m] \in {"write", "delete"},
           far' \in [Conns -> {"backlog", "served", "closed"}], done' \subseteq Conns,
           buffer' \in [Conns -> Seq(Messages)],
           broadcast' \in [Nodes -> Seq(Line)],
           \A c \in Conns : Len(buffer'[c]) <= BufferSize,
           \A n \in Nodes : Len(broadcast'[n]) <= BroadcastSize,
           dispatched' \in [Messages -> Nat], faults' \in 0..MaxFaults
    PROVE  TypeInv'
BY DEF TypeInv, TypeOK, Dialled, PCs

LEMMA GoToType ==
    ASSUME TypeInv, NEW m \in Messages, NEW p \in PCs \ {"write"},
           p = "delete" => pc[m] = "write", GoTo(m, p)
    PROVE  /\ pc' \in [Messages -> PCs]
           /\ \A x \in Messages : pc'[x] \in {"write", "delete"} => pc[x] \in {"write", "delete"}
BY DEF TypeInv, TypeOK, GoTo, PCs

LEMMA PooledType ==
    ASSUME TypeInv, NEW m \in Messages
    PROVE  Pooled(m) \in Conns \cup {None} /\ (Pooled(m) # None => Pooled(m) \in Dialled)
BY MessageParts DEF TypeInv, TypeOK, Pooled

LEMMA DialType ==
    ASSUME TypeInv, NEW m \in Messages, Dial(m)
    PROVE  TypeInv'
<1> DEFINE c == Len(ends) + 1
           n == Sender(m)
           k == Receiver(m)
           e == [from |-> n, to |-> k]
<1>1. n \in Nodes /\ k \in Nodes /\ e \in [from : Nodes, to : Nodes]
  BY MessageParts
<1>2. /\ pc[m] = "dial" /\ c \in Conns
      /\ ends' = Append(ends, e)
      /\ conns' = [conns EXCEPT ![n][k] = c]
      /\ poolMu' = [poolMu EXCEPT ![n] = None]
      /\ client' = [client EXCEPT ![m] = c]
      /\ pc' = [pc EXCEPT ![m] = "write"]
      /\ UNCHANGED <<far, done, buffer, broadcast, dispatched, faults>>
  BY DEF Dial, Pool, GoTo, hubVars
<1>3. /\ ends' \in Seq([from : Nodes, to : Nodes])
      /\ Dialled' = Dialled \cup {c} /\ c \notin Dialled
      /\ Dialled' \subseteq Conns
      /\ \A d \in Dialled : ends'[d] = ends[d]
      /\ ends'[c] = e
  BY <1>1, <1>2, OneMoreDialled
<1> HIDE DEF c, n, k, e
<1>4. /\ conns' \in [Nodes -> [Nodes -> Conns \cup {None}]]
      /\ conns'[n][k] = c
      /\ \A x, y \in Nodes : <<x, y>> # <<n, k>> => conns'[x][y] = conns[x][y]
  BY <1>1, <1>2 DEF TypeInv, TypeOK
<1>5. /\ client' \in [Messages -> Conns \cup {None}]
      /\ poolMu' \in [Nodes -> Messages \cup {None}]
      /\ pc' \in [Messages -> PCs]
      /\ \A x \in Messages : pc'[x] \in {"write", "delete"} => client'[x] \in Dialled'
  BY <1>1, <1>2, <1>3 DEF TypeInv, TypeOK, PCs
<1>6. \A x, y \in Nodes : conns'[x][y] # None =>
          conns'[x][y] \in Dialled' /\ ends'[conns'[x][y]] = [from |-> x, to |-> y]
  <2> SUFFICES ASSUME NEW x \in Nodes, NEW y \in Nodes, conns'[x][y] # None
               PROVE  /\ conns'[x][y] \in Dialled'
                      /\ ends'[conns'[x][y]] = [from |-> x, to |-> y]
    OBVIOUS
  <2>1. CASE x = n /\ y = k
    BY <1>3, <1>4, <2>1 DEF e
  <2>2. CASE ~(x = n /\ y = k)
    <3>1. conns'[x][y] = conns[x][y]
      BY <1>4, <2>2
    <3>2. conns[x][y] \in Dialled /\ ends[conns[x][y]] = [from |-> x, to |-> y]
      BY <3>1 DEF TypeInv, TypeOK
    <3> QED BY <1>3, <3>1, <3>2
  <2> QED BY <2>1, <2>2
<1>7. TypeOK'
  <2>1. /\ far' \in [Conns -> {"backlog", "served", "closed"}]
        /\ done' \subseteq Conns
        /\ buffer' \in [Conns -> Seq(Messages)]
        /\ broadcast' \in [Nodes -> Seq(Line)]
        /\ dispatched' \in [Messages -> Nat]
        /\ faults' \in 0..MaxFaults
        /\ \A d \in Conns : Len(buffer'[d]) <= BufferSize
        /\ \A x \in Nodes : Len(broadcast'[x]) <= BroadcastSize
    BY <1>2 DEF TypeInv, TypeOK
  <2> QED BY <2>1, <1>3, <1>4, <1>5, <1>6 DEF TypeOK, PCs
<1> QED BY <1>5, <1>6, <1>7 DEF TypeInv

LEMMA DeleteType ==
    ASSUME TypeInv, NEW m \in Messages, Delete(m)
    PROVE  TypeInv'
<1> DEFINE n == Sender(m)
           k == Receiver(m)
<1>1. n \in Nodes /\ k \in Nodes
  BY MessageParts
<1>2. /\ conns' = [conns EXCEPT ![n][k] = None]
      /\ pc' = [pc EXCEPT ![m] = "failed"]
      /\ UNCHANGED <<client, poolMu, ends, far, done, buffer, broadcast, dispatched, faults>>
  BY DEF Delete, Pool, GoTo, connVars, hubVars
<1> HIDE DEF n, k
<1>3. /\ conns' \in [Nodes -> [Nodes -> Conns \cup {None}]]
      /\ \A x, y \in Nodes : conns'[x][y] # None => conns'[x][y] = conns[x][y]
  BY <1>1, <1>2 DEF TypeInv, TypeOK
<1> QED BY <1>2, <1>3 DEF TypeInv, TypeOK, Dialled

LEMMA WriteType ==
    ASSUME TypeInv, NEW m \in Messages, Write(m)
    PROVE  TypeInv'
<1> DEFINE c == client[m]
<1>1. c \in Conns
  BY DEF Write, TypeInv, TypeOK
<1>2. /\ buffer' = [buffer EXCEPT ![c] = Append(@, m)] /\ Len(buffer[c]) < BufferSize
      /\ pc' = [pc EXCEPT ![m] = "sent"]
      /\ UNCHANGED <<client, conns, poolMu, ends, far, done, broadcast, dispatched, faults>>
  BY DEF Write, GoTo, poolVars, hubVars
<1>3. Append(buffer[c], m) \in Seq(Messages) /\ Len(Append(buffer[c], m)) <= BufferSize
  BY <1>1, <1>2, SizesAssumption DEF TypeInv, TypeOK
<1> HIDE DEF c
<1>4. buffer' \in [Conns -> Seq(Messages)] /\ \A d \in Conns : Len(buffer'[d]) <= BufferSize
  BY <1>1, <1>2, <1>3 DEF TypeInv, TypeOK
<1>5. /\ pc' \in [Messages -> PCs]
      /\ \A x \in Messages : pc'[x] \in {"write", "delete"} => pc[x] \in {"write", "delete"}
  BY GoToType DEF Write, PCs
<1> QED BY <1>2, <1>4, <1>5, LinesType DEF TypeInv, TypeOK

LEMMA ReadPumpType ==
    ASSUME TypeInv, NEW c \in Conns, ReadPump(c)
    PROVE  TypeInv'
<1> DEFINE n == ends[c].to
           m == Head(buffer[c])
           l == [conn |-> c, msg |-> m]
<1>1. /\ c \in Dialled /\ buffer[c] # <<>> /\ Len(broadcast[n]) < BroadcastSize
      /\ buffer' = [buffer EXCEPT ![c] = Tail(@)]
      /\ broadcast' = [broadcast EXCEPT ![n] = Append(@, l)]
      /\ UNCHANGED <<client, conns, poolMu, ends, pc, far, done, dispatched, faults>>
  BY DEF ReadPump, Readable, sendVars, poolVars
<1>2. n \in Nodes
  <2>1. ends \in Seq([from : Nodes, to : Nodes]) /\ c \in 1..Len(ends)
    BY <1>1, SMTT(20) DEF TypeInv, TypeOK, Dialled
  <2>2. ends[c] \in [from : Nodes, to : Nodes]
    BY <2>1, ElementOfSeq
  <2> QED BY <2>2
<1>3. buffer[c] \in Seq(Messages) /\ Len(buffer[c]) <= BufferSize
  BY DEF TypeInv, TypeOK
<1>4. m \in Messages /\ Tail(buffer[c]) \in Seq(Messages) /\ Len(Tail(buffer[c])) <= BufferSize
  BY <1>1, <1>3, SizesAssumption
<1>5. l \in Line
  BY <1>4 DEF Line
<1> HIDE DEF n, m, l
<1>6. Append(broadcast[n], l) \in Seq(Line) /\ Len(Append(broadcast[n], l)) <= BroadcastSize
  BY <1>1, <1>2, <1>5, SizesAssumption DEF TypeInv, TypeOK
<1>7. buffer' \in [Conns -> Seq(Messages)] /\ \A d \in Conns : Len(buffer'[d]) <= BufferSize
  BY <1>1, <1>4 DEF TypeInv, TypeOK
<1>8. broadcast' \in [Nodes -> Seq(Line)] /\ \A k \in Nodes : Len(broadcast'[k]) <= BroadcastSize
  BY <1>1, <1>2, <1>6 DEF TypeInv, TypeOK
<1> QED BY <1>1, <1>7, <1>8, LinesType DEF TypeInv, TypeOK, PCs

LEMMA CloseType ==
    ASSUME TypeInv, NEW c \in Conns, Close(c), faults' \in 0..MaxFaults,
           UNCHANGED <<sendVars, poolVars, ends, done, hubVars>>
    PROVE  TypeInv'
<1>1. buffer' = [buffer EXCEPT ![c] = <<>>] /\ far' = [far EXCEPT ![c] = "closed"]
  BY DEF Close
<1>2. buffer' \in [Conns -> Seq(Messages)] /\ \A d \in Conns : Len(buffer'[d]) <= BufferSize
  <2>1. <<>> \in Seq(Messages) /\ Len(<<>>) <= BufferSize
    BY SizesAssumption
  <2> QED BY <1>1, <2>1 DEF TypeInv, TypeOK
<1>3. far' \in [Conns -> {"backlog", "served", "closed"}]
  BY <1>1 DEF TypeInv, TypeOK
<1> QED BY <1>2, <1>3, LinesType DEF TypeInv, TypeOK, PCs, sendVars, poolVars, hubVars

\* What Run takes off the channel is a line, and with it comes its message.
LEMMA RunTakes ==
    ASSUME TypeInv, NEW n \in Nodes, Run(n)
    PROVE  /\ Head(broadcast[n]) \in Line
           /\ Head(broadcast[n]).msg \in Messages
           /\ broadcast' = [broadcast EXCEPT ![n] = Tail(@)]
           /\ dispatched' = [dispatched EXCEPT ![Head(broadcast[n]).msg] = @ + 1]
           /\ pc' = pc \/ \E x \in Messages : pc[x] = "none" /\ pc' = [pc EXCEPT ![x] = "get"]
           /\ UNCHANGED <<client, poolVars, connVars, faults>>
<1>1. broadcast[n] \in Seq(Line) /\ broadcast[n] # <<>>
  BY DEF Run, TypeInv, TypeOK
<1>2. Head(broadcast[n]) \in Line
  BY <1>1
<1>3. Head(broadcast[n]).msg \in Messages
  BY <1>2 DEF Line
<1>4. ReplyTo(Head(broadcast[n]).msg) \in Messages
  BY <1>3, MessageParts
<1> QED BY <1>2, <1>3, <1>4 DEF Run, GoTo

LEMMA RunType ==
    ASSUME TypeInv, NEW n \in Nodes, Run(n)
    PROVE  TypeInv'
<1> DEFINE m == Head(broadcast[n]).msg
<1>1. broadcast[n] \in Seq(Line) /\ broadcast[n] # <<>> /\ Len(broadcast[n]) <= BroadcastSize
  BY DEF Run, TypeInv, TypeOK
<1>2. Tail(broadcast[n]) \in Seq(Line) /\ Len(Tail(broadcast[n])) <= BroadcastSize
  BY <1>1, SizesAssumption
<1>3. /\ m \in Messages
      /\ broadcast' = [broadcast EXCEPT ![n] = Tail(@)]
      /\ dispatched' = [dispatched EXCEPT ![m] = @ + 1]
      /\ pc' = pc \/ \E x \in Messages : pc[x] = "none" /\ pc' = [pc EXCEPT ![x] = "get"]
      /\ UNCHANGED <<client, conns, poolMu, ends, far, done, buffer, faults>>
  BY RunTakes DEF poolVars, connVars
<1> HIDE DEF m
<1>4. broadcast' \in [Nodes -> Seq(Line)] /\ \A k \in Nodes : Len(broadcast'[k]) <= BroadcastSize
  BY <1>2, <1>3 DEF TypeInv, TypeOK
<1>5. dispatched' \in [Messages -> Nat]
  BY <1>3 DEF TypeInv, TypeOK
<1>6. /\ pc' \in [Messages -> PCs]
      /\ \A x \in Messages : pc'[x] \in {"write", "delete"} => pc[x] \in {"write", "delete"}
  BY <1>3 DEF TypeInv, TypeOK, PCs
<1> QED BY <1>3, <1>4, <1>5, <1>6, LinesType DEF TypeInv, TypeOK

LEMMA GetPooledType ==
    ASSUME TypeInv, NEW m \in Messages, GetPooled(m)
    PROVE  TypeInv'
<1> DEFINE c == Pooled(m)
<1>1. /\ client' = [client EXCEPT ![m] = c] /\ pc' = [pc EXCEPT ![m] = "write"]
      /\ UNCHANGED <<conns, poolMu, ends, far, done, buffer, broadcast, dispatched, faults>>
  BY DEF GetPooled, GoTo, poolVars, connVars, hubVars
<1>2. c \in Conns /\ c \in Dialled
  BY PooledType DEF GetPooled, Usable
<1> HIDE DEF c
<1>3. /\ client' \in [Messages -> Conns \cup {None}] /\ pc' \in [Messages -> PCs]
      /\ \A x \in Messages : pc'[x] \in {"write", "delete"} => client'[x] \in Dialled
  BY <1>1, <1>2 DEF TypeInv, TypeOK, PCs
<1> QED BY <1>1, <1>3 DEF TypeInv, TypeOK, PCs, Dialled

\* Steps of one goroutine that move no line.
LEMMA SendType ==
    ASSUME TypeInv, NEW m \in Messages,
           UNCHANGED <<client, conns, connVars, hubVars>>,
           NEW p \in PCs \ {"write"}, p = "delete" => pc[m] = "write", GoTo(m, p),
           poolMu' \in [Nodes -> Messages \cup {None}], faults' \in 0..MaxFaults
    PROVE  TypeInv'
<1>1. /\ far' \in [Conns -> {"backlog", "served", "closed"}] /\ done' \subseteq Conns
      /\ buffer' \in [Conns -> Seq(Messages)] /\ broadcast' \in [Nodes -> Seq(Line)]
      /\ \A c \in Conns : Len(buffer'[c]) <= BufferSize
      /\ \A n \in Nodes : Len(broadcast'[n]) <= BroadcastSize
      /\ dispatched' \in [Messages -> Nat]
  BY DEF TypeInv, TypeOK, connVars, hubVars
<1> QED BY <1>1, GoToType, LinesType DEF connVars

LEMMA InitType == Init => TypeInv
<1> SUFFICES ASSUME Init PROVE TypeInv
  OBVIOUS
<1>1. ends = <<>> /\ Dialled = {} /\ ends \in Seq([from : Nodes, to : Nodes])
  BY DEF Init, Dialled
<1>2. /\ pc \in [Messages -> PCs] /\ \A m \in Messages : pc[m] = "none"
      /\ client \in [Messages -> Conns \cup {None}]
      /\ poolMu \in [Nodes -> Messages \cup {None}]
      /\ far \in [Conns -> {"backlog", "served", "closed"}]
      /\ done \subseteq Conns
      /\ dispatched \in [Messages -> Nat]
      /\ faults \in 0..MaxFaults
  BY SizesAssumption DEF Init, PCs
<1>3. /\ conns \in [Nodes -> [Nodes -> Conns \cup {None}]]
      /\ \A n, k \in Nodes : conns[n][k] = None
  BY DEF Init
<1>4. /\ buffer \in [Conns -> Seq(Messages)] /\ \A c \in Conns : Len(buffer[c]) <= BufferSize
      /\ broadcast \in [Nodes -> Seq(Line)] /\ \A n \in Nodes : Len(broadcast[n]) <= BroadcastSize
  BY SizesAssumption DEF Init
<1> QED BY <1>1, <1>2, <1>3, <1>4 DEF TypeInv, TypeOK, PCs

LEMMA NextType == TypeInv /\ [Next]_vars => TypeInv'
<1> SUFFICES ASSUME TypeInv, [Next]_vars PROVE TypeInv'
  OBVIOUS
<1>1. ASSUME NEW r \in Requests, Start(r) PROVE TypeInv'
  <2>1. <<r, "request">> \in Messages
    BY DEF Messages
  <2>2. UNCHANGED <<client, conns, connVars, hubVars, poolMu, faults>>
        /\ GoTo(<<r, "request">>, "get")
    BY <1>1 DEF Start, poolVars
  <2> QED BY <2>1, <2>2, SendType DEF PCs, TypeInv, TypeOK
<1>2. ASSUME NEW m \in Messages, GetPooled(m) PROVE TypeInv'
  BY <1>2, GetPooledType
<1>3. ASSUME NEW m \in Messages, GetUnpooled(m) PROVE TypeInv'
  <2>1. UNCHANGED <<client, conns, connVars, hubVars, faults>> /\ GoTo(m, "dial")
    BY <1>3 DEF GetUnpooled
  <2>2. poolMu' \in [Nodes -> Messages \cup {None}]
    BY <1>3 DEF GetUnpooled, TypeInv, TypeOK
  <2> QED BY <2>1, <2>2, SendType DEF PCs, TypeInv, TypeOK
<1>4. ASSUME NEW m \in Messages, Dial(m) PROVE TypeInv'
  BY <1>4, DialType
<1>5. ASSUME NEW m \in Messages, Write(m) PROVE TypeInv'
  BY <1>5, WriteType
<1>6. ASSUME NEW m \in Messages, WriteLost(m) PROVE TypeInv'
  <2>1. UNCHANGED <<client, conns, connVars, hubVars, poolMu, faults>> /\ GoTo(m, "sent")
    BY <1>6 DEF WriteLost, poolVars
  <2> QED BY <2>1, SendType DEF PCs, TypeInv, TypeOK
<1>7. ASSUME NEW m \in Messages, WriteFails(m) PROVE TypeInv'
  <2>1. /\ UNCHANGED <<client, conns, connVars, hubVars, poolMu, faults>> /\ GoTo(m, "delete")
        /\ pc[m] = "write"
    BY <1>7 DEF WriteFails, poolVars
  <2> QED BY <2>1, SendType DEF PCs, TypeInv, TypeOK
<1>8. ASSUME NEW m \in Messages, Delete(m) PROVE TypeInv'
  BY <1>8, DeleteType
<1>9. ASSUME NEW m \in Messages, DialFails(m) PROVE TypeInv'
  <2>1. UNCHANGED <<client, conns, connVars, hubVars>> /\ GoTo(m, "failed")
    BY <1>9 DEF DialFails
  <2>2. poolMu' \in [Nodes -> Messages \cup {None}]
    BY <1>9 DEF DialFails, TypeInv, TypeOK
  <2>3. faults' \in 0..MaxFaults
    BY <1>9, SizesAssumption DEF DialFails, TypeInv, TypeOK
  <2> QED BY <2>1, <2>2, <2>3, SendType DEF PCs
<1>10. ASSUME NEW c \in Conns, Serve(c) PROVE TypeInv'
  BY <1>10, LinesType DEF Serve, TypeInv, TypeOK, PCs, sendVars, poolVars, hubVars
<1>11. ASSUME NEW c \in Conns, ReadPump(c) PROVE TypeInv'
  BY <1>11, ReadPumpType
<1>12. ASSUME NEW c \in Conns, ReadPumpEnds(c) PROVE TypeInv'
  BY <1>12, CloseType DEF ReadPumpEnds, TypeInv, TypeOK
<1>13. ASSUME NEW c \in Conns, ReadLoopEnds(c) PROVE TypeInv'
  BY <1>13, LinesType DEF ReadLoopEnds, TypeInv, TypeOK, PCs, sendVars, poolVars, hubVars
<1>14. ASSUME NEW c \in Conns, Break(c) PROVE TypeInv'
  <2>1. faults' \in 0..MaxFaults
    BY <1>14, SizesAssumption DEF Break, TypeInv, TypeOK
  <2> QED BY <1>14, <2>1, CloseType DEF Break
<1>15. ASSUME NEW n \in Nodes, Run(n) PROVE TypeInv'
  BY <1>15, RunType
<1>16. CASE UNCHANGED vars
  BY <1>16 DEF TypeInv, TypeOK, Dialled, vars, sendVars, poolVars, connVars, hubVars
<1> QED
  BY <1>1, <1>2, <1>3, <1>4, <1>5, <1>6, <1>7, <1>8, <1>9, <1>10, <1>11, <1>12, <1>13,
     <1>14, <1>15, <1>16 DEF Next, Send, Get, Receive

\* A connection leads from the node that has it in its pool to the peer it has it
\* for (sender.go:41-54), and no buffer and no channel holds more than its size.
THEOREM TypeCorrect == Spec => []TypeOK
<1>1. TypeInv => TypeOK
  BY DEF TypeInv
<1> QED BY <1>1, InitType, NextType, PTL DEF Spec

-----------------------------------------------------------------------------
(* Every message is in one place.                                          *)

\* Sent messages stay sent; lines may be lost.
LEMMA LinesLost ==
    ASSUME OnePlace, UNCHANGED hubVars,
           \A m \in Messages, c \in Conns, i \in Nat : InBuffer(c, i, m)' => InBuffer(c, i, m),
           \A m \in Messages : pc[m] = "sent" => pc'[m] = "sent"
    PROVE  OnePlace'
<1>1. \A m \in Messages, n \in Nodes, i \in Nat : OnChannel(n, i, m)' <=> OnChannel(n, i, m)
  BY DEF OnChannel, hubVars
<1>2. dispatched' = dispatched
  BY DEF hubVars
<1> QED BY <1>1, <1>2 DEF OnePlace

LEMMA CloseKeepsOnePlace ==
    ASSUME TypeInv, OnePlace, NEW c \in Conns, Close(c), UNCHANGED <<pc, hubVars>>
    PROVE  OnePlace'
<1>1. buffer' = [buffer EXCEPT ![c] = <<>>]
  BY DEF Close
<1>2. ASSUME NEW m \in Messages, NEW d \in Conns, NEW i \in Nat, InBuffer(d, i, m)'
      PROVE  InBuffer(d, i, m)
  BY <1>1, <1>2 DEF InBuffer, TypeInv, TypeOK
<1> QED BY <1>2, LinesLost

LEMMA SendKeepsOnePlace ==
    ASSUME TypeInv, OnePlace, NEW m \in Messages, pc[m] # "sent", NEW p, GoTo(m, p),
           UNCHANGED <<buffer, hubVars>>
    PROVE  OnePlace'
<1>1. \A x \in Messages, c \in Conns, i \in Nat : InBuffer(c, i, x)' => InBuffer(c, i, x)
  BY DEF InBuffer
<1>2. \A x \in Messages : pc[x] = "sent" => pc'[x] = "sent"
  BY DEF GoTo, TypeInv, TypeOK
<1> QED BY <1>1, <1>2, LinesLost

\* The line is new: it was nowhere before.
LEMMA WriteKeepsOnePlace ==
    ASSUME TypeInv, OnePlace, NEW m \in Messages, Write(m)
    PROVE  OnePlace'
<1> DEFINE c == client[m]
           last == Len(buffer[c]) + 1
<1>1. /\ pc[m] = "write" /\ pc' = [pc EXCEPT ![m] = "sent"]
      /\ buffer' = [buffer EXCEPT ![c] = Append(@, m)]
      /\ broadcast' = broadcast /\ dispatched' = dispatched
  BY DEF Write, GoTo, hubVars
<1>2. c \in Conns /\ buffer[c] \in Seq(Messages)
  BY DEF Write, TypeInv, TypeOK
<1>3. last \in Nat
  BY <1>2
<1>4. ASSUME NEW x \in Messages, NEW d \in Conns, NEW i \in Nat, InBuffer(d, i, x)'
      PROVE  InBuffer(d, i, x) \/ (d = c /\ i = last /\ x = m)
  <2>1. CASE d = c
    <3>1. buffer'[d] = Append(buffer[c], m)
      BY <1>1, <1>2, <2>1 DEF TypeInv, TypeOK
    <3>2. i \in DOMAIN Append(buffer[c], m) /\ Append(buffer[c], m)[i] = x
      BY <1>4, <3>1 DEF InBuffer
    <3> QED BY <1>2, <2>1, <3>2 DEF InBuffer
  <2>2. CASE d # c
    BY <1>1, <1>4, <2>2 DEF InBuffer, TypeInv, TypeOK
  <2> QED BY <2>1, <2>2
<1>5. \A x \in Messages, n \in Nodes, i \in Nat : OnChannel(n, i, x)' <=> OnChannel(n, i, x)
  BY <1>1 DEF OnChannel
<1>6. /\ \A d \in Conns, i \in Nat : ~InBuffer(d, i, m)
      /\ \A n \in Nodes, i \in Nat : ~OnChannel(n, i, m)
      /\ dispatched[m] = 0
  BY <1>1 DEF OnePlace
<1>7. pc'[m] = "sent" /\ \A x \in Messages : pc[x] = "sent" => pc'[x] = "sent"
  BY <1>1 DEF TypeInv, TypeOK
<1> HIDE DEF c, last
<1> SUFFICES ASSUME NEW x \in Messages
             PROVE  /\ dispatched'[x] \in {0, 1}
                    /\ dispatched'[x] = 1 => pc'[x] = "sent"
                    /\ \A d \in Conns, i \in Nat : InBuffer(d, i, x)' =>
                          /\ pc'[x] = "sent" /\ dispatched'[x] = 0
                          /\ \A n \in Nodes, j \in Nat : ~OnChannel(n, j, x)'
                          /\ \A e \in Conns, j \in Nat : InBuffer(e, j, x)' => e = d /\ j = i
                    /\ \A n \in Nodes, i \in Nat : OnChannel(n, i, x)' =>
                          /\ pc'[x] = "sent" /\ dispatched'[x] = 0
                          /\ \A k \in Nodes, j \in Nat : OnChannel(k, j, x)' => k = n /\ j = i
  BY DEF OnePlace
<1>8. CASE x = m
  BY <1>1, <1>4, <1>5, <1>6, <1>7, <1>8
<1>9. CASE x # m
  BY <1>1, <1>4, <1>5, <1>7, <1>9 DEF OnePlace
<1> QED BY <1>8, <1>9

\* The head of the buffer goes to the end of the channel.
LEMMA ReadPumpKeepsOnePlace ==
    ASSUME TypeInv, OnePlace, NEW c \in Conns, ReadPump(c), NEW m, m = Head(buffer[c])
    PROVE  OnePlace'
<1> DEFINE k == ends[c].to
           l == [conn |-> c, msg |-> m]
           last == Len(broadcast[k]) + 1
<1>1. /\ c \in Dialled /\ buffer[c] # <<>>
      /\ buffer' = [buffer EXCEPT ![c] = Tail(@)]
      /\ broadcast' = [broadcast EXCEPT ![k] = Append(@, l)]
      /\ pc' = pc /\ dispatched' = dispatched
  BY DEF ReadPump, Readable, sendVars
<1>2. k \in Nodes
  <2>1. ends \in Seq([from : Nodes, to : Nodes]) /\ c \in 1..Len(ends)
    BY <1>1 DEF TypeInv, TypeOK, Dialled
  <2>2. ends[c] \in [from : Nodes, to : Nodes]
    BY <2>1, ElementOfSeq
  <2> QED BY <2>2
<1>3. /\ buffer[c] \in Seq(Messages) /\ broadcast[k] \in Seq(Line)
      /\ last \in Nat /\ m \in Messages
  BY <1>1, <1>2, SMTT(20) DEF TypeInv, TypeOK
<1>4. InBuffer(c, 1, m)
  BY <1>1, <1>3 DEF InBuffer
<1>5. ASSUME NEW x \in Messages, NEW d \in Conns, NEW i \in Nat, InBuffer(d, i, x)'
      PROVE  IF d = c THEN i + 1 \in Nat /\ i # 0 /\ InBuffer(d, i + 1, x) ELSE InBuffer(d, i, x)
  <2>1. CASE d = c
    <3>1. buffer'[d] = Tail(buffer[c])
      BY <1>1, <2>1 DEF TypeInv, TypeOK
    <3>2. i \in DOMAIN Tail(buffer[c]) /\ Tail(buffer[c])[i] = x
      BY <1>5, <3>1 DEF InBuffer
    <3> QED BY <1>1, <1>3, <2>1, <3>2 DEF InBuffer
  <2>2. CASE d # c
    BY <1>1, <1>5, <2>2 DEF InBuffer, TypeInv, TypeOK
  <2> QED BY <2>1, <2>2
<1>6. ASSUME NEW x \in Messages, NEW n \in Nodes, NEW i \in Nat, OnChannel(n, i, x)'
      PROVE  OnChannel(n, i, x) \/ (n = k /\ i = last /\ x = m)
  <2>1. CASE n = k
    <3>1. broadcast'[n] = Append(broadcast[k], l)
      BY <1>1, <1>2, <2>1 DEF TypeInv, TypeOK
    <3>2. i \in DOMAIN Append(broadcast[k], l) /\ Append(broadcast[k], l)[i].msg = x
      BY <1>6, <3>1 DEF OnChannel
    <3> QED BY <1>3, <2>1, <3>2 DEF OnChannel
  <2>2. CASE n # k
    BY <1>1, <1>6, <2>2 DEF OnChannel, TypeInv, TypeOK
  <2> QED BY <2>1, <2>2
<1> HIDE DEF k, l, last
<1>7. /\ pc[m] = "sent" /\ dispatched[m] = 0
      /\ \A n \in Nodes, i \in Nat : ~OnChannel(n, i, m)
      /\ \A d \in Conns, i \in Nat : InBuffer(d, i, m) => d = c /\ i = 1
  BY <1>3, <1>4 DEF OnePlace
<1>8. \A d \in Conns, i \in Nat : ~InBuffer(d, i, m)'
  <2> SUFFICES ASSUME NEW d \in Conns, NEW i \in Nat, InBuffer(d, i, m)' PROVE FALSE
    OBVIOUS
  <2>1. CASE d = c
    <3>1. i + 1 \in Nat /\ i # 0 /\ InBuffer(c, i + 1, m)
      BY <1>3, <1>5, <2>1
    <3>2. i + 1 = 1
      BY <1>7, <3>1
    <3> QED BY <3>1, <3>2
  <2>2. CASE d # c
    BY <1>3, <1>5, <1>7, <2>2
  <2> QED BY <2>1, <2>2
<1> SUFFICES ASSUME NEW x \in Messages
             PROVE  /\ dispatched'[x] \in {0, 1}
                    /\ dispatched'[x] = 1 => pc'[x] = "sent"
                    /\ \A d \in Conns, i \in Nat : InBuffer(d, i, x)' =>
                          /\ pc'[x] = "sent" /\ dispatched'[x] = 0
                          /\ \A n \in Nodes, j \in Nat : ~OnChannel(n, j, x)'
                          /\ \A e \in Conns, j \in Nat : InBuffer(e, j, x)' => e = d /\ j = i
                    /\ \A n \in Nodes, i \in Nat : OnChannel(n, i, x)' =>
                          /\ pc'[x] = "sent" /\ dispatched'[x] = 0
                          /\ \A h \in Nodes, j \in Nat : OnChannel(h, j, x)' => h = n /\ j = i
  BY DEF OnePlace
<1>9. CASE x = m
  BY <1>1, <1>3, <1>6, <1>7, <1>8, <1>9
<1>10. CASE x # m
  <2>1. \A n \in Nodes, i \in Nat : OnChannel(n, i, x)' => OnChannel(n, i, x)
    BY <1>6, <1>10
  <2>2. ASSUME NEW d \in Conns, NEW i \in Nat, InBuffer(d, i, x)'
        PROVE  /\ pc'[x] = "sent" /\ dispatched'[x] = 0
               /\ \A n \in Nodes, j \in Nat : ~OnChannel(n, j, x)'
               /\ \A e \in Conns, j \in Nat : InBuffer(e, j, x)' => e = d /\ j = i
    <3>1. PICK h \in Nat : InBuffer(d, h, x) /\ h = IF d = c THEN i + 1 ELSE i
      BY <1>5, <2>2
    <3>2. /\ pc'[x] = "sent" /\ dispatched'[x] = 0
          /\ \A n \in Nodes, j \in Nat : ~OnChannel(n, j, x)'
      BY <1>1, <2>1, <3>1 DEF OnePlace
    <3>3. ASSUME NEW e \in Conns, NEW j \in Nat, InBuffer(e, j, x)'
          PROVE  e = d /\ j = i
      <4>1. PICK g \in Nat : InBuffer(e, g, x) /\ g = IF e = c THEN j + 1 ELSE j
        BY <1>5, <3>3
      <4>2. e = d /\ g = h
        BY <3>1, <4>1 DEF OnePlace
      <4> QED BY <3>1, <4>1, <4>2
    <3> QED BY <3>2, <3>3
  <2> QED BY <1>1, <2>1, <2>2 DEF OnePlace
<1> QED BY <1>9, <1>10

\* The head of the channel is dispatched.
LEMMA RunKeepsOnePlace ==
    ASSUME TypeInv, OnePlace, NEW k \in Nodes, Run(k), NEW m, m = Head(broadcast[k]).msg
    PROVE  OnePlace'
<1>1. /\ m \in Messages /\ broadcast[k] # <<>>
      /\ broadcast' = [broadcast EXCEPT ![k] = Tail(@)]
      /\ dispatched' = [dispatched EXCEPT ![m] = @ + 1]
      /\ pc' = pc \/ \E x \in Messages : pc[x] = "none" /\ pc' = [pc EXCEPT ![x] = "get"]
      /\ buffer' = buffer
  BY RunTakes DEF Run, connVars
<1>2. broadcast[k] \in Seq(Line)
  BY DEF TypeInv, TypeOK
<1>3. OnChannel(k, 1, m)
  BY <1>1, <1>2 DEF OnChannel
<1>4. ASSUME NEW x \in Messages, NEW n \in Nodes, NEW i \in Nat, OnChannel(n, i, x)'
      PROVE  IF n = k THEN i + 1 \in Nat /\ i # 0 /\ OnChannel(n, i + 1, x) ELSE OnChannel(n, i, x)
  <2>1. CASE n = k
    <3>1. broadcast'[n] = Tail(broadcast[k])
      BY <1>1, <2>1 DEF TypeInv, TypeOK
    <3>2. i \in DOMAIN Tail(broadcast[k]) /\ Tail(broadcast[k])[i].msg = x
      BY <1>4, <3>1 DEF OnChannel
    <3> QED BY <1>1, <1>2, <2>1, <3>2 DEF OnChannel
  <2>2. CASE n # k
    BY <1>1, <1>4, <2>2 DEF OnChannel, TypeInv, TypeOK
  <2> QED BY <2>1, <2>2
<1>5. \A x \in Messages, c \in Conns, i \in Nat : InBuffer(c, i, x)' <=> InBuffer(c, i, x)
  BY <1>1 DEF InBuffer
<1>6. /\ pc[m] = "sent" /\ dispatched[m] = 0
      /\ \A c \in Conns, i \in Nat : ~InBuffer(c, i, m)
      /\ \A n \in Nodes, i \in Nat : OnChannel(n, i, m) => n = k /\ i = 1
  BY <1>1, <1>3 DEF OnePlace
<1>7. dispatched'[m] = 1 /\ \A x \in Messages : x # m => dispatched'[x] = dispatched[x]
  BY <1>1, <1>6 DEF TypeInv, TypeOK
<1>8. \A x \in Messages : pc[x] = "sent" => pc'[x] = "sent"
  BY <1>1 DEF TypeInv, TypeOK
<1>9. \A n \in Nodes, i \in Nat : ~OnChannel(n, i, m)'
  <2> SUFFICES ASSUME NEW n \in Nodes, NEW i \in Nat, OnChannel(n, i, m)' PROVE FALSE
    OBVIOUS
  <2>1. CASE n = k
    <3>1. i + 1 \in Nat /\ i # 0 /\ OnChannel(k, i + 1, m)
      BY <1>1, <1>4, <2>1
    <3>2. i + 1 = 1
      BY <1>6, <3>1
    <3> QED BY <3>1, <3>2
  <2>2. CASE n # k
    BY <1>1, <1>4, <1>6, <2>2
  <2> QED BY <2>1, <2>2
<1> SUFFICES ASSUME NEW x \in Messages
             PROVE  /\ dispatched'[x] \in {0, 1}
                    /\ dispatched'[x] = 1 => pc'[x] = "sent"
                    /\ \A c \in Conns, i \in Nat : InBuffer(c, i, x)' =>
                          /\ pc'[x] = "sent" /\ dispatched'[x] = 0
                          /\ \A n \in Nodes, j \in Nat : ~OnChannel(n, j, x)'
                          /\ \A e \in Conns, j \in Nat : InBuffer(e, j, x)' => e = c /\ j = i
                    /\ \A n \in Nodes, i \in Nat : OnChannel(n, i, x)' =>
                          /\ pc'[x] = "sent" /\ dispatched'[x] = 0
                          /\ \A h \in Nodes, j \in Nat : OnChannel(h, j, x)' => h = n /\ j = i
  BY DEF OnePlace
<1>10. CASE x = m
  BY <1>1, <1>5, <1>6, <1>7, <1>8, <1>9, <1>10
<1>11. CASE x # m
  <2>1. \A n \in Nodes, i \in Nat : OnChannel(n, i, x)' =>
            \E h \in Nat : OnChannel(n, h, x) /\ h = IF n = k THEN i + 1 ELSE i
    BY <1>4
  <2>2. ASSUME NEW n \in Nodes, NEW i \in Nat, OnChannel(n, i, x)'
        PROVE  /\ pc'[x] = "sent" /\ dispatched'[x] = 0
               /\ \A h \in Nodes, j \in Nat : OnChannel(h, j, x)' => h = n /\ j = i
    <3>1. PICK g \in Nat : OnChannel(n, g, x) /\ g = IF n = k THEN i + 1 ELSE i
      BY <2>1, <2>2
    <3>2. pc'[x] = "sent" /\ dispatched'[x] = 0
      BY <1>7, <1>8, <1>11, <3>1 DEF OnePlace
    <3>3. ASSUME NEW h \in Nodes, NEW j \in Nat, OnChannel(h, j, x)'
          PROVE  h = n /\ j = i
      <4>1. PICK f \in Nat : OnChannel(h, f, x) /\ f = IF h = k THEN j + 1 ELSE j
        BY <2>1, <3>3
      <4>2. h = n /\ f = g
        BY <3>1, <4>1 DEF OnePlace
      <4> QED BY <3>1, <4>1, <4>2
    <3> QED BY <3>2, <3>3
  <2>3. \A c \in Conns, i \in Nat : InBuffer(c, i, x)' =>
          /\ pc'[x] = "sent" /\ dispatched'[x] = 0
          /\ \A n \in Nodes, j \in Nat : ~OnChannel(n, j, x)'
          /\ \A e \in Conns, j \in Nat : InBuffer(e, j, x)' => e = c /\ j = i
    BY <1>5, <1>7, <1>8, <1>11, <2>1 DEF OnePlace
  <2> QED BY <1>7, <1>8, <1>11, <2>2, <2>3 DEF OnePlace
<1> QED BY <1>10, <1>11

LEMMA InitOnePlace == Init => OnePlace
<1> SUFFICES ASSUME Init PROVE OnePlace
  OBVIOUS
<1>1. /\ \A m \in Messages : dispatched[m] = 0
      /\ \A c \in Conns : buffer[c] = <<>>
      /\ \A n \in Nodes : broadcast[n] = <<>>
  BY DEF Init
<1>2. /\ \A c \in Conns, i \in Nat, m \in Messages : ~InBuffer(c, i, m)
      /\ \A n \in Nodes, i \in Nat, m \in Messages : ~OnChannel(n, i, m)
  BY <1>1 DEF InBuffer, OnChannel
<1> QED BY <1>1, <1>2 DEF OnePlace

LEMMA NextOnePlace == TypeInv /\ OnePlace /\ [Next]_vars => OnePlace'
<1> SUFFICES ASSUME TypeInv, OnePlace, [Next]_vars PROVE OnePlace'
  OBVIOUS
<1>1. ASSUME NEW r \in Requests, Start(r) PROVE OnePlace'
  <2>1. <<r, "request">> \in Messages
    BY DEF Messages
  <2> QED BY <1>1, <2>1, SendKeepsOnePlace DEF Start, connVars
<1>2. ASSUME NEW m \in Messages, Write(m) PROVE OnePlace'
  BY <1>2, WriteKeepsOnePlace
<1>3. ASSUME NEW m \in Messages, Send(m) \/ DialFails(m), ~Write(m) PROVE OnePlace'
  <2>1. pc[m] # "sent" /\ UNCHANGED <<buffer, hubVars>>
    BY <1>3 DEF Send, Get, GetPooled, GetUnpooled, Dial, WriteLost, WriteFails, Delete, DialFails,
                connVars
  <2>2. \E p : GoTo(m, p)
    BY <1>3 DEF Send, Get, GetPooled, GetUnpooled, Dial, WriteLost, WriteFails, Delete, DialFails
  <2> QED BY <2>1, <2>2, SendKeepsOnePlace
<1>4. ASSUME NEW c \in Conns, ReadPump(c) PROVE OnePlace'
  BY <1>4, ReadPumpKeepsOnePlace
<1>5. ASSUME NEW c \in Conns, ReadPumpEnds(c) \/ Break(c) PROVE OnePlace'
  BY <1>5, CloseKeepsOnePlace DEF ReadPumpEnds, Break, sendVars
<1>6. ASSUME NEW c \in Conns, Serve(c) \/ ReadLoopEnds(c) PROVE OnePlace'
  <2>1. UNCHANGED <<pc, buffer, hubVars>>
    BY <1>6 DEF Serve, ReadLoopEnds, sendVars
  <2>2. \A m \in Messages, d \in Conns, i \in Nat : InBuffer(d, i, m)' => InBuffer(d, i, m)
    BY <2>1 DEF InBuffer
  <2> QED BY <2>1, <2>2, LinesLost
<1>7. ASSUME NEW n \in Nodes, Run(n) PROVE OnePlace'
  BY <1>7, RunKeepsOnePlace
<1>8. CASE UNCHANGED vars
  <2>1. UNCHANGED <<pc, buffer, hubVars>>
    BY <1>8 DEF vars, sendVars, connVars
  <2>2. \A m \in Messages, d \in Conns, i \in Nat : InBuffer(d, i, m)' => InBuffer(d, i, m)
    BY <2>1 DEF InBuffer
  <2> QED BY <2>1, <2>2, LinesLost
<1> QED BY <1>1, <1>2, <1>3, <1>4, <1>5, <1>6, <1>7, <1>8 DEF Next, Receive

-----------------------------------------------------------------------------
(* The refinement of Network.                                              *)

Sent == {m \in Messages : pc[m] = "sent"}

\* Whoever goes anywhere but to "sent", from anywhere but there, hands nothing over.
LEMMA NothingHandedOver ==
    ASSUME TypeInv, NEW m \in Messages, pc[m] # "sent", NEW p, p # "sent", GoTo(m, p)
    PROVE  Sent' = Sent
BY DEF Sent, GoTo, TypeInv, TypeOK

LEMMA HandOver ==
    ASSUME TypeInv, NEW m \in Messages, pc[m] = "write", GoTo(m, "sent"), UNCHANGED dispatched
    PROVE  Net!Accept(m)
<1>1. m \notin Sent /\ Sent' = Sent \cup {m}
  BY DEF Sent, GoTo, TypeInv, TypeOK
<1> QED BY <1>1 DEF Net!Accept, Sent

LEMMA RunHandles ==
    ASSUME TypeInv, OnePlace, NEW n \in Nodes, Run(n)
    PROVE  \E m \in Messages : Net!Handle(m)
<1>1. PICK m \in Messages : m = Head(broadcast[n]).msg
  BY RunTakes
<1>2. OnChannel(n, 1, m)
  <2>1. broadcast[n] \in Seq(Line) /\ broadcast[n] # <<>>
    BY DEF TypeInv, TypeOK, Run
  <2> QED BY <1>1, <2>1 DEF OnChannel
<1>3. pc[m] = "sent" /\ dispatched[m] = 0
  BY <1>2 DEF OnePlace
<1>4. dispatched' = [dispatched EXCEPT ![m] = 1]
  BY <1>1, <1>3, RunTakes DEF TypeInv, TypeOK
<1>5. Sent' = Sent
  <2>1. pc' = pc \/ \E x \in Messages : pc[x] = "none" /\ pc' = [pc EXCEPT ![x] = "get"]
    BY RunTakes
  <2> QED BY <2>1 DEF Sent, TypeInv, TypeOK
<1>6. Net!Handle(m)
  BY <1>3, <1>4, <1>5 DEF Net!Handle, Sent
<1> QED BY <1>6

LEMMA InitNetwork == Init => Net!Init
<1> SUFFICES ASSUME Init PROVE Net!Init
  OBVIOUS
<1>1. {m \in Messages : pc[m] = "sent"} = {} /\ dispatched = [m \in Messages |-> 0]
  BY DEF Init
<1> QED BY <1>1 DEF Net!Init

LEMMA NextNetwork ==
    TypeInv /\ OnePlace /\ [Next]_vars => [Net!Next]_<<Sent, dispatched>>
<1> SUFFICES ASSUME TypeInv, OnePlace, [Next]_vars
             PROVE  Net!Next \/ UNCHANGED <<Sent, dispatched>>
  OBVIOUS
<1>1. ASSUME NEW r \in Requests, Start(r) PROVE UNCHANGED <<Sent, dispatched>>
  <2>1. <<r, "request">> \in Messages
    BY DEF Messages
  <2> QED BY <1>1, <2>1, NothingHandedOver DEF Start, hubVars
<1>2. ASSUME NEW m \in Messages, Write(m) \/ WriteLost(m) PROVE Net!Next
  <2>1. Net!Accept(m)
    BY <1>2, HandOver DEF Write, WriteLost, hubVars
  <2> QED BY <2>1 DEF Net!Next
<1>3. ASSUME NEW m \in Messages, Send(m) \/ DialFails(m), ~Write(m), ~WriteLost(m)
      PROVE  UNCHANGED <<Sent, dispatched>>
  <2>1. pc[m] # "sent" /\ dispatched' = dispatched
    BY <1>3 DEF Send, Get, GetPooled, GetUnpooled, Dial, WriteFails, Delete, DialFails, hubVars
  <2>2. \E p : p # "sent" /\ GoTo(m, p)
    BY <1>3 DEF Send, Get, GetPooled, GetUnpooled, Dial, WriteFails, Delete, DialFails
  <2> QED BY <2>1, <2>2, NothingHandedOver
<1>4. ASSUME NEW c \in Conns, Receive(c) \/ ReadLoopEnds(c) \/ Break(c)
      PROVE  UNCHANGED <<Sent, dispatched>>
  BY <1>4 DEF Receive, Serve, ReadPump, ReadPumpEnds, ReadLoopEnds, Break, sendVars, hubVars, Sent
<1>5. ASSUME NEW n \in Nodes, Run(n) PROVE Net!Next
  BY <1>5, RunHandles DEF Net!Next
<1>6. CASE UNCHANGED vars
  BY <1>6 DEF vars, sendVars, hubVars, Sent
<1> QED BY <1>1, <1>2, <1>3, <1>4, <1>5, <1>6 DEF Next

\* Network: a message is handed over once, and one that was is dispatched once at
\* most; nothing else is (sender.go:58-83, hub.go and dispatcher.go), whatever of
\* the connections breaks and however often a Send fails.
THEOREM NetworkImplemented == Spec => ImplementsNetwork
<1>1. Init => TypeInv /\ OnePlace
  BY InitType, InitOnePlace
<1>2. (TypeInv /\ OnePlace) /\ [Next]_vars => (TypeInv /\ OnePlace)'
  BY NextType, NextOnePlace
<1>3. (TypeInv /\ OnePlace) /\ [Next]_vars => [Net!Next]_<<Sent, dispatched>>
  BY NextNetwork
<1> QED BY <1>1, <1>2, <1>3, InitNetwork, PTL DEF Spec, ImplementsNetwork, Net!Spec, Sent

-----------------------------------------------------------------------------
(* Who dials does it alone.                                                *)

LEMMA InitDialsAlone == Init => DialsAlone
BY DEF Init, DialsAlone

\* Nobody begins to dial, no pool and no mutex changes, and nothing closed opens.
LEMMA OthersKeepDialsAlone ==
    ASSUME TypeInv, DialsAlone, UNCHANGED poolVars, done \subseteq done',
           \A m \in Messages : pc'[m] = "dial" => pc[m] = "dial"
    PROVE  DialsAlone'
<1> SUFFICES ASSUME NEW m \in Messages, pc'[m] = "dial"
             PROVE  poolMu'[Sender(m)] = m /\ ~Usable(m)'
  BY DEF DialsAlone
<1>1. poolMu[Sender(m)] = m /\ ~Usable(m)
  BY DEF DialsAlone
<1>2. Pooled(m)' = Pooled(m)
  BY DEF Pooled, poolVars
<1> QED BY <1>1, <1>2 DEF Usable, poolVars

\* Whoever changes the pool of a node or its mutex finds the mutex free, or holds it.
LEMMA PoolChange ==
    ASSUME TypeInv, DialsAlone, NEW m \in Messages,
           poolMu[Sender(m)] \in {None, m},
           NEW x \in Messages, x # m, pc[x] = "dial"
    PROVE  Sender(x) # Sender(m)
<1>1. x # None
  BY ValuesAssumption
<1> QED BY <1>1 DEF DialsAlone

LEMMA PoolChangeKeepsDialsAlone ==
    ASSUME TypeInv, DialsAlone, NEW m \in Messages,
           poolMu[Sender(m)] \in {None, m}, NEW p, GoTo(m, p),
           \A n \in Nodes : n # Sender(m) => conns'[n] = conns[n] /\ poolMu'[n] = poolMu[n],
           UNCHANGED done,
           p = "dial" => poolMu'[Sender(m)] = m /\ ~Usable(m)'
    PROVE  DialsAlone'
<1> SUFFICES ASSUME NEW x \in Messages, pc'[x] = "dial"
             PROVE  poolMu'[Sender(x)] = x /\ ~Usable(x)'
  BY DEF DialsAlone
<1>1. CASE x = m
  BY <1>1 DEF GoTo, TypeInv, TypeOK
<1>2. CASE x # m
  <2>1. pc[x] = "dial"
    BY <1>2 DEF GoTo, TypeInv, TypeOK
  <2>2. Sender(x) # Sender(m) /\ Sender(x) \in Nodes
    BY <1>2, <2>1, PoolChange, MessageParts
  <2>3. poolMu'[Sender(x)] = poolMu[Sender(x)] /\ Pooled(x)' = Pooled(x)
    BY <2>2 DEF Pooled
  <2> QED BY <2>1, <2>3 DEF DialsAlone, Usable
<1> QED BY <1>1, <1>2

LEMMA NextDialsAlone == TypeInv /\ DialsAlone /\ [Next]_vars => DialsAlone'
<1> SUFFICES ASSUME TypeInv, DialsAlone, [Next]_vars PROVE DialsAlone'
  OBVIOUS
<1>1. ASSUME NEW r \in Requests, Start(r) PROVE DialsAlone'
  <2>1. GoTo(<<r, "request">>, "get") /\ UNCHANGED <<poolVars, done>>
    BY <1>1 DEF Start, connVars
  <2>2. \A m \in Messages : pc'[m] = "dial" => pc[m] = "dial"
    BY <2>1 DEF GoTo, TypeInv, TypeOK
  <2> QED BY <2>1, <2>2, OthersKeepDialsAlone
<1>2. ASSUME NEW m \in Messages, GetUnpooled(m) PROVE DialsAlone'
  <2>1. /\ ~Locked(m) /\ ~Usable(m) /\ GoTo(m, "dial")
        /\ poolMu' = [poolMu EXCEPT ![Sender(m)] = m] /\ UNCHANGED <<conns, done>>
    BY <1>2 DEF GetUnpooled, connVars
  <2>2. /\ poolMu'[Sender(m)] = m
        /\ \A n \in Nodes : n # Sender(m) => conns'[n] = conns[n] /\ poolMu'[n] = poolMu[n]
    BY <2>1, MessageParts DEF TypeInv, TypeOK
  <2>3. ~Usable(m)'
    BY <2>1 DEF Usable, Pooled
  <2> QED BY <2>1, <2>2, <2>3, PoolChangeKeepsDialsAlone DEF Locked
<1>3. ASSUME NEW m \in Messages, Dial(m) \/ DialFails(m) PROVE DialsAlone'
  <2>1. poolMu[Sender(m)] = m
    BY <1>3 DEF Dial, DialFails, DialsAlone
  <2>2. /\ poolMu' = [poolMu EXCEPT ![Sender(m)] = None] /\ UNCHANGED done
        /\ \E p : p # "dial" /\ GoTo(m, p)
    BY <1>3 DEF Dial, DialFails, connVars
  <2>3. \A n \in Nodes : n # Sender(m) => conns'[n] = conns[n] /\ poolMu'[n] = poolMu[n]
    BY <1>3, <2>2, MessageParts DEF Dial, DialFails, Pool, TypeInv, TypeOK
  <2> QED BY <2>1, <2>2, <2>3, PoolChangeKeepsDialsAlone
<1>4. ASSUME NEW m \in Messages, Delete(m) PROVE DialsAlone'
  <2>1. ~Locked(m) /\ GoTo(m, "failed") /\ UNCHANGED <<poolMu, done>>
    BY <1>4 DEF Delete, connVars
  <2>2. \A n \in Nodes : n # Sender(m) => conns'[n] = conns[n] /\ poolMu'[n] = poolMu[n]
    BY <1>4, MessageParts DEF Delete, Pool, TypeInv, TypeOK
  <2> QED BY <2>1, <2>2, PoolChangeKeepsDialsAlone DEF Locked
<1>5. ASSUME NEW m \in Messages, GetPooled(m) \/ Write(m) \/ WriteLost(m) \/ WriteFails(m)
      PROVE  DialsAlone'
  <2>1. UNCHANGED <<poolVars, done>> /\ \E p : p # "dial" /\ GoTo(m, p)
    BY <1>5 DEF GetPooled, Write, WriteLost, WriteFails, connVars
  <2>2. \A x \in Messages : pc'[x] = "dial" => pc[x] = "dial"
    BY <2>1 DEF GoTo, TypeInv, TypeOK
  <2> QED BY <2>1, <2>2, OthersKeepDialsAlone
<1>6. ASSUME NEW c \in Conns, Receive(c) \/ ReadLoopEnds(c) \/ Break(c) PROVE DialsAlone'
  <2>1. UNCHANGED <<pc, poolVars>> /\ done \subseteq done'
    BY <1>6 DEF Receive, Serve, ReadPump, ReadPumpEnds, ReadLoopEnds, Break, sendVars
  <2> QED BY <2>1, OthersKeepDialsAlone
<1>7. ASSUME NEW n \in Nodes, Run(n) PROVE DialsAlone'
  <2>1. /\ UNCHANGED <<poolVars, done>>
        /\ pc' = pc \/ \E x \in Messages : pc[x] = "none" /\ pc' = [pc EXCEPT ![x] = "get"]
    BY <1>7, RunTakes DEF connVars
  <2>2. \A x \in Messages : pc'[x] = "dial" => pc[x] = "dial"
    BY <2>1 DEF TypeInv, TypeOK
  <2> QED BY <2>1, <2>2, OthersKeepDialsAlone
<1>8. CASE UNCHANGED vars
  BY <1>8, OthersKeepDialsAlone DEF vars, sendVars, connVars
<1> QED BY <1>1, <1>2, <1>3, <1>4, <1>5, <1>6, <1>7, <1>8 DEF Next, Send, Get

-----------------------------------------------------------------------------
(* Connections that were forgotten.                                        *)

LEMMA OpenFinite ==
    ASSUME TypeInv, NEW n \in Nodes, NEW k \in Nodes
    PROVE  /\ IsFiniteSet(Open(n, k)) /\ IsFiniteSet(Forgotten(n, k))
           /\ None \notin Open(n, k)
<1>1. Dialled = 1..Len(ends) /\ Len(ends) \in Nat /\ Dialled \subseteq Conns
  BY DEF TypeInv, TypeOK, Dialled
<1>2. IsFiniteSet(Dialled)
  BY <1>1, FS_Interval
<1>3. Open(n, k) \subseteq Dialled /\ Forgotten(n, k) \subseteq Dialled
  BY DEF Open, Forgotten
<1> QED BY <1>1, <1>2, <1>3, FS_Subset, ValuesAssumption

LEMMA NoMoreForgotten ==
    ASSUME TypeInv, FewForgotten, NEW n \in Nodes, NEW k \in Nodes,
           Forgotten(n, k)' \subseteq Forgotten(n, k),
           Failed(n, k) \subseteq Failed(n, k)', IsFiniteSet(Failed(n, k)')
    PROVE  Cardinality(Forgotten(n, k)') <= Cardinality(Failed(n, k)')
<1>1. IsFiniteSet(Forgotten(n, k)) /\ IsFiniteSet(Failed(n, k))
  BY OpenFinite DEF FewForgotten
<1>2. IsFiniteSet(Forgotten(n, k)')
  BY <1>1, FS_Subset
<1>3. /\ Cardinality(Forgotten(n, k)') <= Cardinality(Forgotten(n, k))
      /\ Cardinality(Failed(n, k)) <= Cardinality(Failed(n, k)')
  BY <1>1, FS_Subset
<1>4. /\ Cardinality(Forgotten(n, k)) \in Nat /\ Cardinality(Failed(n, k)) \in Nat
      /\ Cardinality(Forgotten(n, k)') \in Nat /\ Cardinality(Failed(n, k)') \in Nat
  BY <1>1, <1>2, FS_CardinalityType
<1>5. Cardinality(Forgotten(n, k)) <= Cardinality(Failed(n, k))
  BY DEF FewForgotten
<1> QED BY <1>3, <1>4, <1>5

\* Failed Sends stay so: a goroutine that has ended does nothing any more.
LEMMA FailedGrows ==
    ASSUME TypeInv, FewForgotten, NEW m \in Messages, pc[m] # "failed", NEW p, GoTo(m, p),
           \A x \in Messages : x # m => client'[x] = client[x],
           NEW n \in Nodes, NEW k \in Nodes
    PROVE  /\ Failed(n, k) \subseteq Failed(n, k)' /\ IsFiniteSet(Failed(n, k)')
           /\ p # "failed" => Failed(n, k)' = Failed(n, k)
           /\ Failed(n, k)' \subseteq Failed(n, k) \cup {m}
<1>1. /\ Failed(n, k) \subseteq Failed(n, k)'
      /\ p # "failed" => Failed(n, k)' = Failed(n, k)
      /\ Failed(n, k)' \subseteq Failed(n, k) \cup {m}
  BY DEF Failed, GoTo, TypeInv, TypeOK
<1>2. IsFiniteSet(Failed(n, k) \cup {m})
  BY FS_AddElement DEF FewForgotten
<1>3. IsFiniteSet(Failed(n, k)')
  BY <1>1, <1>2, FS_Subset
<1> QED BY <1>1, <1>3

\* No pool changes and nothing opens.
LEMMA NothingForgotten ==
    ASSUME TypeInv, UNCHANGED <<conns, ends>>, done \subseteq done',
           \A c \in Conns : far[c] = "closed" => far'[c] = "closed",
           NEW n \in Nodes, NEW k \in Nodes
    PROVE  Forgotten(n, k)' \subseteq Forgotten(n, k)
<1>1. Dialled \subseteq Conns /\ Dialled' = Dialled
  BY DEF TypeInv, TypeOK, Dialled
<1> QED BY <1>1 DEF Forgotten, Open, Ok

\* What the pool has when somebody dials is not open, so nothing is forgotten.
LEMMA DialForgets ==
    ASSUME TypeInv, DialsAlone, NEW m \in Messages, Dial(m),
           NEW x \in Nodes, NEW y \in Nodes
    PROVE  Forgotten(x, y)' \subseteq Forgotten(x, y)
<1> DEFINE c == Len(ends) + 1
           n == Sender(m)
           k == Receiver(m)
           e == [from |-> n, to |-> k]
<1>1. n \in Nodes /\ k \in Nodes /\ e \in [from : Nodes, to : Nodes]
  BY MessageParts
<1>2. /\ ends' = Append(ends, e) /\ c \in Conns
      /\ conns' = [conns EXCEPT ![n][k] = c]
      /\ far' = far /\ done' = done
      /\ conns[n][k] = None \/ conns[n][k] \in done
  BY DEF Dial, Pool, DialsAlone, Usable, Pooled
<1>3. /\ Dialled' = Dialled \cup {c} /\ ends'[c] = e
      /\ \A d \in Dialled : ends'[d] = ends[d]
  BY <1>1, <1>2, OneMoreDialled
<1>4. conns[n][k] \notin Open(n, k)
  BY <1>1, <1>2, OpenFinite DEF Open
<1>5. /\ conns'[n][k] = c
      /\ <<x, y>> # <<n, k>> => conns'[x][y] = conns[x][y]
  BY <1>1, <1>2 DEF TypeInv, TypeOK
<1> HIDE DEF c, n, k, e
<1>6. Open(x, y)' \subseteq Open(x, y) \cup {c}
  BY <1>2, <1>3 DEF Open, Ok
<1>7. CASE x = n /\ y = k
  BY <1>4, <1>5, <1>6, <1>7 DEF Forgotten
<1>8. CASE ~(x = n /\ y = k)
  <2>1. c \notin Open(x, y)'
    BY <1>3, <1>8 DEF Open, e
  <2> QED BY <1>5, <1>6, <1>8, <2>1 DEF Forgotten
<1> QED BY <1>7, <1>8

\* One connection may be forgotten, and one more Send has failed.
LEMMA DeleteForgets ==
    ASSUME TypeInv, FewForgotten, NEW m \in Messages, Delete(m),
           NEW x \in Nodes, NEW y \in Nodes
    PROVE  Cardinality(Forgotten(x, y)') <= Cardinality(Failed(x, y)')
<1> DEFINE n == Sender(m)
           k == Receiver(m)
<1>1. n \in Nodes /\ k \in Nodes
  BY MessageParts
<1>2. /\ pc[m] = "delete" /\ GoTo(m, "failed")
      /\ conns' = [conns EXCEPT ![n][k] = None]
      /\ UNCHANGED <<client, ends, far, done>>
  BY DEF Delete, Pool, connVars
<1>3. /\ conns'[n][k] = None
      /\ <<x, y>> # <<n, k>> => conns'[x][y] = conns[x][y]
  BY <1>1, <1>2 DEF TypeInv, TypeOK
<1>4. Open(x, y)' = Open(x, y)
  BY <1>2 DEF Open, Ok, Dialled
<1>5. Failed(x, y) \subseteq Failed(x, y)' /\ IsFiniteSet(Failed(x, y)')
  BY <1>2, FailedGrows
<1>6. CASE ~(x = n /\ y = k)
  <2>1. Forgotten(x, y)' \subseteq Forgotten(x, y)
    BY <1>3, <1>4, <1>6 DEF Forgotten
  <2> QED BY <1>5, <2>1, NoMoreForgotten
<1>7. CASE x = n /\ y = k
  <2>1. Forgotten(x, y)' \subseteq Forgotten(x, y) \cup {conns[x][y]}
    BY <1>4 DEF Forgotten
  <2>2. /\ m \notin Failed(x, y)
        /\ Failed(x, y) \cup {m} \subseteq Failed(x, y)'
    <3>1. client[m] # None
      BY <1>2, ValuesAssumption DEF TypeInv, TypeOK
    <3>2. pc'[m] = "failed"
      BY <1>2 DEF GoTo, TypeInv, TypeOK
    <3> QED BY <1>2, <1>5, <1>7, <3>1, <3>2 DEF Failed
  <2>3. IsFiniteSet(Forgotten(x, y)) /\ IsFiniteSet(Failed(x, y))
    BY OpenFinite DEF FewForgotten
  <2>4. /\ IsFiniteSet(Forgotten(x, y)')
        /\ Cardinality(Forgotten(x, y)') <= Cardinality(Forgotten(x, y) \cup {conns[x][y]})
        /\ Cardinality(Forgotten(x, y) \cup {conns[x][y]}) <= Cardinality(Forgotten(x, y)) + 1
        /\ Cardinality(Forgotten(x, y) \cup {conns[x][y]}) \in Nat
    <3>1. IsFiniteSet(Forgotten(x, y) \cup {conns[x][y]})
      BY <2>3, FS_AddElement
    <3>2. Cardinality(Forgotten(x, y)) \in Nat
      BY <2>3, FS_CardinalityType
    <3>3. Cardinality(Forgotten(x, y) \cup {conns[x][y]})
             = IF conns[x][y] \in Forgotten(x, y) THEN Cardinality(Forgotten(x, y))
               ELSE Cardinality(Forgotten(x, y)) + 1
      BY <2>3, FS_AddElement
    <3>4. /\ IsFiniteSet(Forgotten(x, y)')
          /\ Cardinality(Forgotten(x, y)') <= Cardinality(Forgotten(x, y) \cup {conns[x][y]})
      BY <2>1, <3>1, FS_Subset
    <3> QED BY <3>1, <3>2, <3>3, <3>4, FS_CardinalityType
  <2>5. /\ Cardinality(Failed(x, y) \cup {m}) = Cardinality(Failed(x, y)) + 1
        /\ Cardinality(Failed(x, y) \cup {m}) <= Cardinality(Failed(x, y)')
    <3>1. Cardinality(Failed(x, y) \cup {m}) = Cardinality(Failed(x, y)) + 1
      BY <2>2, <2>3, FS_AddElement
    <3> QED BY <1>5, <2>2, <3>1, FS_Subset
  <2>6. Cardinality(Forgotten(x, y)) <= Cardinality(Failed(x, y))
    BY DEF FewForgotten
  <2>7. /\ Cardinality(Forgotten(x, y)) \in Nat /\ Cardinality(Failed(x, y)) \in Nat
        /\ Cardinality(Forgotten(x, y)') \in Nat /\ Cardinality(Failed(x, y)') \in Nat
    BY <1>5, <2>3, <2>4, FS_CardinalityType
  <2> QED BY <2>4, <2>5, <2>6, <2>7
<1> QED BY <1>6, <1>7

LEMMA InitFewForgotten == Init => FewForgotten
<1> SUFFICES ASSUME Init, NEW n \in Nodes, NEW k \in Nodes
             PROVE  /\ IsFiniteSet(Failed(n, k))
                    /\ Cardinality(Forgotten(n, k)) <= Cardinality(Failed(n, k))
  BY DEF FewForgotten
<1>1. Failed(n, k) = {} /\ Forgotten(n, k) = {}
  BY DEF Init, Failed, Forgotten, Open, Dialled
<1> QED BY <1>1, FS_EmptySet

LEMMA NextFewForgotten ==
    TypeInv /\ DialsAlone /\ FewForgotten /\ [Next]_vars => FewForgotten'
<1> SUFFICES ASSUME TypeInv, DialsAlone, FewForgotten, [Next]_vars,
                    NEW n \in Nodes, NEW k \in Nodes
             PROVE  /\ IsFiniteSet(Failed(n, k)')
                    /\ Cardinality(Forgotten(n, k)') <= Cardinality(Failed(n, k)')
  BY DEF FewForgotten
<1>1. /\ IsFiniteSet(Failed(n, k))
      /\ UNCHANGED <<pc, client>> => Failed(n, k)' = Failed(n, k)
  BY DEF FewForgotten, Failed
<1>2. ASSUME NEW r \in Requests, Start(r)
      PROVE  /\ Forgotten(n, k)' \subseteq Forgotten(n, k)
             /\ Failed(n, k) \subseteq Failed(n, k)' /\ IsFiniteSet(Failed(n, k)')
  <2>1. <<r, "request">> \in Messages
    BY DEF Messages
  <2>2. Failed(n, k) \subseteq Failed(n, k)' /\ IsFiniteSet(Failed(n, k)')
    BY <1>2, <2>1, FailedGrows DEF Start
  <2> QED BY <1>2, <2>2, NothingForgotten DEF Start, poolVars, connVars
<1>3. ASSUME NEW m \in Messages, Get(m) \/ Write(m) \/ WriteLost(m) \/ WriteFails(m) \/ DialFails(m)
      PROVE  /\ Forgotten(n, k)' \subseteq Forgotten(n, k)
             /\ Failed(n, k) \subseteq Failed(n, k)' /\ IsFiniteSet(Failed(n, k)')
  <2>1. /\ pc[m] # "failed" /\ \E p : GoTo(m, p)
        /\ \A x \in Messages : x # m => client'[x] = client[x]
    BY <1>3 DEF Get, GetPooled, GetUnpooled, Write, WriteLost, WriteFails, DialFails, TypeInv, TypeOK
  <2>2. Failed(n, k) \subseteq Failed(n, k)' /\ IsFiniteSet(Failed(n, k)')
    BY <2>1, FailedGrows
  <2>3. UNCHANGED <<conns, ends, done, far>>
    BY <1>3 DEF Get, GetPooled, GetUnpooled, Write, WriteLost, WriteFails, DialFails, poolVars, connVars
  <2> QED BY <2>2, <2>3, NothingForgotten
<1>4. ASSUME NEW m \in Messages, Dial(m)
      PROVE  /\ Forgotten(n, k)' \subseteq Forgotten(n, k)
             /\ Failed(n, k) \subseteq Failed(n, k)' /\ IsFiniteSet(Failed(n, k)')
  <2>1. /\ pc[m] # "failed" /\ GoTo(m, "write")
        /\ \A x \in Messages : x # m => client'[x] = client[x]
    BY <1>4 DEF Dial, TypeInv, TypeOK
  <2>2. Failed(n, k) \subseteq Failed(n, k)' /\ IsFiniteSet(Failed(n, k)')
    BY <2>1, FailedGrows
  <2> QED BY <1>4, <2>2, DialForgets
<1>5. ASSUME NEW m \in Messages, Delete(m)
      PROVE  /\ IsFiniteSet(Failed(n, k)')
             /\ Cardinality(Forgotten(n, k)') <= Cardinality(Failed(n, k)')
  <2>1. IsFiniteSet(Failed(n, k)')
    BY <1>5, FailedGrows DEF Delete
  <2> QED BY <1>5, <2>1, DeleteForgets
<1>6. ASSUME NEW c \in Conns, Receive(c) \/ ReadLoopEnds(c) \/ Break(c)
      PROVE  /\ Forgotten(n, k)' \subseteq Forgotten(n, k)
             /\ Failed(n, k) \subseteq Failed(n, k)' /\ IsFiniteSet(Failed(n, k)')
  <2>1. UNCHANGED <<pc, client, conns, ends>> /\ done \subseteq done'
    BY <1>6 DEF Receive, Serve, ReadPump, ReadPumpEnds, ReadLoopEnds, Break, sendVars, poolVars
  <2>2. \A d \in Conns : far[d] = "closed" => far'[d] = "closed"
    BY <1>6 DEF Receive, Serve, ReadPump, ReadPumpEnds, ReadLoopEnds, Break, Close, TypeInv, TypeOK
  <2> QED BY <1>1, <2>1, <2>2, NothingForgotten
<1>7. ASSUME NEW h \in Nodes, Run(h)
      PROVE  /\ Forgotten(n, k)' \subseteq Forgotten(n, k)
             /\ Failed(n, k) \subseteq Failed(n, k)' /\ IsFiniteSet(Failed(n, k)')
  <2>1. /\ pc' = pc \/ \E x \in Messages : pc[x] = "none" /\ pc' = [pc EXCEPT ![x] = "get"]
        /\ UNCHANGED <<client, conns, ends, done, far>>
    BY <1>7, RunTakes DEF poolVars, connVars
  <2>2. Failed(n, k)' = Failed(n, k)
    <3>1. CASE pc' = pc
      BY <1>1, <2>1, <3>1
    <3>2. ASSUME NEW x \in Messages, pc[x] = "none", pc' = [pc EXCEPT ![x] = "get"]
          PROVE  Failed(n, k)' = Failed(n, k)
      <4>1. GoTo(x, "get") /\ pc[x] # "failed" /\ client' = client
        BY <2>1, <3>2 DEF GoTo
      <4> QED BY <4>1, FailedGrows
    <3> QED BY <2>1, <3>1, <3>2
  <2> QED BY <1>1, <2>1, <2>2, NothingForgotten
<1>8. ASSUME UNCHANGED vars
      PROVE  /\ Forgotten(n, k)' \subseteq Forgotten(n, k)
             /\ Failed(n, k) \subseteq Failed(n, k)' /\ IsFiniteSet(Failed(n, k)')
  <2>1. UNCHANGED <<pc, client, conns, ends, far, done>>
    BY <1>8 DEF vars, sendVars, poolVars, connVars
  <2>2. Failed(n, k)' = Failed(n, k)
    BY <1>1, <2>1
  <2>3. Forgotten(n, k)' \subseteq Forgotten(n, k)
    BY <2>1, NothingForgotten
  <2> QED BY <1>1, <2>2, <2>3
<1>9. CASE /\ Forgotten(n, k)' \subseteq Forgotten(n, k)
           /\ Failed(n, k) \subseteq Failed(n, k)' /\ IsFiniteSet(Failed(n, k)')
  BY <1>9, NoMoreForgotten
<1> QED
  <2>1. CASE \E r \in Requests : Start(r)
    BY <1>2, <1>9, <2>1
  <2>2. CASE \E m \in Messages : Send(m) \/ DialFails(m)
    BY <1>3, <1>4, <1>5, <1>9, <2>2 DEF Send
  <2>3. CASE \E c \in Conns : Receive(c) \/ ReadLoopEnds(c) \/ Break(c)
    BY <1>6, <1>9, <2>3
  <2>4. CASE \E h \in Nodes : Run(h)
    BY <1>7, <1>9, <2>4
  <2>5. CASE UNCHANGED vars
    BY <1>8, <1>9, <2>5
  <2> QED BY <2>1, <2>2, <2>3, <2>4, <2>5 DEF Next

\* The mutex that get holds while it dials (sender.go:41-54) leaves one connection
\* to a peer open; each further one costs a Send that failed (sender.go:75-80).
THEOREM FewConnectionsOpen == Spec => []FewConnections
<1>1. TypeInv /\ FewForgotten => FewConnections
  <2> SUFFICES ASSUME TypeInv, FewForgotten, NEW n \in Nodes, NEW k \in Nodes
               PROVE  Cardinality(Open(n, k)) <= 1 + Cardinality(Failed(n, k))
    BY DEF FewConnections
  <2>1. /\ IsFiniteSet(Open(n, k)) /\ IsFiniteSet(Failed(n, k))
        /\ Cardinality(Forgotten(n, k)) <= Cardinality(Failed(n, k))
    BY OpenFinite DEF FewForgotten
  <2>2. Cardinality(Forgotten(n, k)) = IF conns[n][k] \in Open(n, k)
                                       THEN Cardinality(Open(n, k)) - 1
                                       ELSE Cardinality(Open(n, k))
    BY <2>1, FS_RemoveElement DEF Forgotten
  <2>3. Cardinality(Open(n, k)) \in Nat /\ Cardinality(Failed(n, k)) \in Nat
    BY <2>1, FS_CardinalityType
  <2> QED BY <2>1, <2>2, <2>3
<1>2. Init => TypeInv /\ DialsAlone /\ FewForgotten
  BY InitType, InitDialsAlone, InitFewForgotten
<1>3. (TypeInv /\ DialsAlone /\ FewForgotten) /\ [Next]_vars
         => (TypeInv /\ DialsAlone /\ FewForgotten)'
  BY NextType, NextDialsAlone, NextFewForgotten
<1> QED BY <1>1, <1>2, <1>3, PTL DEF Spec
=============================================================================
