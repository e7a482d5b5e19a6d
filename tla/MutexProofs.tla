---------------------------- MODULE MutexProofs -----------------------------
(***************************************************************************)
(* Proofs about the lock, for any nodes, clients, requests and number of   *)
(* attempts.  Under one master (Mutex!Spec): at most one right to it, one  *)
(* client inside, no waiter behind a free lock, requests served in the     *)
(* order of arrival.  Whoever is thought to be master (FailoverSpec): no   *)
(* request is in line twice, no grant blocks, and what was granted is kept *)
(* until it is given back.                                                 *)
(***************************************************************************)
EXTENDS Mutex, SequenceTheorems, TLAPS

USE HomeAssumption, MasterAssumption, FreeAssumption, AttemptsAssumption

-----------------------------------------------------------------------------
(* Type correctness.                                                       *)

LEMMA InitType == Init => TypeOK
BY DEF Init, TypeOK, Locations

LEMMA EnqueueType ==
    ASSUME TypeOK, NEW n \in Nodes, NEW r \in Requests, NEW from \in Nodes,
           Enqueue(n, r, from)
    PROVE  queue' \in [Nodes -> Seq(PendingReq)]
<1>1. [requestID |-> r, fromNode |-> from] \in PendingReq
  BY DEF PendingReq
<1>2. Append(queue[n], [requestID |-> r, fromNode |-> from]) \in Seq(PendingReq)
  BY <1>1 DEF TypeOK
<1> QED BY <1>2 DEF TypeOK, Enqueue

LEMMA MsgType ==
    ASSUME NEW type \in {"LOCK_REQUEST", "LOCK_GRANT", "LOCK_DENY", "LOCK_RELEASE"},
           NEW r \in Requests, NEW from \in Nodes, NEW to \in Nodes
    PROVE  Msg(type, r, from, to) \in Message
BY DEF Msg, Message

LEMMA ReleaseLocalType ==
    ASSUME TypeOK, NEW n \in Nodes, NEW r \in Requests, NEW rest \in SUBSET Message,
           ReleaseLocal(n, r, rest)
    PROVE  /\ holder' \in [Nodes -> Requests \cup {Free}]
           /\ queue' \in [Nodes -> Seq(PendingReq)]
           /\ grants' \in [Nodes -> SUBSET Requests]
           /\ chan' \in [Requests -> BOOLEAN]
           /\ net' \subseteq Message
<1>1. CASE holder[n] # r
  BY <1>1 DEF TypeOK, ReleaseLocal, engineVars
<1>2. CASE holder[n] = r /\ queue[n] = <<>>
  BY <1>2 DEF TypeOK, ReleaseLocal
<1>3. CASE holder[n] = r /\ queue[n] # <<>>
  <2>1. Head(queue[n]) \in PendingReq /\ Tail(queue[n]) \in Seq(PendingReq)
    BY <1>3 DEF TypeOK
  <2>2. Head(queue[n]).requestID \in Requests /\ Head(queue[n]).fromNode \in Nodes
    BY <2>1 DEF PendingReq
  <2>3. Msg("LOCK_GRANT", Head(queue[n]).requestID, n, Head(queue[n]).fromNode) \in Message
    BY <2>2, MsgType
  <2>4. queue' \in [Nodes -> Seq(PendingReq)] /\ holder' \in [Nodes -> Requests \cup {Free}]
    <3>1. /\ holder' = [holder EXCEPT ![n] = Head(queue[n]).requestID]
          /\ queue' = [queue EXCEPT ![n] = Tail(queue[n])]
      BY <1>3 DEF ReleaseLocal, TypeOK
    <3> QED BY <2>1, <2>2, <3>1 DEF TypeOK
  <2>5. CASE Head(queue[n]).requestID \in grants[n]
    <3>1. /\ chan' = [chan EXCEPT ![Head(queue[n]).requestID] = TRUE]
          /\ grants' = [grants EXCEPT ![n] = @ \ {Head(queue[n]).requestID}]
          /\ net' = rest
      BY <1>3, <2>5 DEF ReleaseLocal
    <3> QED BY <2>2, <2>4, <3>1 DEF TypeOK
  <2>6. CASE Head(queue[n]).requestID \notin grants[n]
    <3>1. /\ UNCHANGED <<grants, chan>>
          /\ net' = rest \cup
                {Msg("LOCK_GRANT", Head(queue[n]).requestID, n, Head(queue[n]).fromNode)}
      BY <1>3, <2>6 DEF ReleaseLocal
    <3> QED BY <2>3, <2>4, <3>1 DEF TypeOK
  <2> QED BY <2>5, <2>6
<1> QED BY <1>1, <1>2, <1>3

LEMMA FailType ==
    ASSUME TypeOK, NEW c \in Clients, AttemptFails(c)
    PROVE  /\ pc' \in [Clients -> Locations]
           /\ attempt' \in [Clients -> 0..MaxAttempts]
           /\ pc'[c] \in {"idle", "acquire"}
           /\ \A d \in Clients \ {c} : pc'[d] = pc[d]
<1>1. attempt[c] \in 0..MaxAttempts /\ MaxAttempts \in Nat
  BY DEF TypeOK
<1>2. CASE attempt[c] < MaxAttempts
  <2>1. attempt[c] + 1 \in 0..MaxAttempts
    BY <1>1, <1>2
  <2>2. /\ pc' = [pc EXCEPT ![c] = "acquire"]
        /\ attempt' = [attempt EXCEPT ![c] = attempt[c] + 1]
    BY <1>1, <1>2 DEF AttemptFails, Goto
  <2> QED BY <2>1, <2>2 DEF TypeOK, Locations
<1>3. CASE attempt[c] = MaxAttempts
  <2>1. pc' = [pc EXCEPT ![c] = "idle"] /\ attempt' = [attempt EXCEPT ![c] = 0]
    BY <1>1, <1>3 DEF AttemptFails, Goto
  <2>2. 0 \in 0..MaxAttempts
    BY <1>1
  <2> QED BY <2>1, <2>2 DEF TypeOK, Locations
<1> QED BY <1>1, <1>2, <1>3

LEMMA NextType == TypeOK /\ [Next]_vars => TypeOK'
<1> SUFFICES ASSUME TypeOK, [Next]_vars PROVE TypeOK'
  OBVIOUS
<1>1. ASSUME NEW c \in Clients, Acquire(c) PROVE TypeOK'
  BY <1>1 DEF TypeOK, Acquire, Goto, Locations, engineVars
<1>2. ASSUME NEW c \in Clients, ChooseWay(c) PROVE TypeOK'
  BY <1>2 DEF TypeOK, ChooseWay, Goto, Locations, engineVars
<1>3. ASSUME NEW c \in Clients, NEW r \in Requests, AcquireLocalFree(c, r) PROVE TypeOK'
  BY <1>3 DEF TypeOK, AcquireLocalFree, Draw, Fresh, Goto, Locations
<1>4. ASSUME NEW c \in Clients, NEW r \in Requests, AcquireLocalEnqueue(c, r) PROVE TypeOK'
  <2>1. queue' \in [Nodes -> Seq(PendingReq)]
    BY <1>4, EnqueueType DEF AcquireLocalEnqueue
  <2> QED BY <1>4, <2>1 DEF TypeOK, AcquireLocalEnqueue, Draw, Fresh, Goto, Locations
<1>5. ASSUME NEW c \in Clients, AcquireLocalRegister(c) PROVE TypeOK'
  BY <1>5 DEF TypeOK, AcquireLocalRegister, Goto, Locations
<1>6. ASSUME NEW c \in Clients, AcquireLocalGranted(c) PROVE TypeOK'
  BY <1>6 DEF TypeOK, AcquireLocalGranted, Goto, Locations
<1>7. ASSUME NEW c \in Clients, AcquireLocalTimeout(c) PROVE TypeOK'
  BY <1>7, FailType DEF TypeOK, AcquireLocalTimeout, engineVars
<1>8. ASSUME NEW c \in Clients, NEW r \in Requests, AcquireRemoteSend(c, r) PROVE TypeOK'
  <2>1. Msg("LOCK_REQUEST", r, Home[c], masterOf[Home[c]]) \in Message
    BY <1>8, MsgType DEF TypeOK
  <2> QED BY <1>8, <2>1 DEF TypeOK, AcquireRemoteSend, Draw, Fresh, Goto, Locations
<1>9. ASSUME NEW c \in Clients, NEW r \in Requests, AcquireRemoteSendFails(c, r) PROVE TypeOK'
  BY <1>9, FailType DEF TypeOK, AcquireRemoteSendFails, Draw, Fresh, engineVars
<1>10. ASSUME NEW c \in Clients, AcquireRemoteGranted(c) PROVE TypeOK'
  BY <1>10 DEF TypeOK, AcquireRemoteGranted, Goto, Locations
<1>11. ASSUME NEW c \in Clients, AcquireRemoteTimeout(c) PROVE TypeOK'
  BY <1>11, FailType DEF TypeOK, AcquireRemoteTimeout
<1>12. ASSUME NEW c \in Clients, ReleaseAsMaster(c) PROVE TypeOK'
  <2>1. req[c] \in Requests /\ net \in SUBSET Message
    BY <1>12 DEF TypeOK, ReleaseAsMaster
  <2> QED BY <1>12, <2>1, ReleaseLocalType DEF TypeOK, ReleaseAsMaster, Goto, Locations
<1>13. ASSUME NEW c \in Clients, ReleaseRemote(c) PROVE TypeOK'
  <2>1. Msg("LOCK_RELEASE", req[c], Home[c], masterOf[Home[c]]) \in Message
    BY <1>13, MsgType DEF TypeOK, ReleaseRemote
  <2> QED BY <1>13, <2>1 DEF TypeOK, ReleaseRemote, Goto, Locations, engineVars
<1>14. ASSUME NEW m \in net, HandleLockRequest(m) PROVE TypeOK'
  <2>1. m \in Message /\ m.requestID \in Requests /\ m.from \in Nodes /\ m.to \in Nodes
    BY <1>14 DEF TypeOK, Message
  <2>2. /\ Msg("LOCK_GRANT", m.requestID, m.to, m.from) \in Message
        /\ Msg("LOCK_DENY", m.requestID, m.to, m.from) \in Message
    BY <2>1, MsgType
  <2>3. CASE holder[m.to] = Free
    BY <1>14, <2>1, <2>2, <2>3 DEF TypeOK, HandleLockRequest, clientVars
  <2>4. CASE holder[m.to] # Free
    <3>1. queue' \in [Nodes -> Seq(PendingReq)]
      BY <1>14, <2>1, <2>4, EnqueueType DEF HandleLockRequest
    <3> QED BY <1>14, <2>2, <2>4, <3>1 DEF TypeOK, HandleLockRequest, clientVars
  <2> QED BY <2>3, <2>4
<1>15. ASSUME NEW m \in net, HandleLockGrant(m) PROVE TypeOK'
  BY <1>15 DEF TypeOK, HandleLockGrant, clientVars, Message
<1>16. ASSUME NEW m \in net, HandleLockDeny(m) \/ Lose(m) PROVE TypeOK'
  BY <1>16 DEF TypeOK, HandleLockDeny, Lose, engineVars, clientVars
<1>17. ASSUME NEW m \in net, HandleLockRelease(m) PROVE TypeOK'
  <2>1. m.requestID \in Requests /\ m.to \in Nodes /\ net \ {m} \in SUBSET Message
    BY <1>17 DEF TypeOK, Message
  <2> QED BY <1>17, <2>1, ReleaseLocalType DEF TypeOK, HandleLockRelease, clientVars
<1>18. ASSUME UNCHANGED vars PROVE TypeOK'
  BY <1>18 DEF TypeOK, vars, engineVars, clientVars
<1> QED
  BY <1>1, <1>2, <1>3, <1>4, <1>5, <1>6, <1>7, <1>8, <1>9, <1>10, <1>11, <1>12,
     <1>13, <1>14, <1>15, <1>16, <1>17, <1>18
  DEF Next, TimelyNext, Advance, Fail, Handle

\* Every reachable state of the lock under one master has the types of TypeOK.
THEOREM TypeCorrect == Spec => []TypeOK
<1> QED BY InitType, NextType, PTL DEF Spec
-----------------------------------------------------------------------------
(* At most one right to the lock.  OneToken alone is not inductive: it     *)
(* needs that only the master arbitrates.                                  *)

\* Every node takes InitialMaster for the master, so that requests and
\* releases go there and no other engine has a holder.
OneMaster ==
    /\ \A n \in Nodes : masterOf[n] = InitialMaster
    /\ \A n \in Nodes \ {InitialMaster} : holder[n] = Free
    /\ \A m \in net : m.type \in {"LOCK_REQUEST", "LOCK_RELEASE"} => m.to = InitialMaster
    /\ \A c \in Clients :
          pc[c] \in {"local", "enqueued", "waitLocal", "critLocal"} => Home[c] = InitialMaster

IInv == TypeOK /\ OneMaster /\ NoIdleQueue /\ OneToken

LEMMA InitIInv == Init => IInv
<1> SUFFICES ASSUME Init PROVE IInv
  OBVIOUS
<1>1. TypeOK
  BY InitType
<1>2. OneMaster
  BY DEF Init, OneMaster
<1>3. NoIdleQueue
  BY DEF Init, NoIdleQueue
<1>4. Tokens = {}
  BY DEF Init, Tokens, NetTokens, ChanTokens, ClientTokens, Critical
<1> QED BY <1>1, <1>2, <1>3, <1>4 DEF IInv, OneToken

\* Nobody has a right to a free lock.
LEMMA FreeHasNoTokens ==
    ASSUME TypeOK, OneToken, holder[InitialMaster] = Free
    PROVE  Tokens = {}
<1>1. \A t \in Tokens : t[2] \in Requests
  <2>1. \A t \in NetTokens : t[2] \in Requests
    BY DEF NetTokens, TypeOK, Message
  <2>2. \A t \in ChanTokens : t[2] \in Requests
    BY DEF ChanTokens
  <2>3. \A t \in ClientTokens : t[2] \in Requests
    <3>1. \A c \in Clients : Critical(c) => req[c] \in Requests
      BY DEF Critical, TypeOK
    <3> QED BY <3>1 DEF ClientTokens
  <2> QED BY <2>1, <2>2, <2>3 DEF Tokens
<1> QED BY <1>1 DEF OneToken

LEMMA KeepTokens ==
    ASSUME OneToken, Tokens' \subseteq Tokens,
           holder'[InitialMaster] = holder[InitialMaster]
    PROVE  OneToken'
BY DEF OneToken

\* A token is used up and at most one takes its place.
LEMMA MoveToken ==
    ASSUME OneToken, NEW old \in Tokens, NEW new,
           Tokens' \subseteq (Tokens \ {old}) \cup {new},
           new[2] = holder'[InitialMaster]
    PROVE  OneToken'
<1>1. \A t \in Tokens' : t = new
  BY DEF OneToken
<1> QED BY <1>1 DEF OneToken

LEMMA FirstToken ==
    ASSUME Tokens = {}, NEW new, Tokens' \subseteq {new},
           new[2] = holder'[InitialMaster]
    PROVE  OneToken'
BY DEF OneToken

\* What a change of the network, the channels or a client does to the tokens.
LEMMA NetTokensOf ==
    ASSUME NEW m \in net
    PROVE  /\ net' \subseteq net \ {m} =>
                  NetTokens' \subseteq NetTokens \ {<<"net", m.requestID, m>>}
           /\ m.type \in {"LOCK_GRANT", "LOCK_RELEASE"} => <<"net", m.requestID, m>> \in Tokens
BY DEF NetTokens, Tokens

LEMMA MoreNet ==
    ASSUME NEW g, net' \subseteq net \cup {g}
    PROVE  /\ NetTokens' \subseteq NetTokens \cup {<<"net", g.requestID, g>>}
           /\ g.type \notin {"LOCK_GRANT", "LOCK_RELEASE"} => NetTokens' \subseteq NetTokens
BY DEF NetTokens

LEMMA ChanTokensOf ==
    ASSUME TypeOK, NEW r \in Requests
    PROVE  /\ UNCHANGED chan => ChanTokens' = ChanTokens
           /\ chan[r] => <<"chan", r, r>> \in Tokens
           /\ chan' = [chan EXCEPT ![r] = FALSE] =>
                  ChanTokens' \subseteq ChanTokens \ {<<"chan", r, r>>}
           /\ chan' = [chan EXCEPT ![r] = TRUE] =>
                  ChanTokens' \subseteq ChanTokens \cup {<<"chan", r, r>>}
BY DEF ChanTokens, Tokens, TypeOK

LEMMA ClientTokensOf ==
    ASSUME NEW c \in Clients, \A d \in Clients \ {c} : pc'[d] = pc[d] /\ req'[d] = req[d]
    PROVE  /\ Critical(c) => <<"client", req[c], c>> \in Tokens
           /\ pc'[c] \notin {"critLocal", "critRemote"} =>
                  ClientTokens' \subseteq ClientTokens \ {<<"client", req[c], c>>}
           /\ ClientTokens' \subseteq ClientTokens \cup {<<"client", req'[c], c>>}
<1>1. Critical(c) => <<"client", req[c], c>> \in Tokens
  BY DEF ClientTokens, Tokens
<1>2. ASSUME pc'[c] \notin {"critLocal", "critRemote"}
      PROVE  ClientTokens' \subseteq ClientTokens \ {<<"client", req[c], c>>}
  <2> SUFFICES ASSUME NEW d \in Clients, Critical(d)'
               PROVE  <<"client", req'[d], d>> \in ClientTokens \ {<<"client", req[c], c>>}
    BY DEF ClientTokens
  <2>1. d # c
    BY <1>2 DEF Critical
  <2>2. Critical(d) /\ req'[d] = req[d]
    BY <2>1 DEF Critical
  <2> QED BY <2>1, <2>2 DEF ClientTokens
<1>3. ClientTokens' \subseteq ClientTokens \cup {<<"client", req'[c], c>>}
  <2> SUFFICES ASSUME NEW d \in Clients, Critical(d)', d # c
               PROVE  <<"client", req'[d], d>> \in ClientTokens
    BY DEF ClientTokens
  <2>1. Critical(d) /\ req'[d] = req[d]
    BY DEF Critical
  <2> QED BY <2>1 DEF ClientTokens
<1> QED BY <1>1, <1>2, <1>3

LEMMA SameClients ==
    ASSUME UNCHANGED <<pc, req>>
    PROVE  ClientTokens' = ClientTokens
BY DEF ClientTokens, Critical

\* The arbiter passes the lock on: the old right is gone and at most one new
\* right, that of the new holder, is made.
LEMMA ReleaseLocalTokens ==
    ASSUME TypeOK, NoIdleQueue, NEW n \in Nodes, NEW r \in Requests,
           n = InitialMaster, holder[n] = r,
           NEW rest \in SUBSET Message,
           \A m \in rest : m.type \notin {"LOCK_GRANT", "LOCK_RELEASE"},
           ChanTokens = {}, ClientTokens' = {},
           ReleaseLocal(n, r, rest)
    PROVE  /\ OneToken'
           /\ NoIdleQueue'
           /\ \A k \in Nodes \ {n} : holder'[k] = holder[k]
           /\ \A m \in net' : m \in rest \/ m.type = "LOCK_GRANT"
<1>1. CASE queue[n] = <<>>
  <2>1. /\ holder' = [holder EXCEPT ![n] = Free]
        /\ net' = rest /\ UNCHANGED <<queue, grants, chan>>
    BY <1>1 DEF ReleaseLocal
  <2>2. NetTokens' = {} /\ ChanTokens' = {}
    BY <2>1 DEF NetTokens, ChanTokens
  <2> QED BY <1>1, <2>1, <2>2 DEF OneToken, Tokens, NoIdleQueue, TypeOK
<1>2. CASE queue[n] # <<>>
  <2> DEFINE next == Head(queue[n])
             grant == Msg("LOCK_GRANT", next.requestID, n, next.fromNode)
  <2>1. next \in PendingReq
    BY <1>2 DEF TypeOK
  <2>2. next.requestID \in Requests
    BY <2>1 DEF PendingReq
  <2>3. /\ holder' = [holder EXCEPT ![n] = next.requestID]
        /\ queue' = [queue EXCEPT ![n] = Tail(queue[n])]
    BY <1>2 DEF ReleaseLocal, TypeOK
  <2>4. NoIdleQueue' /\ holder'[n] = next.requestID
    BY <2>2, <2>3 DEF NoIdleQueue, TypeOK
  <2>5. CASE next.requestID \in grants[n]
    <3>1. chan' = [chan EXCEPT ![next.requestID] = TRUE] /\ net' = rest
      BY <1>2, <2>5 DEF ReleaseLocal
    <3>2. ChanTokens' \subseteq {<<"chan", next.requestID, next.requestID>>}
      BY <2>2, <3>1, ChanTokensOf
    <3>3. NetTokens' = {}
      BY <3>1 DEF NetTokens
    <3>4. Tokens' \subseteq {<<"chan", next.requestID, next.requestID>>}
      BY <3>2, <3>3 DEF Tokens
    <3>5. OneToken'
      BY <2>4, <3>4 DEF OneToken
    <3> QED BY <2>3, <2>4, <3>1, <3>5 DEF TypeOK
  <2>6. CASE next.requestID \notin grants[n]
    <3>1. UNCHANGED chan /\ net' = rest \cup {grant}
      BY <1>2, <2>6 DEF ReleaseLocal
    <3>2. grant.type = "LOCK_GRANT" /\ grant.requestID = next.requestID
      BY DEF Msg
    <3>3. NetTokens' \subseteq {<<"net", grant.requestID, grant>>} /\ ChanTokens' = {}
      BY <3>1 DEF NetTokens, ChanTokens
    <3>4. Tokens' \subseteq {<<"net", grant.requestID, grant>>}
      BY <3>3 DEF Tokens
    <3> HIDE DEF grant
    <3>5. OneToken'
      BY <2>4, <3>2, <3>4 DEF OneToken
    <3> QED BY <2>3, <2>4, <3>1, <3>2, <3>5 DEF TypeOK
  <2> QED BY <2>5, <2>6
<1> QED BY <1>1, <1>2

LEMMA FailsQuietly ==
    ASSUME TypeOK, NEW c \in Clients, AttemptFails(c)
    PROVE  /\ pc'[c] \in {"idle", "acquire"}
           /\ \A d \in Clients \ {c} : pc'[d] = pc[d]
BY FailType

LEMMA NextOneMaster == IInv /\ TypeOK' /\ [Next]_vars => OneMaster'
<1> SUFFICES ASSUME IInv, TypeOK', [Next]_vars PROVE OneMaster'
  OBVIOUS
<1> USE DEF IInv
<1>1. ASSUME NEW c \in Clients, Acquire(c) \/ ChooseWay(c) \/ AcquireLocalRegister(c)
                                \/ AcquireLocalGranted(c) \/ AcquireRemoteGranted(c)
      PROVE  OneMaster'
  BY <1>1 DEF OneMaster, TypeOK, Acquire, ChooseWay, AcquireLocalRegister,
     AcquireLocalGranted, AcquireRemoteGranted, Goto, engineVars
<1>2. ASSUME NEW c \in Clients, NEW r \in Requests,
             AcquireLocalFree(c, r) \/ AcquireLocalEnqueue(c, r)
      PROVE  OneMaster'
  BY <1>2 DEF OneMaster, TypeOK, AcquireLocalFree, AcquireLocalEnqueue, Goto
<1>3. ASSUME NEW c \in Clients, NEW r \in Requests, AcquireRemoteSend(c, r)
      PROVE  OneMaster'
  BY <1>3 DEF OneMaster, TypeOK, AcquireRemoteSend, Goto, Msg
<1>4. ASSUME NEW c \in Clients,
             \/ AcquireLocalTimeout(c)
             \/ AcquireRemoteTimeout(c)
             \/ \E r \in Requests : AcquireRemoteSendFails(c, r)
      PROVE  OneMaster'
  BY <1>4, FailsQuietly DEF OneMaster, AcquireLocalTimeout, AcquireRemoteTimeout,
     AcquireRemoteSendFails, engineVars
<1>5. ASSUME NEW c \in Clients, ReleaseAsMaster(c) PROVE OneMaster'
  <2>1. /\ \A k \in Nodes \ {Home[c]} : holder'[k] = holder[k]
        /\ \A m \in net' : m \in net \/ m.type = "LOCK_GRANT"
    BY <1>5 DEF ReleaseAsMaster, ReleaseLocal, engineVars, TypeOK, Msg
  <2>2. Home[c] = InitialMaster
    BY <1>5 DEF ReleaseAsMaster, OneMaster
  <2> QED BY <1>5, <2>1, <2>2 DEF OneMaster, ReleaseAsMaster, Goto, TypeOK
<1>6. ASSUME NEW c \in Clients, ReleaseRemote(c) PROVE OneMaster'
  BY <1>6 DEF OneMaster, TypeOK, ReleaseRemote, Goto, Msg, engineVars
<1>7. ASSUME NEW m \in net, HandleLockRequest(m) PROVE OneMaster'
  <2>1. m.to = InitialMaster
    BY <1>7 DEF OneMaster, HandleLockRequest
  <2>2. /\ \A k \in Nodes \ {m.to} : holder'[k] = holder[k]
        /\ \A g \in net' : g \in net \/ g.type \in {"LOCK_GRANT", "LOCK_DENY"}
    BY <1>7 DEF HandleLockRequest, TypeOK, Msg
  <2> QED BY <1>7, <2>1, <2>2 DEF OneMaster, HandleLockRequest, clientVars
<1>8. ASSUME NEW m \in net, HandleLockGrant(m) \/ HandleLockDeny(m) \/ Lose(m)
      PROVE  OneMaster'
  BY <1>8 DEF OneMaster, HandleLockGrant, HandleLockDeny, Lose, engineVars, clientVars
<1>9. ASSUME NEW m \in net, HandleLockRelease(m) PROVE OneMaster'
  <2>1. m.to = InitialMaster
    BY <1>9 DEF OneMaster, HandleLockRelease
  <2>2. /\ \A k \in Nodes \ {m.to} : holder'[k] = holder[k]
        /\ \A g \in net' : g \in net \/ g.type = "LOCK_GRANT"
    BY <1>9 DEF HandleLockRelease, ReleaseLocal, engineVars, TypeOK, Msg
  <2> QED BY <1>9, <2>1, <2>2 DEF OneMaster, HandleLockRelease, clientVars
<1>10. ASSUME UNCHANGED vars PROVE OneMaster'
  BY <1>10 DEF OneMaster, vars, engineVars, clientVars
<1> QED
  BY <1>1, <1>2, <1>3, <1>4, <1>5, <1>6, <1>7, <1>8, <1>9, <1>10
  DEF Next, TimelyNext, Advance, Fail, Handle

\* The steps by which a release reaches the arbiter.
LEMMA ReleaseSteps ==
    ASSUME IInv
    PROVE  /\ \A c \in Clients : ReleaseAsMaster(c) => OneToken' /\ NoIdleQueue'
           /\ \A m \in net : HandleLockRelease(m) => OneToken' /\ NoIdleQueue'
<1> USE DEF IInv
<1>1. ASSUME NEW c \in Clients, ReleaseAsMaster(c) PROVE OneToken' /\ NoIdleQueue'
  <2> DEFINE old == <<"client", req[c], c>>
  <2>1. /\ pc[c] = "critLocal" /\ Home[c] = InitialMaster
        /\ Home[c] \in Nodes /\ req[c] \in Requests
    BY <1>1 DEF ReleaseAsMaster, OneMaster, TypeOK
  <2>2. old \in Tokens
    BY <2>1 DEF Critical, Tokens, ClientTokens
  <2>3. Tokens \subseteq {old} /\ holder[Home[c]] = req[c]
    BY <2>1, <2>2 DEF OneToken
  <2>4. ChanTokens = {} /\ NetTokens = {}
    BY <2>3 DEF Tokens, ChanTokens, NetTokens
  <2>5. pc'[c] = "idle" /\ \A d \in Clients \ {c} : pc'[d] = pc[d] /\ req'[d] = req[d]
    BY <1>1 DEF ReleaseAsMaster, Goto, TypeOK
  <2>6. ClientTokens' = {}
    BY <2>3, <2>5, ClientTokensOf DEF Tokens
  <2>7. \A m \in net : m.type \notin {"LOCK_GRANT", "LOCK_RELEASE"}
    BY <2>4 DEF NetTokens
  <2>8. net \in SUBSET Message
    BY DEF TypeOK
  <2>9. ReleaseLocal(Home[c], req[c], net)
    BY <1>1 DEF ReleaseAsMaster
  <2> QED BY <2>1, <2>3, <2>4, <2>6, <2>7, <2>8, <2>9, ReleaseLocalTokens
<1>2. ASSUME NEW m \in net, HandleLockRelease(m) PROVE OneToken' /\ NoIdleQueue'
  <2> DEFINE old == <<"net", m.requestID, m>>
  <2>1. /\ m.type = "LOCK_RELEASE" /\ m.to = InitialMaster
        /\ m.to \in Nodes /\ m.requestID \in Requests
    BY <1>2 DEF HandleLockRelease, OneMaster, TypeOK, Message
  <2>2. old \in Tokens
    BY <2>1, NetTokensOf
  <2>3. Tokens \subseteq {old} /\ holder[m.to] = m.requestID
    BY <2>1, <2>2 DEF OneToken
  <2>4. ChanTokens = {} /\ ClientTokens = {}
    BY <2>3 DEF Tokens, ChanTokens, ClientTokens
  <2>5. UNCHANGED <<pc, req>>
    BY <1>2 DEF HandleLockRelease, clientVars
  <2>6. ClientTokens' = {}
    BY <2>4, <2>5, SameClients
  <2>7. \A k \in net \ {m} : k.type \notin {"LOCK_GRANT", "LOCK_RELEASE"}
    <3> SUFFICES ASSUME NEW k \in net \ {m}, k.type \in {"LOCK_GRANT", "LOCK_RELEASE"}
                 PROVE  FALSE
      OBVIOUS
    <3>1. <<"net", k.requestID, k>> \in Tokens
      BY NetTokensOf
    <3> QED BY <2>3, <3>1
  <2>8. net \ {m} \in SUBSET Message
    BY DEF TypeOK
  <2>9. ReleaseLocal(m.to, m.requestID, net \ {m})
    BY <1>2 DEF HandleLockRelease
  <2> QED BY <2>1, <2>3, <2>4, <2>6, <2>7, <2>8, <2>9, ReleaseLocalTokens
<1> QED BY <1>1, <1>2

\* A right changes its place: out of a channel, into a channel, onto the net.
LEMMA MoveSteps ==
    ASSUME IInv
    PROVE  /\ \A c \in Clients :
                 AcquireLocalGranted(c) \/ AcquireRemoteGranted(c) \/ ReleaseRemote(c)
                    => OneToken'
           /\ \A m \in net : HandleLockGrant(m) => OneToken'
<1> USE DEF IInv
<1>1. ASSUME NEW c \in Clients, AcquireLocalGranted(c) \/ AcquireRemoteGranted(c)
      PROVE  OneToken'
  <2> DEFINE old == <<"chan", req[c], req[c]>>
             new == <<"client", req[c], c>>
  <2>1. req[c] \in Requests /\ chan[req[c]]
    BY <1>1 DEF AcquireLocalGranted, AcquireRemoteGranted, TypeOK
  <2>2. old \in Tokens
    BY <2>1, ChanTokensOf
  <2>3. /\ chan' = [chan EXCEPT ![req[c]] = FALSE]
        /\ UNCHANGED <<holder, net, req>>
        /\ \A d \in Clients \ {c} : pc'[d] = pc[d] /\ req'[d] = req[d]
    BY <1>1 DEF AcquireLocalGranted, AcquireRemoteGranted, Goto, TypeOK
  <2>4. ChanTokens' \subseteq ChanTokens \ {old}
    BY <2>1, <2>3, ChanTokensOf
  <2>5. ClientTokens' \subseteq ClientTokens \cup {new}
    BY <2>3, ClientTokensOf
  <2>6. NetTokens' = NetTokens
    BY <2>3 DEF NetTokens
  <2>7. Tokens' \subseteq (Tokens \ {old}) \cup {new}
    <3>1. old \notin ClientTokens /\ old \notin NetTokens
      BY DEF ClientTokens, NetTokens
    <3> QED BY <2>4, <2>5, <2>6, <3>1 DEF Tokens
  <2>8. new[2] = holder'[InitialMaster]
    BY <2>2, <2>3 DEF OneToken
  <2> HIDE DEF old, new
  <2> QED BY <2>2, <2>7, <2>8, MoveToken
<1>2. ASSUME NEW c \in Clients, ReleaseRemote(c) PROVE OneToken'
  <2> DEFINE g == Msg("LOCK_RELEASE", req[c], Home[c], masterOf[Home[c]])
             old == <<"client", req[c], c>>
             new == <<"net", g.requestID, g>>
  <2>1. old \in Tokens /\ g.requestID = req[c]
    BY <1>2 DEF ReleaseRemote, Critical, Tokens, ClientTokens, Msg
  <2>2. /\ UNCHANGED <<holder, chan, req>> /\ net' = net \cup {g} /\ pc'[c] = "idle"
        /\ \A d \in Clients \ {c} : pc'[d] = pc[d] /\ req'[d] = req[d]
    BY <1>2 DEF ReleaseRemote, Goto, TypeOK, engineVars
  <2>3. NetTokens' \subseteq NetTokens \cup {new}
    <3> HIDE DEF g
    <3> QED BY <2>2, MoreNet
  <2>4. ClientTokens' \subseteq ClientTokens \ {old}
    BY <2>2, ClientTokensOf
  <2>5. ChanTokens' = ChanTokens
    BY <2>2 DEF ChanTokens
  <2>6. Tokens' \subseteq (Tokens \ {old}) \cup {new}
    <3>1. old \notin ChanTokens /\ old \notin NetTokens
      BY DEF ChanTokens, NetTokens
    <3> HIDE DEF g
    <3> QED BY <2>3, <2>4, <2>5, <3>1 DEF Tokens
  <2>7. new[2] = holder'[InitialMaster]
    <3> HIDE DEF g
    <3> QED BY <2>1, <2>2 DEF OneToken
  <2> HIDE DEF old, new
  <2> QED BY <2>1, <2>6, <2>7, MoveToken
<1>3. ASSUME NEW m \in net, HandleLockGrant(m) PROVE OneToken'
  <2> DEFINE old == <<"net", m.requestID, m>>
             new == <<"chan", m.requestID, m.requestID>>
  <2>1. old \in Tokens /\ m.requestID \in Requests
    BY <1>3, NetTokensOf DEF HandleLockGrant, TypeOK, Message
  <2>2. /\ UNCHANGED <<holder, pc, req>> /\ net' = net \ {m}
        /\ UNCHANGED chan \/ chan' = [chan EXCEPT ![m.requestID] = TRUE]
    BY <1>3 DEF HandleLockGrant, clientVars
  <2>3. NetTokens' \subseteq NetTokens \ {old}
    BY <2>2, NetTokensOf
  <2>4. ClientTokens' = ClientTokens
    BY <2>2, SameClients
  <2>5. ChanTokens' \subseteq ChanTokens \cup {new}
    BY <2>1, <2>2, ChanTokensOf
  <2>6. Tokens' \subseteq (Tokens \ {old}) \cup {new}
    <3>1. old \notin ChanTokens /\ old \notin ClientTokens
      BY DEF ChanTokens, ClientTokens
    <3> QED BY <2>3, <2>4, <2>5, <3>1 DEF Tokens
  <2>7. new[2] = holder'[InitialMaster]
    BY <2>1, <2>2 DEF OneToken
  <2> HIDE DEF old, new
  <2> QED BY <2>1, <2>6, <2>7, MoveToken
<1> QED BY <1>1, <1>2, <1>3

\* A client or a request finds the lock free and takes it.
LEMMA TakeSteps ==
    ASSUME IInv
    PROVE  /\ \A c \in Clients, r \in Requests : AcquireLocalFree(c, r) => OneToken' /\ NoIdleQueue'
           /\ \A m \in net : HandleLockRequest(m) => OneToken' /\ NoIdleQueue'
<1> USE DEF IInv
<1>1. ASSUME NEW c \in Clients, NEW r \in Requests, AcquireLocalFree(c, r)
      PROVE  OneToken' /\ NoIdleQueue'
  <2> DEFINE new == <<"client", r, c>>
  <2>1. Home[c] = InitialMaster /\ holder[InitialMaster] = Free
    BY <1>1 DEF AcquireLocalFree, OneMaster
  <2>2. Tokens = {}
    BY <2>1, FreeHasNoTokens
  <2>3. /\ holder' = [holder EXCEPT ![InitialMaster] = r] /\ req' = [req EXCEPT ![c] = r]
        /\ pc' = [pc EXCEPT ![c] = "critLocal"] /\ UNCHANGED <<queue, chan, net>>
    BY <1>1, <2>1 DEF AcquireLocalFree, Draw, Goto
  <2>4. ClientTokens' \subseteq ClientTokens \cup {new}
    <3>1. \A d \in Clients \ {c} : pc'[d] = pc[d] /\ req'[d] = req[d]
      BY <2>3 DEF TypeOK
    <3>2. req'[c] = r
      BY <2>3 DEF TypeOK
    <3> QED BY <3>1, <3>2, ClientTokensOf
  <2>5. NetTokens' = NetTokens /\ ChanTokens' = ChanTokens
    BY <2>3 DEF NetTokens, ChanTokens
  <2>6. Tokens' \subseteq {new}
    BY <2>2, <2>4, <2>5 DEF Tokens
  <2>7. new[2] = holder'[InitialMaster]
    BY <2>3 DEF TypeOK
  <2>8. NoIdleQueue'
    BY <2>3 DEF NoIdleQueue, TypeOK
  <2> HIDE DEF new
  <2> QED BY <2>2, <2>6, <2>7, <2>8, FirstToken
<1>2. ASSUME NEW m \in net, HandleLockRequest(m) PROVE OneToken' /\ NoIdleQueue'
  <2>1. m.to = InitialMaster /\ m.type = "LOCK_REQUEST" /\ m.requestID \in Requests
    BY <1>2 DEF HandleLockRequest, OneMaster, TypeOK, Message
  <2>2. UNCHANGED <<chan, pc, req>>
    BY <1>2 DEF HandleLockRequest, clientVars
  <2>3. ChanTokens' = ChanTokens /\ ClientTokens' = ClientTokens
    BY <2>2, SameClients DEF ChanTokens
  <2>4. CASE holder[m.to] = Free
    <3> DEFINE g == Msg("LOCK_GRANT", m.requestID, m.to, m.from)
               new == <<"net", g.requestID, g>>
    <3>1. Tokens = {}
      BY <2>1, <2>4, FreeHasNoTokens
    <3>2. /\ holder' = [holder EXCEPT ![InitialMaster] = m.requestID]
          /\ net' \subseteq net \cup {g} /\ UNCHANGED queue
      BY <1>2, <2>1, <2>4 DEF HandleLockRequest
    <3>3. g.requestID = m.requestID
      BY DEF Msg
    <3> HIDE DEF g
    <3>4. NetTokens' \subseteq NetTokens \cup {new}
      BY <3>2, MoreNet
    <3>5. Tokens' \subseteq {new}
      BY <2>3, <3>1, <3>4 DEF Tokens
    <3>6. new[2] = holder'[InitialMaster]
      BY <3>2, <3>3 DEF TypeOK
    <3>7. NoIdleQueue'
      BY <2>1, <3>2 DEF NoIdleQueue, TypeOK
    <3> HIDE DEF new
    <3> QED BY <3>1, <3>5, <3>6, <3>7, FirstToken
  <2>5. CASE holder[m.to] # Free
    <3> DEFINE g == Msg("LOCK_DENY", m.requestID, m.to, m.from)
    <3>1. /\ UNCHANGED holder /\ net' \subseteq net \cup {g}
          /\ \A k \in Nodes \ {m.to} : queue'[k] = queue[k]
      BY <1>2, <2>5 DEF HandleLockRequest, Enqueue, TypeOK
    <3>2. g.type \notin {"LOCK_GRANT", "LOCK_RELEASE"}
      BY DEF Msg
    <3> HIDE DEF g
    <3>3. NetTokens' \subseteq NetTokens
      BY <3>1, <3>2, MoreNet
    <3>4. Tokens' \subseteq Tokens
      BY <2>3, <3>3 DEF Tokens
    <3>5. NoIdleQueue'
      BY <2>5, <3>1 DEF NoIdleQueue
    <3> QED BY <3>1, <3>4, <3>5, KeepTokens
  <2> QED BY <2>4, <2>5
<1> QED BY <1>1, <1>2

\* Steps of clients that make no right: no grant is sent, no channel filled,
\* nobody becomes critical.
LEMMA QuietClientSteps ==
    ASSUME IInv, NEW c \in Clients,
           \/ Acquire(c) \/ ChooseWay(c) \/ AcquireLocalRegister(c)
           \/ AcquireLocalTimeout(c) \/ AcquireRemoteTimeout(c)
           \/ \E r \in Requests : \/ AcquireLocalEnqueue(c, r)
                                  \/ AcquireRemoteSend(c, r)
                                  \/ AcquireRemoteSendFails(c, r)
    PROVE  OneToken' /\ NoIdleQueue'
<1> USE DEF IInv
<1>1. /\ UNCHANGED <<holder, chan>>
      /\ \A k \in Nodes : holder[k] = Free => queue'[k] = queue[k]
  BY DEF Acquire, ChooseWay, AcquireLocalRegister, AcquireLocalTimeout, AcquireRemoteTimeout,
     AcquireLocalEnqueue, AcquireRemoteSend, AcquireRemoteSendFails, engineVars, Enqueue, TypeOK
<1>2. /\ pc'[c] \notin {"critLocal", "critRemote"}
      /\ \A d \in Clients \ {c} : pc'[d] = pc[d] /\ req'[d] = req[d]
  <2>1. CASE Acquire(c) \/ ChooseWay(c) \/ AcquireLocalRegister(c)
    BY <2>1 DEF Acquire, ChooseWay, AcquireLocalRegister, Goto, TypeOK
  <2>2. CASE AcquireLocalTimeout(c) \/ AcquireRemoteTimeout(c)
    BY <2>2, FailsQuietly DEF AcquireLocalTimeout, AcquireRemoteTimeout
  <2>3. CASE \E r \in Requests : AcquireLocalEnqueue(c, r) \/ AcquireRemoteSend(c, r)
    BY <2>3 DEF AcquireLocalEnqueue, AcquireRemoteSend, Draw, Goto, TypeOK
  <2>4. CASE \E r \in Requests : AcquireRemoteSendFails(c, r)
    BY <2>4, FailsQuietly DEF AcquireRemoteSendFails, Draw, TypeOK
  <2> QED BY <2>1, <2>2, <2>3, <2>4
<1>3. \E g : net' \subseteq net \cup {g} /\ g.type \notin {"LOCK_GRANT", "LOCK_RELEASE"}
  <2>1. CASE \E r \in Requests : AcquireRemoteSend(c, r)
    <3>1. PICK r \in Requests : AcquireRemoteSend(c, r)
      BY <2>1
    <3> DEFINE g == Msg("LOCK_REQUEST", r, Home[c], masterOf[Home[c]])
    <3>2. net' \subseteq net \cup {g}
      BY <3>1 DEF AcquireRemoteSend
    <3>3. g.type = "LOCK_REQUEST"
      BY DEF Msg
    <3> HIDE DEF g
    <3> QED BY <3>2, <3>3
  <2>2. CASE UNCHANGED net
    <3>1. Msg("LOCK_DENY", Free, Free, Free).type \notin {"LOCK_GRANT", "LOCK_RELEASE"}
      BY DEF Msg
    <3> QED BY <2>2, <3>1
  <2> QED
    BY <2>1, <2>2 DEF Acquire, ChooseWay, AcquireLocalRegister, AcquireLocalTimeout,
       AcquireRemoteTimeout, AcquireLocalEnqueue, AcquireRemoteSendFails
<1>4. ClientTokens' \subseteq ClientTokens /\ NetTokens' \subseteq NetTokens
  BY <1>2, <1>3, ClientTokensOf, MoreNet
<1>5. Tokens' \subseteq Tokens
  BY <1>1, <1>4 DEF Tokens, ChanTokens
<1> QED BY <1>1, <1>5, KeepTokens DEF NoIdleQueue

LEMMA QuietNetSteps ==
    ASSUME IInv, NEW m \in net, HandleLockDeny(m) \/ Lose(m)
    PROVE  OneToken' /\ NoIdleQueue'
<1> USE DEF IInv
<1>1. UNCHANGED <<holder, queue, chan, pc, req>> /\ net' \subseteq net
  BY DEF HandleLockDeny, Lose, engineVars, clientVars
<1>2. Tokens' \subseteq Tokens
  BY <1>1, SameClients DEF Tokens, ChanTokens, NetTokens
<1> QED BY <1>1, <1>2, KeepTokens DEF NoIdleQueue

LEMMA NextIInv == IInv /\ [Next]_vars => IInv'
<1> SUFFICES ASSUME IInv, [Next]_vars PROVE IInv'
  OBVIOUS
<1>1. TypeOK'
  BY NextType DEF IInv
<1>2. OneMaster'
  BY <1>1, NextOneMaster
<1>3. ASSUME NEW c \in Clients,
             AcquireLocalGranted(c) \/ AcquireRemoteGranted(c) \/ ReleaseRemote(c)
      PROVE  NoIdleQueue'
  BY <1>3 DEF IInv, NoIdleQueue, AcquireLocalGranted, AcquireRemoteGranted, ReleaseRemote,
     engineVars
<1>4. ASSUME NEW m \in net, HandleLockGrant(m) PROVE NoIdleQueue'
  BY <1>4 DEF IInv, NoIdleQueue, HandleLockGrant
<1>5. ASSUME UNCHANGED vars PROVE OneToken' /\ NoIdleQueue'
  BY <1>5 DEF IInv, OneToken, NoIdleQueue, Tokens, NetTokens, ChanTokens, ClientTokens,
     Critical, vars, engineVars, clientVars
<1>6. OneToken' /\ NoIdleQueue'
  BY <1>3, <1>4, <1>5, ReleaseSteps, MoveSteps, TakeSteps, QuietClientSteps, QuietNetSteps
  DEF Next, TimelyNext, Advance, Fail, Handle
<1> QED BY <1>1, <1>2, <1>6 DEF IInv

LEMMA TokenIsExclusive == IInv => MutualExclusion
<1> SUFFICES ASSUME IInv, NEW c \in Clients, NEW d \in Clients, Critical(c), Critical(d)
             PROVE  c = d
  BY DEF MutualExclusion
<1>1. <<"client", req[c], c>> \in Tokens /\ <<"client", req[d], d>> \in Tokens
  BY DEF Tokens, ClientTokens
<1>2. <<"client", req[c], c>> = <<"client", req[d], d>>
  BY <1>1 DEF IInv, OneToken
<1> QED BY <1>2

\* Under one master at most one right to the lock exists, and it belongs to
\* the holder: whatever is lost, timed out or retried.
THEOREM TokenUnique == Spec => []OneToken
<1>1. IInv => OneToken
  BY DEF IInv
<1> QED BY <1>1, InitIInv, NextIInv, PTL DEF Spec

\* Under one master no two clients own the lock at once (mutex.go:34).
THEOREM Exclusion == Spec => []MutualExclusion
<1> QED BY InitIInv, NextIInv, TokenIsExclusive, PTL DEF Spec

\* Under one master a free lock has an empty queue.
THEOREM QueueServed == Spec => []NoIdleQueue
<1>1. IInv => NoIdleQueue
  BY DEF IInv
<1> QED BY <1>1, InitIInv, NextIInv, PTL DEF Spec

-----------------------------------------------------------------------------
(* The lock when masters change and nodes restart (FailoverSpec).  Mutual  *)
(* exclusion is lost then; what is left is that a request is in one place. *)

\* Messages that carry request r to an arbiter, or the lock to it.
Carries(m, r) ==
    m \in net /\ m.requestID = r /\ m.type \in {"LOCK_REQUEST", "LOCK_GRANT"}

Waits(n, i, r) == i \in DOMAIN queue[n] /\ queue[n][i].requestID = r

Holds(n, r) == holder[n] = r

\* A request is on its way, or in one queue, or granted: OnePlace and
\* GrantNeverBlocks alone are not inductive, because a request or a grant that
\* is on its way may break them.
OneStage ==
    \A r \in Requests :
        /\ r \notin used =>
              /\ ~chan[r]
              /\ \A n \in Nodes : ~Holds(n, r)
              /\ \A m \in Message : ~Carries(m, r)
              /\ \A n \in Nodes, i \in Nat : ~Waits(n, i, r)
        /\ \A m \in Message : Carries(m, r) =>
              /\ ~chan[r]
              /\ m.type = "LOCK_REQUEST" => \A n \in Nodes : ~Holds(n, r)
              /\ \A n \in Nodes, i \in Nat : ~Waits(n, i, r)
              /\ \A k \in Message : Carries(k, r) => k = m
        /\ \A n \in Nodes, i \in Nat : Waits(n, i, r) =>
              /\ ~chan[r]
              /\ \A k \in Nodes : ~Holds(k, r)
              /\ \A k \in Nodes, j \in Nat : Waits(k, j, r) => k = n /\ j = i

\* No two clients have the same request, and none has one that is still to draw.
OwnRequest ==
    \A c \in Clients : req[c] # Free =>
        /\ req[c] \in used
        /\ \A d \in Clients : req[d] = req[c] => d = c

\* Where a client is done with its last request.
Past == {"idle", "acquire", "local", "remote"}

\* A release that is on its way is that of a client that is no longer critical.
ReleasedIsPast ==
    \A m \in net : m.type = "LOCK_RELEASE" =>
        /\ m.requestID \in used
        /\ \A c \in Clients : req[c] = m.requestID => pc[c] \in Past

LEMMA FailoverNextType == TypeOK /\ [FailoverNext]_vars => TypeOK'
<1> SUFFICES ASSUME TypeOK, [FailoverNext]_vars PROVE TypeOK'
  OBVIOUS
<1>1. ASSUME NEW n \in Nodes, NEW master \in Nodes, MasterChange(n, master) PROVE TypeOK'
  BY <1>1 DEF TypeOK, MasterChange, engineVars, clientVars
<1>2. ASSUME NEW n \in Nodes, Restart(n) PROVE TypeOK'
  <2>1. <<>> \in Seq(PendingReq) /\ 0 \in 0..MaxAttempts
    OBVIOUS
  <2>2. /\ masterOf' \in [Nodes -> Nodes] /\ holder' \in [Nodes -> Requests \cup {Free}]
        /\ queue' \in [Nodes -> Seq(PendingReq)] /\ grants' \in [Nodes -> SUBSET Requests]
        /\ net' \subseteq Message /\ attempt' \in [Clients -> 0..MaxAttempts]
    BY <1>2, <2>1 DEF TypeOK, Restart
  <2>3. /\ pc' \in [Clients -> Locations]
        /\ \A c \in Clients : req'[c] = Free => pc'[c] \in {"idle", "acquire", "local", "remote"}
    BY <1>2 DEF TypeOK, Restart, Locations
  <2> QED BY <1>2, <2>2, <2>3 DEF TypeOK, Restart
<1> QED BY <1>1, <1>2, NextType DEF FailoverNext

\* Whoever is thought to be master and whichever node restarts, every reachable
\* state of the lock has the types of TypeOK (mutex.go:36-60).
THEOREM FailoverTypeCorrect == FailoverSpec => []TypeOK
<1> QED BY InitType, FailoverNextType, PTL DEF FailoverSpec

\* Steps that bring no request to another stage.
LEMMA FewerStages ==
    ASSUME OneStage, used \subseteq used',
           \A r \in Requests :
              /\ chan'[r] => chan[r]
              /\ \A n \in Nodes : Holds(n, r)' => Holds(n, r)
              /\ \A m \in Message : Carries(m, r)' => Carries(m, r)
              /\ \A n \in Nodes, i \in Nat : Waits(n, i, r)' => Waits(n, i, r)
    PROVE  OneStage'
BY DEF OneStage

\* A message that is new and carries no request.
LEMMA OtherMessage ==
    ASSUME NEW g, g.type \notin {"LOCK_REQUEST", "LOCK_GRANT"}, net' \subseteq net \cup {g},
           NEW m \in Message, NEW r \in Requests, Carries(m, r)'
    PROVE  Carries(m, r)
BY DEF Carries

LEMMA InQueue ==
    ASSUME TypeOK, NEW n \in Nodes, NEW r \in Requests, NEW from \in Nodes, Enqueue(n, r, from),
           NEW x \in Requests, NEW k \in Nodes, NEW i \in Nat, Waits(k, i, x)'
    PROVE  Waits(k, i, x) \/ (k = n /\ i = Len(queue[n]) + 1 /\ x = r)
<1> DEFINE e == [requestID |-> r, fromNode |-> from]
<1>1. queue' = [queue EXCEPT ![n] = Append(queue[n], e)] /\ queue[n] \in Seq(PendingReq)
  BY DEF Enqueue, TypeOK
<1>2. CASE k # n
  BY <1>1, <1>2 DEF Waits, TypeOK
<1>3. CASE k = n
  <2>1. queue'[k] = Append(queue[n], e)
    BY <1>1, <1>3 DEF TypeOK
  <2>2. i \in DOMAIN Append(queue[n], e) /\ Append(queue[n], e)[i].requestID = x
    BY <2>1 DEF Waits
  <2>3. e.requestID = r
    OBVIOUS
  <2> HIDE DEF e
  <2> QED BY <1>1, <1>3, <2>2, <2>3 DEF Waits
<1> QED BY <1>2, <1>3

\* A request that is nowhere gets to its first stage, or one whose message is
\* handled to its next one; the others may move up in their queues.
LEMMA NewStage ==
    ASSUME OneStage, NEW r \in Requests, r \in used', used \subseteq used',
           NEW shift \in [Nodes -> Nat],
           \A m \in Message : ~(chan'[r] /\ Carries(m, r)'),
           \A n \in Nodes, i \in Nat : ~(chan'[r] /\ Waits(n, i, r)'),
           \A n \in Nodes, m \in Message :
               ~(Holds(n, r)' /\ Carries(m, r)' /\ m.type = "LOCK_REQUEST"),
           \A n \in Nodes, k \in Nodes, i \in Nat : ~(Holds(n, r)' /\ Waits(k, i, r)'),
           \A m \in Message, n \in Nodes, i \in Nat : ~(Carries(m, r)' /\ Waits(n, i, r)'),
           \A m, k \in Message : Carries(m, r)' /\ Carries(k, r)' => m = k,
           \A n, k \in Nodes, i, j \in Nat : Waits(n, i, r)' /\ Waits(k, j, r)' => n = k /\ i = j,
           \A x \in Requests : x # r =>
              /\ chan'[x] => chan[x]
              /\ \A n \in Nodes : Holds(n, x)' => Holds(n, x)
              /\ \A m \in Message : Carries(m, x)' => Carries(m, x)
              /\ \A n \in Nodes, i \in Nat : Waits(n, i, x)' => Waits(n, i + shift[n], x)
    PROVE  OneStage'
<1> SUFFICES ASSUME NEW x \in Requests
             PROVE  /\ x \notin used' =>
                          /\ ~chan'[x]
                          /\ \A n \in Nodes : ~Holds(n, x)'
                          /\ \A m \in Message : ~Carries(m, x)'
                          /\ \A n \in Nodes, i \in Nat : ~Waits(n, i, x)'
                    /\ \A m \in Message : Carries(m, x)' =>
                          /\ ~chan'[x]
                          /\ m.type = "LOCK_REQUEST" => \A n \in Nodes : ~Holds(n, x)'
                          /\ \A n \in Nodes, i \in Nat : ~Waits(n, i, x)'
                          /\ \A k \in Message : Carries(k, x)' => k = m
                    /\ \A n \in Nodes, i \in Nat : Waits(n, i, x)' =>
                          /\ ~chan'[x]
                          /\ \A k \in Nodes : ~Holds(k, x)'
                          /\ \A k \in Nodes, j \in Nat : Waits(k, j, x)' => k = n /\ j = i
  BY DEF OneStage
<1>1. CASE x = r
  BY <1>1
<1>2. CASE x # r
  <2>1. /\ x \notin used' => x \notin used
        /\ chan'[x] => chan[x]
        /\ \A n \in Nodes : Holds(n, x)' => Holds(n, x)
        /\ \A m \in Message : Carries(m, x)' => Carries(m, x)
        /\ \A n \in Nodes, i \in Nat : Waits(n, i, x)' => i + shift[n] \in Nat /\ Waits(n, i + shift[n], x)
    BY <1>2
  <2>2. ASSUME NEW n \in Nodes, NEW i \in Nat, Waits(n, i, x)',
               NEW k \in Nodes, NEW j \in Nat, Waits(k, j, x)'
        PROVE  k = n /\ j = i
    <3>1. /\ i + shift[n] \in Nat /\ Waits(n, i + shift[n], x)
          /\ j + shift[k] \in Nat /\ Waits(k, j + shift[k], x)
      BY <2>1, <2>2
    <3>2. k = n /\ j + shift[k] = i + shift[n]
      BY <3>1 DEF OneStage
    <3> QED BY <3>2
  <2> QED BY <2>1, <2>2 DEF OneStage
<1> QED BY <1>1, <1>2

NoShift == [n \in Nodes |-> 0]

LEMMA NoShiftAdds ==
    NoShift \in [Nodes -> Nat] /\ \A n \in Nodes, i \in Nat : i + NoShift[n] = i
BY DEF NoShift

\* A request that is drawn goes to the local engine or to the master.
LEMMA DrawKeepsStage ==
    ASSUME TypeOK, OneStage, NEW c \in Clients, NEW r \in Requests,
           \/ AcquireLocalFree(c, r) \/ AcquireLocalEnqueue(c, r)
           \/ AcquireRemoteSend(c, r) \/ AcquireRemoteSendFails(c, r)
    PROVE  OneStage'
<1> DEFINE h == Home[c]
           g == Msg("LOCK_REQUEST", r, h, masterOf[h])
<1>1. r \notin used /\ used' = used \cup {r} /\ h \in Nodes
  BY DEF AcquireLocalFree, AcquireLocalEnqueue, AcquireRemoteSend, AcquireRemoteSendFails, Draw, Fresh
<1>2. /\ ~chan[r] /\ chan' = chan
      /\ \A n \in Nodes : ~Holds(n, r)
      /\ \A m \in Message : ~Carries(m, r)
      /\ \A n \in Nodes, i \in Nat : ~Waits(n, i, r)
  BY <1>1 DEF OneStage, AcquireLocalFree, AcquireLocalEnqueue, AcquireRemoteSend,
              AcquireRemoteSendFails, engineVars
<1>3. CASE AcquireLocalFree(c, r)
  <2>1. /\ UNCHANGED <<queue, net>> /\ holder' = [holder EXCEPT ![h] = r]
    BY <1>3 DEF AcquireLocalFree
  <2>2. \A x \in Requests :
           /\ \A m \in Message : Carries(m, x)' => Carries(m, x)
           /\ \A n \in Nodes, i \in Nat : Waits(n, i, x)' => Waits(n, i, x)
           /\ x # r => \A n \in Nodes : Holds(n, x)' => Holds(n, x)
    BY <1>1, <2>1 DEF Carries, Waits, Holds, TypeOK
  <2> QED BY <1>1, <1>2, <2>2, NewStage, NoShiftAdds
<1>4. CASE AcquireLocalEnqueue(c, r)
  <2>1. /\ UNCHANGED <<holder, net>> /\ Enqueue(h, r, h)
    BY <1>4 DEF AcquireLocalEnqueue
  <2>2. \A x \in Requests :
           /\ \A m \in Message : Carries(m, x)' => Carries(m, x)
           /\ \A n \in Nodes : Holds(n, x)' => Holds(n, x)
    BY <2>1 DEF Carries, Holds
  <2>3. \A x \in Requests, n \in Nodes, i \in Nat : Waits(n, i, x)' =>
            Waits(n, i, x) \/ (n = h /\ i = Len(queue[h]) + 1 /\ x = r)
    BY <1>1, <2>1, InQueue
  <2> QED BY <1>1, <1>2, <2>2, <2>3, NewStage, NoShiftAdds
<1>5. CASE AcquireRemoteSend(c, r)
  <2>1. /\ UNCHANGED <<holder, queue>> /\ net' = net \cup {g}
    BY <1>5 DEF AcquireRemoteSend
  <2>2. g.requestID = r
    BY DEF Msg
  <2> HIDE DEF g
  <2>3. \A x \in Requests :
           /\ \A n \in Nodes : Holds(n, x)' => Holds(n, x)
           /\ \A n \in Nodes, i \in Nat : Waits(n, i, x)' => Waits(n, i, x)
           /\ \A m \in Message : Carries(m, x)' => Carries(m, x) \/ (x = r /\ m = g)
    BY <2>1, <2>2 DEF Carries, Waits, Holds
  <2> QED BY <1>1, <1>2, <2>3, NewStage, NoShiftAdds
<1>6. CASE AcquireRemoteSendFails(c, r)
  <2>1. UNCHANGED <<holder, queue, net>>
    BY <1>6 DEF AcquireRemoteSendFails, engineVars
  <2> QED BY <1>1, <1>2, <2>1, FewerStages DEF Carries, Waits, Holds
<1> QED BY <1>3, <1>4, <1>5, <1>6

\* The arbiter grants the lock to a request, or queues it.
LEMMA RequestKeepsStage ==
    ASSUME TypeOK, OneStage, NEW m \in net, HandleLockRequest(m),
           NEW r, r = m.requestID, NEW h, h = m.to
    PROVE  OneStage'
<1>1. /\ m \in Message /\ r \in Requests /\ h \in Nodes /\ m.from \in Nodes
      /\ m.type = "LOCK_REQUEST" /\ Carries(m, r)
  BY DEF TypeOK, Message, Carries, HandleLockRequest
<1>2. /\ ~chan[r] /\ chan' = chan /\ r \in used /\ used' = used
      /\ \A n \in Nodes : ~Holds(n, r)
      /\ \A k \in Message : Carries(k, r) => k = m
      /\ \A n \in Nodes, i \in Nat : ~Waits(n, i, r)
  BY <1>1 DEF OneStage, HandleLockRequest, clientVars
<1>3. CASE holder[h] = Free
  <2> DEFINE g == Msg("LOCK_GRANT", m.requestID, m.to, m.from)
  <2>1. /\ queue' = queue /\ holder' = [holder EXCEPT ![h] = r]
        /\ net' = (net \ {m}) \cup {g}
    BY <1>3 DEF HandleLockRequest
  <2>2. g.requestID = r /\ g.type = "LOCK_GRANT"
    BY DEF Msg
  <2> HIDE DEF g
  <2>3. \A x \in Requests :
           /\ \A n \in Nodes, i \in Nat : Waits(n, i, x)' => Waits(n, i, x)
           /\ \A k \in Message : Carries(k, x)' => (Carries(k, x) /\ k # m) \/ (x = r /\ k = g)
           /\ x # r => \A n \in Nodes : Holds(n, x)' => Holds(n, x)
    BY <1>1, <2>1, <2>2 DEF Carries, Waits, Holds, TypeOK
  <2>4. \A k \in Message : Carries(k, r)' => k = g
    BY <1>1, <1>2, <2>3
  <2> QED BY <1>1, <1>2, <2>2, <2>3, <2>4, NewStage, NoShiftAdds
<1>4. CASE holder[h] # Free
  <2> DEFINE g == Msg("LOCK_DENY", m.requestID, m.to, m.from)
  <2>1. /\ holder' = holder /\ Enqueue(h, r, m.from)
        /\ net' = (net \ {m}) \cup {g}
    BY <1>4 DEF HandleLockRequest
  <2>2. g.type = "LOCK_DENY"
    BY DEF Msg
  <2> HIDE DEF g
  <2>3. \A x \in Requests :
           /\ \A n \in Nodes : Holds(n, x)' => Holds(n, x)
           /\ \A k \in Message : Carries(k, x)' => Carries(k, x) /\ k # m
    BY <1>1, <2>1, <2>2 DEF Carries, Holds
  <2>4. \A k \in Message : ~Carries(k, r)'
    BY <1>1, <1>2, <2>3
  <2>5. \A x \in Requests, n \in Nodes, i \in Nat : Waits(n, i, x)' =>
            Waits(n, i, x) \/ (n = h /\ i = Len(queue[h]) + 1 /\ x = r)
    BY <1>1, <2>1, InQueue
  <2> QED BY <1>1, <1>2, <2>3, <2>4, <2>5, NewStage, NoShiftAdds
<1> QED BY <1>3, <1>4

\* A grant arrives: its request has no other, and its channel is empty.
LEMMA GrantKeepsStage ==
    ASSUME TypeOK, OneStage, NEW m \in net, HandleLockGrant(m), NEW r, r = m.requestID
    PROVE  OneStage'
<1>1. /\ m \in Message /\ r \in Requests /\ Carries(m, r)
      /\ UNCHANGED <<holder, queue, used>> /\ net' = net \ {m}
      /\ chan' = chan \/ chan' = [chan EXCEPT ![r] = TRUE]
  BY DEF TypeOK, Message, Carries, HandleLockGrant, clientVars
<1>2. /\ r \in used
      /\ \A k \in Message : Carries(k, r) => k = m
      /\ \A n \in Nodes, i \in Nat : ~Waits(n, i, r)
  BY <1>1 DEF OneStage
<1>3. \A x \in Requests :
         /\ \A n \in Nodes : Holds(n, x)' => Holds(n, x)
         /\ \A n \in Nodes, i \in Nat : Waits(n, i, x)' => Waits(n, i, x)
         /\ \A k \in Message : Carries(k, x)' => Carries(k, x) /\ k # m
         /\ x # r => (chan'[x] => chan[x])
  BY <1>1 DEF Carries, Waits, Holds, TypeOK
<1>4. \A k \in Message : ~Carries(k, r)'
  BY <1>1, <1>2, <1>3
<1> QED BY <1>1, <1>2, <1>3, <1>4, NewStage, NoShiftAdds

\* The arbiter passes the lock to the first of its queue.
LEMMA ReleaseKeepsStage ==
    ASSUME TypeOK, OneStage, NEW n \in Nodes, NEW r \in Requests, NEW rest \in SUBSET net,
           ReleaseLocal(n, r, rest), UNCHANGED used
    PROVE  OneStage'
<1>1. CASE holder[n] # r
  <2>1. UNCHANGED <<holder, queue, chan>> /\ net' = rest
    BY <1>1 DEF ReleaseLocal, engineVars
  <2> QED BY <2>1, FewerStages DEF Carries, Waits, Holds
<1>2. CASE holder[n] = r /\ queue[n] = <<>>
  <2>1. UNCHANGED <<queue, chan>> /\ net' = rest /\ holder' = [holder EXCEPT ![n] = Free]
    BY <1>2 DEF ReleaseLocal
  <2>2. \A x \in Requests, k \in Nodes : Holds(k, x)' => Holds(k, x)
    BY <2>1 DEF Holds, TypeOK
  <2> QED BY <2>1, <2>2, FewerStages DEF Carries, Waits
<1>3. CASE holder[n] = r /\ queue[n] # <<>>
  <2>1. PICK next \in PendingReq : next = Head(queue[n])
    BY <1>3 DEF TypeOK
  <2>2. PICK x \in Requests : x = next.requestID
    BY DEF PendingReq
  <2> DEFINE shift == [k \in Nodes |-> IF k = n THEN 1 ELSE 0]
             g == Msg("LOCK_GRANT", x, n, next.fromNode)
  <2>3. queue[n] \in Seq(PendingReq)
    BY DEF TypeOK
  <2>4. Waits(n, 1, x)
    BY <1>3, <2>1, <2>2, <2>3 DEF Waits
  <2>5. /\ x \in used /\ ~chan[x]
        /\ \A m \in Message : ~Carries(m, x)
        /\ \A k \in Nodes : ~Holds(k, x)
        /\ \A k \in Nodes, i \in Nat : Waits(k, i, x) => k = n /\ i = 1
    BY <2>4 DEF OneStage
  <2>6. /\ holder' = [holder EXCEPT ![n] = x] /\ queue' = [queue EXCEPT ![n] = Tail(queue[n])]
        /\ \/ chan' = [chan EXCEPT ![x] = TRUE] /\ net' = rest
           \/ chan' = chan /\ net' = rest \cup {g}
    BY <1>3, <2>1, <2>2 DEF ReleaseLocal, TypeOK
  <2>7. ASSUME NEW k \in Nodes, NEW i \in Nat, NEW y \in Requests, Waits(k, i, y)'
        PROVE  i # 0 /\ i + shift[k] \in Nat /\ Waits(k, i + shift[k], y)
    <3>1. CASE k = n
      <4>1. queue'[k] = Tail(queue[n])
        BY <2>6, <3>1 DEF TypeOK
      <4>2. i \in DOMAIN Tail(queue[n]) /\ Tail(queue[n])[i].requestID = y
        BY <2>7, <4>1 DEF Waits
      <4> QED BY <1>3, <2>3, <3>1, <4>2 DEF Waits
    <3>2. CASE k # n
      <4>1. queue'[k] = queue[k] /\ queue[k] \in Seq(PendingReq)
        BY <2>6, <3>2 DEF TypeOK
      <4>2. i \in DOMAIN queue[k] /\ queue[k][i].requestID = y
        BY <2>7, <4>1 DEF Waits
      <4> QED BY <3>2, <4>1, <4>2 DEF Waits
    <3> QED BY <3>1, <3>2
  <2>8. shift \in [Nodes -> Nat]
    OBVIOUS
  <2>9. \A k \in Nodes, i \in Nat : ~Waits(k, i, x)'
    <3> SUFFICES ASSUME NEW k \in Nodes, NEW i \in Nat, Waits(k, i, x)' PROVE FALSE
      OBVIOUS
    <3>1. i # 0 /\ i + shift[k] \in Nat /\ Waits(k, i + shift[k], x)
      BY <2>7
    <3>2. k = n /\ i + shift[k] = 1
      BY <2>5, <3>1
    <3> QED BY <3>1, <3>2
  <2>10. g.requestID = x /\ g.type = "LOCK_GRANT"
    BY DEF Msg
  <2> HIDE DEF g, shift
  <2>11. ASSUME NEW y \in Requests, y # x
         PROVE  /\ chan'[y] => chan[y]
                /\ \A k \in Nodes : Holds(k, y)' => Holds(k, y)
                /\ \A m \in Message : Carries(m, y)' => Carries(m, y)
    BY <2>6, <2>10, <2>11 DEF Carries, Holds, TypeOK
  <2>12. \A m \in Message : Carries(m, x)' => m = g /\ ~chan'[x]
    BY <2>5, <2>6, <2>10 DEF Carries, TypeOK
  <2> QED BY <2>5, <2>7, <2>8, <2>9, <2>10, <2>11, <2>12, NewStage
<1> QED BY <1>1, <1>2, <1>3

LEMMA InitOneStage == Init => OneStage
<1> SUFFICES ASSUME Init PROVE OneStage
  OBVIOUS
<1>1. /\ \A r \in Requests : ~chan[r]
      /\ \A n \in Nodes, r \in Requests : ~Holds(n, r)
      /\ \A m \in Message, r \in Requests : ~Carries(m, r)
  BY DEF Init, Holds, Carries
<1>2. \A n \in Nodes, i \in Nat, r \in Requests : ~Waits(n, i, r)
  BY DEF Init, Waits
<1> QED BY <1>1, <1>2 DEF OneStage

LEMMA FailoverNextOneStage == TypeOK /\ OneStage /\ [FailoverNext]_vars => OneStage'
<1> SUFFICES ASSUME TypeOK, OneStage, [FailoverNext]_vars PROVE OneStage'
  OBVIOUS
<1>1. ASSUME UNCHANGED <<holder, queue, used>>, net' \subseteq net,
             \A r \in Requests : chan'[r] => chan[r]
      PROVE  OneStage'
  BY <1>1, FewerStages DEF Carries, Waits, Holds
<1>2. ASSUME NEW c \in Clients,
             \/ Acquire(c) \/ ChooseWay(c) \/ AcquireLocalRegister(c)
             \/ AcquireLocalTimeout(c) \/ AcquireRemoteTimeout(c)
      PROVE  OneStage'
  BY <1>1, <1>2 DEF Acquire, ChooseWay, AcquireLocalRegister, AcquireLocalTimeout,
     AcquireRemoteTimeout, engineVars
<1>3. ASSUME NEW c \in Clients, AcquireLocalGranted(c) \/ AcquireRemoteGranted(c)
      PROVE  OneStage'
  <2>1. \A r \in Requests : chan'[r] => chan[r]
    BY <1>3 DEF AcquireLocalGranted, AcquireRemoteGranted, TypeOK
  <2> QED BY <1>1, <1>3, <2>1 DEF AcquireLocalGranted, AcquireRemoteGranted
<1>4. ASSUME NEW c \in Clients, NEW r \in Requests,
             \/ AcquireLocalFree(c, r) \/ AcquireLocalEnqueue(c, r)
             \/ AcquireRemoteSend(c, r) \/ AcquireRemoteSendFails(c, r)
      PROVE  OneStage'
  BY <1>4, DrawKeepsStage
<1>5. ASSUME NEW c \in Clients, ReleaseAsMaster(c) PROVE OneStage'
  <2>1. Home[c] \in Nodes /\ req[c] \in Requests /\ net \in SUBSET net /\ used' = used
    BY <1>5 DEF ReleaseAsMaster, TypeOK
  <2>2. ReleaseLocal(Home[c], req[c], net)
    BY <1>5 DEF ReleaseAsMaster
  <2> QED BY <2>1, <2>2, ReleaseKeepsStage
<1>6. ASSUME NEW c \in Clients, ReleaseRemote(c) PROVE OneStage'
  <2> DEFINE g == Msg("LOCK_RELEASE", req[c], Home[c], masterOf[Home[c]])
  <2>1. net' = net \cup {g} /\ UNCHANGED <<holder, queue, chan, used>>
    BY <1>6 DEF ReleaseRemote, engineVars
  <2>2. g.type = "LOCK_RELEASE"
    BY DEF Msg
  <2> HIDE DEF g
  <2>3. \A m \in Message, r \in Requests : Carries(m, r)' => Carries(m, r)
    BY <2>1, <2>2, OtherMessage
  <2> QED BY <2>1, <2>3, FewerStages DEF Waits, Holds
<1>7. ASSUME NEW m \in net, HandleLockRequest(m) PROVE OneStage'
  BY <1>7, RequestKeepsStage
<1>8. ASSUME NEW m \in net, HandleLockGrant(m) PROVE OneStage'
  BY <1>8, GrantKeepsStage
<1>9. ASSUME NEW m \in net, HandleLockDeny(m) \/ Lose(m) PROVE OneStage'
  BY <1>1, <1>9 DEF HandleLockDeny, Lose, engineVars, clientVars
<1>10. ASSUME NEW m \in net, HandleLockRelease(m) PROVE OneStage'
  <2>1. m.to \in Nodes /\ m.requestID \in Requests /\ net \ {m} \in SUBSET net /\ used' = used
    BY <1>10 DEF HandleLockRelease, TypeOK, Message, clientVars
  <2>2. ReleaseLocal(m.to, m.requestID, net \ {m})
    BY <1>10 DEF HandleLockRelease
  <2> QED BY <2>1, <2>2, ReleaseKeepsStage
<1>11. ASSUME NEW n \in Nodes, NEW master \in Nodes, MasterChange(n, master) PROVE OneStage'
  BY <1>1, <1>11 DEF MasterChange, engineVars, clientVars
<1>12. ASSUME NEW n \in Nodes, Restart(n) PROVE OneStage'
  <2>1. /\ holder' = [holder EXCEPT ![n] = Free] /\ queue' = [queue EXCEPT ![n] = <<>>]
        /\ net' \subseteq net /\ UNCHANGED <<chan, used>>
    BY <1>12 DEF Restart
  <2>2. \A r \in Requests, k \in Nodes : Holds(k, r)' => Holds(k, r)
    BY <2>1 DEF Holds, TypeOK
  <2>3. \A r \in Requests, k \in Nodes, i \in Nat : Waits(k, i, r)' => Waits(k, i, r)
    BY <2>1 DEF Waits, TypeOK
  <2> QED BY <2>1, <2>2, <2>3, FewerStages DEF Carries
<1>13. CASE UNCHANGED vars
  BY <1>1, <1>13 DEF vars, engineVars, clientVars
<1> QED
  BY <1>2, <1>3, <1>4, <1>5, <1>6, <1>7, <1>8, <1>9, <1>10, <1>11, <1>12, <1>13
  DEF FailoverNext, Next, TimelyNext, Advance, Fail, Handle

\* Whoever is thought to be master, and whichever node restarts, no request is
\* queued twice or queued while it holds the lock (mutex.go:126-150, 203-228).
THEOREM RequestInOnePlace == FailoverSpec => []OnePlace
<1>1. TypeOK /\ OneStage => OnePlace
  <2> SUFFICES ASSUME TypeOK, OneStage, NEW n \in Nodes, NEW k \in Nodes, NEW i \in DOMAIN queue[n]
               PROVE  /\ queue[n][i].requestID # holder[k]
                      /\ \A j \in DOMAIN queue[k] :
                            queue[k][j].requestID = queue[n][i].requestID => n = k /\ i = j
    BY DEF OnePlace
  <2>1. queue[n] \in Seq(PendingReq) /\ queue[k] \in Seq(PendingReq)
    BY DEF TypeOK
  <2>2. i \in Nat /\ queue[n][i].requestID \in Requests
    <3>1. queue[n][i] \in PendingReq /\ i \in Nat
      BY <2>1, ElementOfSeq
    <3> QED BY <3>1 DEF PendingReq
  <2>3. Waits(n, i, queue[n][i].requestID)
    BY DEF Waits
  <2>4. \A j \in DOMAIN queue[k] : j \in Nat /\
            (queue[k][j].requestID = queue[n][i].requestID => Waits(k, j, queue[n][i].requestID))
    BY <2>1 DEF Waits
  <2> QED BY <2>2, <2>3, <2>4 DEF OneStage, Holds
<1> QED BY <1>1, InitType, InitOneStage, FailoverNextType, FailoverNextOneStage,
           PTL DEF FailoverSpec

\* The engine never blocks on the channel of a request with its mutex held
\* (mutex.go:137-140, 237-242): the one token a channel has room for is the only one.
THEOREM GrantsNeverBlock == FailoverSpec => []GrantNeverBlocks
<1>1. TypeOK /\ OneStage => GrantNeverBlocks
  <2> SUFFICES ASSUME TypeOK, OneStage, NEW r \in Requests, chan[r]
               PROVE  /\ \A m \in net : m.type = "LOCK_GRANT" => m.requestID # r
                      /\ \A n \in Nodes : \A i \in DOMAIN queue[n] : queue[n][i].requestID # r
    BY DEF GrantNeverBlocks
  <2>1. ASSUME NEW m \in net, m.type = "LOCK_GRANT" PROVE m.requestID # r
    BY <2>1 DEF OneStage, Carries, TypeOK
  <2>2. ASSUME NEW n \in Nodes, NEW i \in DOMAIN queue[n] PROVE queue[n][i].requestID # r
    <3>1. i \in Nat
      BY DEF TypeOK
    <3> QED BY <3>1 DEF OneStage, Waits
  <2> QED BY <2>1, <2>2
<1> QED BY <1>1, InitType, InitOneStage, FailoverNextType, FailoverNextOneStage,
           PTL DEF FailoverSpec

-----------------------------------------------------------------------------
(* The holder is kept for its client.                                      *)

ClientInv == OwnRequest /\ ReleasedIsPast

\* Steps that draw nothing and release nothing.
LEMMA NothingReleased ==
    ASSUME TypeOK, ClientInv, UNCHANGED <<req, used>>,
           \A m \in net' : m.type = "LOCK_RELEASE" => m \in net,
           \A c \in Clients : pc[c] \in Past => pc'[c] \in Past
    PROVE  ClientInv'
BY DEF ClientInv, OwnRequest, ReleasedIsPast

LEMMA PastTyped == \A c \in Clients : TypeOK /\ req[c] = Free => pc[c] \in Past
BY DEF TypeOK, Past

\* A request that is drawn is nobody's, and was never released.
LEMMA DrawKeepsClientInv ==
    ASSUME TypeOK, ClientInv, NEW c \in Clients, NEW r \in Requests, Draw(c, r),
           \A m \in net' : m.type = "LOCK_RELEASE" => m \in net,
           \A d \in Clients \ {c} : pc'[d] = pc[d]
    PROVE  ClientInv'
<1>1. /\ r \notin used /\ used' = used \cup {r}
      /\ req'[c] = r /\ \A d \in Clients \ {c} : req'[d] = req[d]
  BY DEF Draw, Fresh, TypeOK
<1>2. OwnRequest'
  BY <1>1 DEF ClientInv, OwnRequest
<1>3. ReleasedIsPast'
  BY <1>1 DEF ClientInv, ReleasedIsPast
<1> QED BY <1>2, <1>3 DEF ClientInv

LEMMA InitClientInv == Init => ClientInv
BY DEF Init, ClientInv, OwnRequest, ReleasedIsPast

LEMMA NextClientInv == TypeOK /\ ClientInv /\ [FailoverNext]_vars => ClientInv'
<1> SUFFICES ASSUME TypeOK, ClientInv, [FailoverNext]_vars PROVE ClientInv'
  OBVIOUS
<1>1. ASSUME NEW c \in Clients,
             \/ Acquire(c) \/ ChooseWay(c) \/ AcquireLocalRegister(c)
             \/ AcquireLocalGranted(c) \/ AcquireRemoteGranted(c)
      PROVE  ClientInv'
  <2>1. UNCHANGED <<req, used, net>> /\ \A d \in Clients : pc[d] \in Past => pc'[d] \in Past
    BY <1>1 DEF Acquire, ChooseWay, AcquireLocalRegister, AcquireLocalGranted,
       AcquireRemoteGranted, Goto, Past, TypeOK
  <2> QED BY <2>1, NothingReleased
<1>2. ASSUME NEW c \in Clients, AcquireLocalTimeout(c) \/ AcquireRemoteTimeout(c)
      PROVE  ClientInv'
  <2>1. UNCHANGED <<req, used, net>> /\ AttemptFails(c)
    BY <1>2 DEF AcquireLocalTimeout, AcquireRemoteTimeout
  <2>2. \A d \in Clients : pc[d] \in Past => pc'[d] \in Past
    BY <2>1, FailType DEF Past
  <2> QED BY <2>1, <2>2, NothingReleased
<1>3. ASSUME NEW c \in Clients, NEW r \in Requests,
             AcquireLocalFree(c, r) \/ AcquireLocalEnqueue(c, r)
      PROVE  ClientInv'
  <2>1. Draw(c, r) /\ net' = net /\ \A d \in Clients \ {c} : pc'[d] = pc[d]
    BY <1>3 DEF AcquireLocalFree, AcquireLocalEnqueue, Goto, TypeOK
  <2> QED BY <2>1, DrawKeepsClientInv
<1>4. ASSUME NEW c \in Clients, NEW r \in Requests, AcquireRemoteSend(c, r)
      PROVE  ClientInv'
  <2>1. Draw(c, r) /\ \A d \in Clients \ {c} : pc'[d] = pc[d]
    BY <1>4 DEF AcquireRemoteSend, Goto, TypeOK
  <2>2. \A m \in net' : m.type = "LOCK_RELEASE" => m \in net
    BY <1>4 DEF AcquireRemoteSend, Msg
  <2> QED BY <2>1, <2>2, DrawKeepsClientInv
<1>5. ASSUME NEW c \in Clients, NEW r \in Requests, AcquireRemoteSendFails(c, r)
      PROVE  ClientInv'
  <2>1. Draw(c, r) /\ net' = net /\ AttemptFails(c)
    BY <1>5 DEF AcquireRemoteSendFails
  <2> QED BY <2>1, FailType, DrawKeepsClientInv
<1>6. ASSUME NEW c \in Clients, ReleaseAsMaster(c) PROVE ClientInv'
  <2>1. /\ UNCHANGED <<req, used>> /\ ReleaseLocal(Home[c], req[c], net)
        /\ \A d \in Clients : pc[d] \in Past => pc'[d] \in Past
    BY <1>6 DEF ReleaseAsMaster, Goto, Past, TypeOK
  <2>2. \A m \in net' : m.type = "LOCK_RELEASE" => m \in net
    BY <2>1 DEF ReleaseLocal, Msg
  <2> QED BY <2>1, <2>2, NothingReleased
<1>7. ASSUME NEW c \in Clients, ReleaseRemote(c) PROVE ClientInv'
  <2>1. /\ UNCHANGED <<req, used>> /\ pc[c] = "critRemote" /\ pc'[c] = "idle"
        /\ \A d \in Clients \ {c} : pc'[d] = pc[d]
    BY <1>7 DEF ReleaseRemote, Goto, TypeOK
  <2>2. req[c] # Free
    BY <2>1 DEF TypeOK
  <2>3. \A m \in net' : m.type = "LOCK_RELEASE" => m \in net \/ m.requestID = req[c]
    BY <1>7 DEF ReleaseRemote, Msg
  <2>4. OwnRequest'
    BY <2>1 DEF ClientInv, OwnRequest
  <2>5. ReleasedIsPast'
    <3> SUFFICES ASSUME NEW m \in net', m.type = "LOCK_RELEASE"
                 PROVE  /\ m.requestID \in used'
                        /\ \A d \in Clients : req'[d] = m.requestID => pc'[d] \in Past
      BY DEF ReleasedIsPast
    <3>1. CASE m \in net
      BY <2>1, <3>1 DEF ClientInv, ReleasedIsPast, Past
    <3>2. CASE m.requestID = req[c]
      BY <2>1, <2>2, <3>2 DEF ClientInv, OwnRequest, Past
    <3> QED BY <2>3, <3>1, <3>2
  <2> QED BY <2>4, <2>5 DEF ClientInv
<1>8. ASSUME NEW m \in net, Handle(m) \/ Lose(m) PROVE ClientInv'
  <2>1. UNCHANGED <<pc, req, used>>
    BY <1>8 DEF Handle, HandleLockRequest, HandleLockGrant, HandleLockDeny, HandleLockRelease,
       Lose, clientVars
  <2>2. \A k \in net' : k.type = "LOCK_RELEASE" => k \in net
    BY <1>8 DEF Handle, HandleLockRequest, HandleLockGrant, HandleLockDeny, HandleLockRelease,
       Lose, ReleaseLocal, Msg
  <2> QED BY <2>1, <2>2, NothingReleased
<1>9. ASSUME NEW n \in Nodes, NEW master \in Nodes, MasterChange(n, master) PROVE ClientInv'
  BY <1>9, NothingReleased DEF MasterChange, clientVars
<1>10. ASSUME NEW n \in Nodes, Restart(n) PROVE ClientInv'
  BY <1>10, NothingReleased DEF Restart, Past
<1>11. CASE UNCHANGED vars
  BY <1>11, NothingReleased DEF vars, clientVars
<1> QED
  BY <1>1, <1>2, <1>3, <1>4, <1>5, <1>6, <1>7, <1>8, <1>9, <1>10, <1>11
  DEF FailoverNext, Next, TimelyNext, Advance, Fail

\* Only the release of the holder takes the lock from it.
LEMMA OnlyHolderReleases ==
    ASSUME TypeOK, NEW n \in Nodes, NEW k \in Nodes, NEW r, NEW rest, ReleaseLocal(k, r, rest),
           holder'[n] # holder[n]
    PROVE  n = k /\ holder[n] = r
BY DEF ReleaseLocal, engineVars, TypeOK

LEMMA StepKeepsHolder ==
    ASSUME TypeOK, ClientInv, [FailoverNext]_vars,
           NEW n \in Nodes, NEW c \in Clients, Critical(c), holder[n] = req[c],
           holder'[n] # req[c], ~Restart(n)
    PROVE  ~Critical(c)'
<1>1. req[c] # Free /\ holder[n] # Free /\ pc[c] \notin Past
  BY DEF Critical, TypeOK, Past
<1>2. ASSUME NEW d \in Clients, ReleaseAsMaster(d) PROVE ~Critical(c)'
  <2>1. holder[n] = req[d]
    BY <1>2, OnlyHolderReleases DEF ReleaseAsMaster
  <2>2. d = c
    BY <1>1, <2>1 DEF ClientInv, OwnRequest
  <2> QED BY <1>2, <2>2 DEF ReleaseAsMaster, Goto, Critical, TypeOK
<1>3. ASSUME NEW m \in net, HandleLockRelease(m) PROVE FALSE
  <2>1. m.to \in Nodes /\ m.type = "LOCK_RELEASE"
    BY <1>3 DEF HandleLockRelease, TypeOK, Message
  <2>2. holder[n] = m.requestID
    BY <1>3, <2>1, OnlyHolderReleases DEF HandleLockRelease
  <2> QED BY <1>1, <2>1, <2>2 DEF ClientInv, ReleasedIsPast
<1>4. ASSUME NEW d \in Clients, NEW r \in Requests, AcquireLocalFree(d, r) PROVE FALSE
  BY <1>1, <1>4 DEF AcquireLocalFree, TypeOK
<1>5. ASSUME NEW m \in net, HandleLockRequest(m) PROVE FALSE
  BY <1>1, <1>5 DEF HandleLockRequest, TypeOK, Message
<1>6. ASSUME NEW k \in Nodes, Restart(k) PROVE FALSE
  BY <1>6 DEF Restart, TypeOK
<1>7. ASSUME UNCHANGED holder PROVE FALSE
  BY <1>7
<1>8. ASSUME NEW d \in Clients,
             \/ Acquire(d) \/ ChooseWay(d) \/ AcquireLocalRegister(d) \/ AcquireLocalGranted(d)
             \/ AcquireRemoteGranted(d) \/ ReleaseRemote(d) \/ Fail(d)
             \/ \E r \in Requests : AcquireLocalEnqueue(d, r) \/ AcquireRemoteSend(d, r)
      PROVE  FALSE
  BY <1>7, <1>8 DEF Acquire, ChooseWay, AcquireLocalRegister, AcquireLocalGranted,
     AcquireRemoteGranted, ReleaseRemote, Fail, AcquireLocalTimeout, AcquireRemoteTimeout,
     AcquireRemoteSendFails, AcquireLocalEnqueue, AcquireRemoteSend, engineVars
<1>9. ASSUME NEW m \in net, HandleLockGrant(m) \/ HandleLockDeny(m) \/ Lose(m) PROVE FALSE
  BY <1>7, <1>9 DEF HandleLockGrant, HandleLockDeny, Lose, engineVars
<1>10. ASSUME NEW k \in Nodes, NEW master \in Nodes, MasterChange(k, master) PROVE FALSE
  BY <1>7, <1>10 DEF MasterChange, engineVars
<1>11. ASSUME UNCHANGED vars PROVE FALSE
  BY <1>7, <1>11 DEF vars, engineVars
<1> QED
  BY <1>2, <1>3, <1>4, <1>5, <1>6, <1>8, <1>9, <1>10, <1>11
  DEF FailoverNext, Next, TimelyNext, Advance, Handle

\* Whoever is thought to be master: an engine that handed the lock to a client
\* keeps it for this client until it releases it or the engine dies
\* (mutex.go:126-131); a late or repeated release of another request does nothing.
THEOREM HolderIsKept == FailoverSpec => HolderKept
<1>1. Init => TypeOK /\ ClientInv
  BY InitType, InitClientInv
<1>2. (TypeOK /\ ClientInv) /\ [FailoverNext]_vars => (TypeOK /\ ClientInv)'
  BY FailoverNextType, NextClientInv
<1>3. (TypeOK /\ ClientInv) /\ [FailoverNext]_vars =>
          [\A n \in Nodes, c \in Clients :
              Critical(c) /\ holder[n] = req[c] /\ holder'[n] # req[c]
                  => ~Critical(c)' \/ Restart(n)]_vars
  BY StepKeepsHolder
<1> QED BY <1>1, <1>2, <1>3, PTL DEF FailoverSpec, HolderKept

-----------------------------------------------------------------------------
(* Under one master the lock is FifoLock.                                  *)

LineOf(h, q) == <<h>> \o [i \in DOMAIN q |-> q[i].requestID]

TheLine == Line(InitialMaster)
Inside == {req[c] : c \in {c \in Clients : Critical(c)}}

LEMMA LineOfIs ==
    ASSUME NEW h \in Requests, NEW q \in Seq(PendingReq)
    PROVE  /\ LineOf(h, q) \in Seq(Requests)
           /\ Len(LineOf(h, q)) = Len(q) + 1
           /\ LineOf(h, q)[1] = h
           /\ \A i \in 1..Len(q) : LineOf(h, q)[i + 1] = q[i].requestID
<1> DEFINE f == [i \in DOMAIN q |-> q[i].requestID]
<1>1. \A i \in 1..Len(q) : q[i].requestID \in Requests
  <2>1. \A i \in 1..Len(q) : q[i] \in PendingReq
    BY ElementOfSeq
  <2> QED BY <2>1 DEF PendingReq
<1>2. f \in Seq(Requests) /\ Len(f) = Len(q) /\ \A i \in 1..Len(q) : f[i] = q[i].requestID
  <2>1. f \in [1..Len(q) -> Requests] /\ Len(q) \in Nat
    BY <1>1
  <2> QED BY <2>1
<1>3. <<h>> \in Seq(Requests) /\ Len(<<h>>) = 1 /\ <<h>>[1] = h
  OBVIOUS
<1> HIDE DEF f
<1>4. LineOf(h, q) = <<h>> \o f
  BY DEF LineOf, f
<1>5. /\ <<h>> \o f \in Seq(Requests) /\ Len(<<h>> \o f) = Len(q) + 1
      /\ (<<h>> \o f)[1] = h
      /\ \A i \in 1..Len(q) : (<<h>> \o f)[i + 1] = f[i]
  <2>1. /\ <<h>> \o f \in Seq(Requests) /\ Len(<<h>> \o f) = 1 + Len(q)
        /\ \A i \in 1..(1 + Len(q)) : (<<h>> \o f)[i] = IF i <= 1 THEN <<h>>[i] ELSE f[i - 1]
    BY <1>2, <1>3, ConcatProperties
  <2>2. Len(q) \in Nat
    OBVIOUS
  <2>3. (<<h>> \o f)[1] = h
    BY <1>3, <2>1, <2>2
  <2>4. ASSUME NEW i \in 1..Len(q) PROVE (<<h>> \o f)[i + 1] = f[i]
    <3>1. i + 1 \in 1..(1 + Len(q)) /\ ~(i + 1 <= 1) /\ (i + 1) - 1 = i
      BY <2>2
    <3> QED BY <2>1, <3>1
  <2> QED BY <2>1, <2>2, <2>3, <2>4
<1> QED BY <1>2, <1>4, <1>5

LEMMA LineJoined ==
    ASSUME NEW h \in Requests, NEW q \in Seq(PendingReq), NEW e \in PendingReq
    PROVE  LineOf(h, Append(q, e)) = Append(LineOf(h, q), e.requestID)
<1> DEFINE s == LineOf(h, Append(q, e))
           t == Append(LineOf(h, q), e.requestID)
<1>1. /\ Append(q, e) \in Seq(PendingReq) /\ Len(Append(q, e)) = Len(q) + 1 /\ Len(q) \in Nat
      /\ \A i \in 1..Len(q) : Append(q, e)[i] = q[i]
      /\ Append(q, e)[Len(q) + 1] = e
      /\ e.requestID \in Requests
  BY DEF PendingReq
<1>2. /\ s \in Seq(Requests) /\ Len(s) = Len(q) + 2 /\ s[1] = h
      /\ \A i \in 1..(Len(q) + 1) : s[i + 1] = Append(q, e)[i].requestID
  <2>1. /\ s \in Seq(Requests) /\ Len(s) = Len(Append(q, e)) + 1 /\ s[1] = h
        /\ \A i \in 1..Len(Append(q, e)) : s[i + 1] = Append(q, e)[i].requestID
    BY <1>1, LineOfIs
  <2> HIDE DEF s
  <2> QED BY <1>1, <2>1
<1>3. /\ t \in Seq(Requests) /\ Len(t) = Len(q) + 2 /\ t[1] = h
      /\ \A i \in 1..Len(q) : t[i + 1] = q[i].requestID
      /\ t[Len(q) + 2] = e.requestID
  <2>1. /\ LineOf(h, q) \in Seq(Requests) /\ Len(LineOf(h, q)) = Len(q) + 1
        /\ LineOf(h, q)[1] = h
        /\ \A i \in 1..Len(q) : LineOf(h, q)[i + 1] = q[i].requestID
    BY LineOfIs
  <2> QED BY <1>1, <2>1
<1> HIDE DEF s, t
<1>4. ASSUME NEW i \in 1..Len(s) PROVE s[i] = t[i]
  <2>1. CASE i = 1
    BY <1>2, <1>3, <2>1
  <2>2. CASE i = Len(q) + 2
    <3>1. s[(Len(q) + 1) + 1] = e.requestID
      BY <1>1, <1>2
    <3> QED BY <1>1, <1>3, <2>2, <3>1
  <2>3. CASE i # 1 /\ i # Len(q) + 2
    <3>1. i - 1 \in 1..Len(q) /\ (i - 1) + 1 = i
      BY <1>1, <1>2, <2>3
    <3>2. i - 1 \in 1..(Len(q) + 1)
      BY <1>1, <3>1
    <3>3. s[(i - 1) + 1] = q[i - 1].requestID
      BY <1>1, <1>2, <3>1, <3>2
    <3>4. t[(i - 1) + 1] = q[i - 1].requestID
      BY <1>3, <3>1
    <3> QED BY <3>1, <3>3, <3>4
  <2> QED BY <2>1, <2>2, <2>3
<1>5. s = t
  BY <1>2, <1>3, <1>4, SeqEqual
<1> QED BY <1>5 DEF s, t

LEMMA LinePassed ==
    ASSUME NEW h \in Requests, NEW q \in Seq(PendingReq)
    PROVE  /\ LineOf(h, q) # <<>> /\ Head(LineOf(h, q)) = h
           /\ q = <<>> => Tail(LineOf(h, q)) = <<>> /\ LineOf(h, q) = <<h>>
           /\ q # <<>> => Tail(LineOf(h, q)) = LineOf(Head(q).requestID, Tail(q))
<1> DEFINE l == LineOf(h, q)
<1>1. /\ l \in Seq(Requests) /\ Len(l) = Len(q) + 1 /\ l[1] = h /\ Len(q) \in Nat
      /\ \A i \in 1..Len(q) : l[i + 1] = q[i].requestID
  BY LineOfIs
<1> HIDE DEF l
<1>2. l # <<>> /\ Head(l) = h
  BY <1>1
<1>3. ASSUME q = <<>> PROVE Tail(l) = <<>> /\ l = <<h>>
  <2>1. Len(l) = 1
    BY <1>1, <1>3
  <2>2. <<h>> \in Seq(Requests) /\ Len(<<h>>) = 1 /\ <<h>>[1] = h
    OBVIOUS
  <2>3. \A i \in 1..Len(l) : l[i] = <<h>>[i]
    BY <1>1, <2>1, <2>2
  <2>4. l = <<h>>
    BY <1>1, <2>1, <2>2, <2>3, SeqEqual
  <2> QED BY <2>4
<1>4. ASSUME q # <<>> PROVE Tail(l) = LineOf(Head(q).requestID, Tail(q))
  <2> DEFINE t == LineOf(Head(q).requestID, Tail(q))
  <2>1. /\ Head(q) \in PendingReq /\ Tail(q) \in Seq(PendingReq) /\ Len(Tail(q)) = Len(q) - 1
        /\ Len(q) >= 1 /\ Head(q) = q[1]
        /\ \A i \in 1..(Len(q) - 1) : Tail(q)[i] = q[i + 1]
    BY <1>1, <1>4
  <2>2. Head(q).requestID \in Requests
    BY <2>1 DEF PendingReq
  <2>3. /\ t \in Seq(Requests) /\ Len(t) = Len(q) /\ t[1] = q[1].requestID
        /\ \A i \in 1..(Len(q) - 1) : t[i + 1] = q[i + 1].requestID
    <3>1. /\ t \in Seq(Requests) /\ Len(t) = Len(Tail(q)) + 1 /\ t[1] = Head(q).requestID
          /\ \A i \in 1..Len(Tail(q)) : t[i + 1] = Tail(q)[i].requestID
      BY <2>1, <2>2, LineOfIs
    <3> HIDE DEF t
    <3> QED BY <1>1, <2>1, <3>1
  <2> HIDE DEF t
  <2>4. Tail(l) \in Seq(Requests) /\ Len(Tail(l)) = Len(q) /\ \A i \in 1..Len(q) : Tail(l)[i] = l[i + 1]
    BY <1>1, <1>2
  <2>5. ASSUME NEW i \in 1..Len(q) PROVE Tail(l)[i] = t[i]
    <3>1. Tail(l)[i] = q[i].requestID
      BY <1>1, <2>4
    <3>2. CASE i = 1
      BY <2>3, <3>1, <3>2
    <3>3. CASE i # 1
      <4>1. i - 1 \in 1..(Len(q) - 1) /\ (i - 1) + 1 = i
        BY <1>1, <3>3
      <4>2. t[(i - 1) + 1] = q[(i - 1) + 1].requestID
        BY <2>3, <4>1
      <4> QED BY <3>1, <4>1, <4>2
    <3> QED BY <3>2, <3>3
  <2>6. Tail(l) = t
    BY <2>3, <2>4, <2>5, SeqEqual
  <2> QED BY <2>6 DEF t
<1> QED BY <1>2, <1>3, <1>4 DEF l

\* Who has the lock is inside, alone; while a right is anywhere else nobody is.
LEMMA InsideIs ==
    ASSUME IInv
    PROVE  /\ \A c \in Clients : Critical(c) => Inside = {req[c]}
           /\ (\A c \in Clients : ~Critical(c)) => Inside = {}
           /\ \A r \in Requests : chan[r] => Inside = {}
           /\ \A m \in net : m.type \in {"LOCK_GRANT", "LOCK_RELEASE"} => Inside = {}
           /\ holder[InitialMaster] = Free => Inside = {}
<1>1. ASSUME NEW c \in Clients, Critical(c) PROVE Inside = {req[c]}
  <2>1. \A d \in Clients : Critical(d) => d = c
    BY <1>1, TokenIsExclusive DEF MutualExclusion
  <2> QED BY <1>1, <2>1 DEF Inside
<1>2. (\A c \in Clients : ~Critical(c)) => Inside = {}
  BY DEF Inside
<1>3. ASSUME NEW t \in Tokens, t[1] # "client", NEW c \in Clients, Critical(c) PROVE FALSE
  <2>1. <<"client", req[c], c>> \in Tokens
    BY <1>3 DEF Tokens, ClientTokens
  <2>2. t = <<"client", req[c], c>>
    BY <1>3, <2>1 DEF IInv, OneToken
  <2> QED BY <1>3, <2>2
<1>4. ASSUME NEW r \in Requests, chan[r] PROVE Inside = {}
  <2>1. <<"chan", r, r>> \in Tokens
    BY <1>4 DEF Tokens, ChanTokens
  <2> QED BY <1>2, <1>3, <2>1
<1>5. ASSUME NEW m \in net, m.type \in {"LOCK_GRANT", "LOCK_RELEASE"} PROVE Inside = {}
  <2>1. <<"net", m.requestID, m>> \in Tokens
    BY <1>5 DEF Tokens, NetTokens
  <2> QED BY <1>2, <1>3, <2>1
<1>6. ASSUME holder[InitialMaster] = Free PROVE Inside = {}
  <2>1. Tokens = {}
    BY <1>6, FreeHasNoTokens DEF IInv
  <2>2. \A c \in Clients : ~Critical(c)
    BY <2>1 DEF Tokens, ClientTokens
  <2> QED BY <1>2, <2>2
<1> QED BY <1>1, <1>2, <1>4, <1>5, <1>6

\* Whoever owns the lock, or has it on its way, is the first of the line.
LEMMA FirstOfLine ==
    ASSUME IInv
    PROVE  /\ \A c \in Clients : Critical(c) => req[c] = holder[InitialMaster] /\ req[c] \in Requests
           /\ \A r \in Requests : chan[r] => r = holder[InitialMaster]
           /\ \A m \in net : m.type = "LOCK_RELEASE" =>
                 m.requestID = holder[InitialMaster] /\ m.requestID \in Requests
<1>1. ASSUME NEW c \in Clients, Critical(c)
      PROVE  req[c] = holder[InitialMaster] /\ req[c] \in Requests
  <2>1. <<"client", req[c], c>> \in Tokens
    BY <1>1 DEF Tokens, ClientTokens
  <2>2. req[c] # Free
    BY <1>1 DEF IInv, TypeOK, Critical
  <2> QED BY <2>1, <2>2 DEF IInv, OneToken, TypeOK
<1>2. ASSUME NEW r \in Requests, chan[r] PROVE r = holder[InitialMaster]
  <2>1. <<"chan", r, r>> \in Tokens
    BY <1>2 DEF Tokens, ChanTokens
  <2> QED BY <2>1 DEF IInv, OneToken
<1>3. ASSUME NEW m \in net, m.type = "LOCK_RELEASE"
      PROVE  m.requestID = holder[InitialMaster] /\ m.requestID \in Requests
  <2>1. <<"net", m.requestID, m>> \in Tokens
    BY <1>3 DEF Tokens, NetTokens
  <2> QED BY <2>1 DEF IInv, OneToken, TypeOK, Message
<1> QED BY <1>1, <1>2, <1>3

LEMMA LineIs ==
    /\ TheLine = IF holder[InitialMaster] = Free THEN <<>>
                 ELSE LineOf(holder[InitialMaster], queue[InitialMaster])
    /\ TheLine' = IF holder'[InitialMaster] = Free THEN <<>>
                  ELSE LineOf(holder'[InitialMaster], queue'[InitialMaster])
BY DEF TheLine, Line, LineOf

\* The arbiter takes the holder off the line.
LEMMA ReleasePasses ==
    ASSUME IInv, NEW r \in Requests, holder[InitialMaster] = r, NEW rest,
           ReleaseLocal(InitialMaster, r, rest)
    PROVE  TheLine # <<>> /\ TheLine' = Tail(TheLine)
<1>1. /\ queue[InitialMaster] \in Seq(PendingReq)
      /\ TheLine = LineOf(r, queue[InitialMaster])
  BY LineIs DEF IInv, TypeOK
<1>2. CASE queue[InitialMaster] = <<>>
  <2>1. holder'[InitialMaster] = Free
    BY <1>2 DEF ReleaseLocal, IInv, TypeOK
  <2>2. TheLine' = <<>>
    BY <2>1, LineIs
  <2> QED BY <1>1, <1>2, <2>2, LinePassed
<1>3. CASE queue[InitialMaster] # <<>>
  <2>1. /\ holder'[InitialMaster] = Head(queue[InitialMaster]).requestID
        /\ queue'[InitialMaster] = Tail(queue[InitialMaster])
    BY <1>3 DEF ReleaseLocal, IInv, TypeOK
  <2>2. Head(queue[InitialMaster]) \in PendingReq
    BY <1>1, <1>3
  <2>3. Head(queue[InitialMaster]).requestID # Free
    BY <2>2 DEF PendingReq
  <2>4. TheLine' = LineOf(Head(queue[InitialMaster]).requestID, Tail(queue[InitialMaster]))
    BY <2>1, <2>3, LineIs
  <2> QED BY <1>1, <1>3, <2>4, LinePassed
<1> QED BY <1>2, <1>3

\* A request joins the queue of the arbiter.
LEMMA EnqueueJoins ==
    ASSUME IInv, NEW r \in Requests, NEW from \in Nodes, holder[InitialMaster] # Free,
           Enqueue(InitialMaster, r, from), UNCHANGED holder
    PROVE  TheLine' = Append(TheLine, r)
<1> DEFINE e == [requestID |-> r, fromNode |-> from]
<1>1. /\ e \in PendingReq /\ e.requestID = r /\ queue[InitialMaster] \in Seq(PendingReq)
      /\ holder[InitialMaster] \in Requests
      /\ queue'[InitialMaster] = Append(queue[InitialMaster], e)
  BY DEF PendingReq, IInv, TypeOK, Enqueue
<1> HIDE DEF e
<1> QED BY <1>1, LineIs, LineJoined

\* A request takes the free lock: nobody is in line behind it.
LEMMA TakeJoins ==
    ASSUME IInv, NEW r \in Requests, holder[InitialMaster] = Free,
           holder' = [holder EXCEPT ![InitialMaster] = r], UNCHANGED queue
    PROVE  TheLine = <<>> /\ TheLine' = <<r>>
<1>1. queue[InitialMaster] = <<>> /\ holder'[InitialMaster] = r /\ <<>> \in Seq(PendingReq)
  BY DEF IInv, NoIdleQueue, TypeOK
<1> QED BY <1>1, LineIs, LinePassed

\* Steps that touch neither the arbiter nor who is critical.
LEMMA LineStutters ==
    ASSUME UNCHANGED <<holder, queue, req>>,
           \A c \in Clients : Critical(c)' <=> Critical(c)
    PROVE  UNCHANGED <<TheLine, Inside>>
<1>1. TheLine' = TheLine
  BY LineIs
<1>2. Inside' = Inside
  BY DEF Inside
<1> QED BY <1>1, <1>2

LEMMA AcquireLocalFreeJoins ==
    ASSUME IInv, NEW c \in Clients, NEW r \in Requests, AcquireLocalFree(c, r)
    PROVE  Lock!JoinAndEnter(r)
<1>1. /\ Home[c] = InitialMaster /\ holder[InitialMaster] = Free
      /\ holder' = [holder EXCEPT ![InitialMaster] = r] /\ queue' = queue
      /\ pc' = [pc EXCEPT ![c] = "critLocal"] /\ req' = [req EXCEPT ![c] = r]
  BY DEF AcquireLocalFree, Draw, Goto, IInv, OneMaster
<1>2. TheLine = <<>> /\ TheLine' = <<r>>
  BY <1>1, TakeJoins
<1>3. Inside = {} /\ \A d \in Clients : ~Critical(d)
  BY <1>1, InsideIs DEF Inside
<1>4. Inside' = {r}
  BY <1>1, <1>3 DEF Inside, Critical, IInv, TypeOK
<1> QED BY <1>2, <1>3, <1>4 DEF Lock!JoinAndEnter, TheLine, Inside

LEMMA GrantedEnters ==
    ASSUME IInv, NEW c \in Clients, AcquireLocalGranted(c) \/ AcquireRemoteGranted(c)
    PROVE  Lock!Enter
<1>1. /\ req[c] \in Requests /\ chan[req[c]] /\ UNCHANGED <<holder, queue, req>>
      /\ \E loc \in {"critLocal", "critRemote"} : pc' = [pc EXCEPT ![c] = loc]
  BY DEF AcquireLocalGranted, AcquireRemoteGranted, Goto, IInv, TypeOK
<1>2. Inside = {} /\ \A d \in Clients : ~Critical(d)
  BY <1>1, InsideIs DEF Inside
<1>3. Inside' = {req[c]}
  BY <1>1, <1>2 DEF Inside, Critical, IInv, TypeOK
<1>4. /\ req[c] = holder[InitialMaster] /\ queue[InitialMaster] \in Seq(PendingReq)
      /\ TheLine = LineOf(req[c], queue[InitialMaster])
  BY <1>1, FirstOfLine, LineIs DEF IInv, TypeOK
<1>5. TheLine # <<>> /\ Head(TheLine) = req[c] /\ TheLine' = TheLine
  BY <1>1, <1>4, LinePassed, LineIs
<1> QED BY <1>2, <1>3, <1>5 DEF Lock!Enter, TheLine, Inside

LEMMA ReleaseAsMasterExits ==
    ASSUME IInv, NEW c \in Clients, ReleaseAsMaster(c)
    PROVE  Lock!ExitAndPass
<1>1. /\ Critical(c) /\ Home[c] = InitialMaster /\ pc' = [pc EXCEPT ![c] = "idle"] /\ req' = req
      /\ ReleaseLocal(InitialMaster, req[c], net)
  BY DEF ReleaseAsMaster, Goto, Critical, IInv, OneMaster
<1>2. Inside = {req[c]} /\ \A d \in Clients : Critical(d) => d = c
  BY <1>1, InsideIs, TokenIsExclusive DEF MutualExclusion
<1>3. Inside' = {}
  BY <1>1, <1>2 DEF Inside, Critical, IInv, TypeOK
<1>4. TheLine' = Tail(TheLine)
  BY <1>1, FirstOfLine, ReleasePasses
<1> QED BY <1>2, <1>3, <1>4 DEF Lock!ExitAndPass, TheLine, Inside

LEMMA ReleaseRemoteExits ==
    ASSUME IInv, NEW c \in Clients, ReleaseRemote(c)
    PROVE  Lock!Exit
<1>1. /\ Critical(c) /\ pc' = [pc EXCEPT ![c] = "idle"] /\ UNCHANGED <<holder, queue, req>>
  BY DEF ReleaseRemote, Goto, Critical, engineVars
<1>2. Inside = {req[c]} /\ \A d \in Clients : Critical(d) => d = c
  BY <1>1, InsideIs, TokenIsExclusive DEF MutualExclusion
<1>3. Inside' = {}
  BY <1>1, <1>2 DEF Inside, Critical, IInv, TypeOK
<1>4. TheLine' = TheLine
  BY <1>1, LineIs
<1> QED BY <1>2, <1>3, <1>4 DEF Lock!Exit, TheLine, Inside

LEMMA HandleLockReleasePasses ==
    ASSUME IInv, NEW m \in net, HandleLockRelease(m)
    PROVE  Lock!Pass
<1>1. /\ m.type = "LOCK_RELEASE" /\ m.to = InitialMaster /\ UNCHANGED <<pc, req>>
      /\ ReleaseLocal(InitialMaster, m.requestID, net \ {m})
  BY DEF HandleLockRelease, clientVars, IInv, OneMaster
<1>2. Inside = {} /\ Inside' = Inside
  BY <1>1, InsideIs DEF Inside, Critical
<1>3. TheLine # <<>> /\ TheLine' = Tail(TheLine)
  BY <1>1, FirstOfLine, ReleasePasses
<1> QED BY <1>2, <1>3 DEF Lock!Pass, TheLine, Inside

LEMMA HandleLockRequestJoins ==
    ASSUME IInv, NEW m \in net, HandleLockRequest(m)
    PROVE  Lock!Join(m.requestID) /\ m.requestID \in Requests
<1>1. /\ m.to = InitialMaster /\ UNCHANGED <<pc, req>>
      /\ m.requestID \in Requests /\ m.from \in Nodes
  BY DEF HandleLockRequest, clientVars, IInv, OneMaster, TypeOK, Message
<1>2. Inside' = Inside
  BY <1>1 DEF Inside, Critical
<1>3. TheLine' = Append(TheLine, m.requestID)
  <2>1. CASE holder[InitialMaster] = Free
    <3>1. TheLine = <<>> /\ TheLine' = <<m.requestID>>
      BY <1>1, <2>1, TakeJoins DEF HandleLockRequest
    <3> QED BY <3>1
  <2>2. CASE holder[InitialMaster] # Free
    BY <1>1, <2>2, EnqueueJoins DEF HandleLockRequest
  <2> QED BY <2>1, <2>2
<1> QED BY <1>1, <1>2, <1>3 DEF Lock!Join, TheLine, Inside

LEMMA EnqueueLocalJoins ==
    ASSUME IInv, NEW c \in Clients, NEW r \in Requests, AcquireLocalEnqueue(c, r)
    PROVE  Lock!Join(r)
<1>1. /\ Home[c] = InitialMaster /\ holder[InitialMaster] # Free
      /\ Enqueue(InitialMaster, r, InitialMaster) /\ holder' = holder
      /\ ~Critical(c) /\ pc' = [pc EXCEPT ![c] = "enqueued"] /\ req' = [req EXCEPT ![c] = r]
  BY DEF AcquireLocalEnqueue, Draw, Goto, Critical, IInv, OneMaster
<1>2. TheLine' = Append(TheLine, r)
  BY <1>1, EnqueueJoins
<1>3. Inside' = Inside
  BY <1>1 DEF Inside, Critical, IInv, TypeOK
<1> QED BY <1>2, <1>3 DEF Lock!Join, TheLine, Inside

LEMMA InitFifo == Init => Lock!Init
<1> SUFFICES ASSUME Init PROVE Lock!Init
  OBVIOUS
<1>1. TheLine = <<>>
  BY LineIs DEF Init
<1>2. Inside = {}
  BY DEF Init, Inside, Critical
<1> QED BY <1>1, <1>2 DEF Lock!Init, TheLine, Inside

LEMMA NextFifo == IInv /\ [Next]_vars => [Lock!Next]_<<TheLine, Inside>>
<1> SUFFICES ASSUME IInv, [Next]_vars
             PROVE  Lock!Next \/ UNCHANGED <<TheLine, Inside>>
  OBVIOUS
<1>1. ASSUME NEW c \in Clients, NEW r \in Requests,
             AcquireLocalFree(c, r) \/ AcquireLocalEnqueue(c, r)
      PROVE  Lock!Next
  BY <1>1, AcquireLocalFreeJoins, EnqueueLocalJoins DEF Lock!Next
<1>2. ASSUME NEW c \in Clients,
             \/ AcquireLocalGranted(c) \/ AcquireRemoteGranted(c)
             \/ ReleaseAsMaster(c) \/ ReleaseRemote(c)
      PROVE  Lock!Next
  BY <1>2, GrantedEnters, ReleaseAsMasterExits, ReleaseRemoteExits DEF Lock!Next
<1>3. ASSUME NEW m \in net, HandleLockRequest(m) \/ HandleLockRelease(m)
      PROVE  Lock!Next
  BY <1>3, HandleLockRequestJoins, HandleLockReleasePasses DEF Lock!Next
<1>4. ASSUME NEW c \in Clients, Acquire(c) \/ ChooseWay(c) \/ AcquireLocalRegister(c)
      PROVE  UNCHANGED <<TheLine, Inside>>
  <2>1. /\ UNCHANGED <<holder, queue, req>>
        /\ \A d \in Clients : Critical(d)' <=> Critical(d)
    BY <1>4 DEF Acquire, ChooseWay, AcquireLocalRegister, Goto, engineVars, Critical, IInv, TypeOK
  <2> QED BY <2>1, LineStutters
<1>5. ASSUME NEW c \in Clients, AcquireLocalTimeout(c) \/ AcquireRemoteTimeout(c)
      PROVE  UNCHANGED <<TheLine, Inside>>
  <2>1. /\ UNCHANGED <<holder, queue, req>> /\ ~Critical(c) /\ AttemptFails(c)
    BY <1>5 DEF AcquireLocalTimeout, AcquireRemoteTimeout, engineVars, Critical
  <2>2. \A d \in Clients : Critical(d)' <=> Critical(d)
    BY <2>1, FailsQuietly DEF Critical, IInv
  <2> QED BY <2>1, <2>2, LineStutters
<1>6. ASSUME NEW c \in Clients, NEW r \in Requests,
             AcquireRemoteSend(c, r) \/ AcquireRemoteSendFails(c, r)
      PROVE  UNCHANGED <<TheLine, Inside>>
  <2>1. /\ UNCHANGED <<holder, queue>> /\ req' = [req EXCEPT ![c] = r] /\ ~Critical(c)
        /\ AttemptFails(c) \/ pc' = [pc EXCEPT ![c] = "waitRemote"]
    BY <1>6 DEF AcquireRemoteSend, AcquireRemoteSendFails, Draw, Goto, engineVars, Critical
  <2>2. \A d \in Clients : (Critical(d)' <=> Critical(d)) /\ (Critical(d) => req'[d] = req[d])
    BY <2>1, FailsQuietly DEF Critical, IInv, TypeOK
  <2>3. Inside' = Inside
    BY <2>2 DEF Inside
  <2>4. TheLine' = TheLine
    BY <2>1, LineIs
  <2> QED BY <2>3, <2>4
<1>7. ASSUME NEW m \in net, HandleLockGrant(m) \/ HandleLockDeny(m) \/ Lose(m)
      PROVE  UNCHANGED <<TheLine, Inside>>
  <2>1. UNCHANGED <<holder, queue, req, pc>>
    BY <1>7 DEF HandleLockGrant, HandleLockDeny, Lose, engineVars, clientVars
  <2> QED BY <2>1, LineStutters DEF Critical
<1>8. CASE UNCHANGED vars
  <2>1. UNCHANGED <<holder, queue, req, pc>>
    BY <1>8 DEF vars, engineVars, clientVars
  <2> QED BY <2>1, LineStutters DEF Critical
<1> QED BY <1>1, <1>2, <1>3, <1>4, <1>5, <1>6, <1>7, <1>8
        DEF Next, TimelyNext, Advance, Fail, Handle

\* Under one master the lock is what its clients take it for: they own it one at
\* a time, in the order in which their requests reached the arbiter
\* (mutex.go:34, 42-43), whatever is lost, timed out or retried.
THEOREM FifoLockImplemented == Spec => ImplementsFifoLock
<1>1. IInv /\ [Next]_vars => [Lock!Next]_(Lock!vars)
  BY NextFifo DEF Lock!vars, TheLine, Inside
<1> QED BY <1>1, InitFifo, InitIInv, NextIInv, PTL DEF Spec, ImplementsFifoLock, Lock!Spec
=============================================================================
