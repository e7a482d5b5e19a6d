--------------------------- MODULE QueryCollector ---------------------------
(***************************************************************************)
(* ListAll of internal/service: a node sends QUERY to the peers it holds   *)
(* alive and collects the answers until all that can come have come, or    *)
(* queryTimeout.  Calls of one node run concurrently; each has an id.  A   *)
(* row set is the name of the peer that sent it.                           *)
(***************************************************************************)
EXTENDS Naturals, FiniteSets

CONSTANTS
    Calls,    \* the calls of ListAll of one node
    Peers     \* the other nodes

ASSUME PeersAssumption == IsFiniteSet(Peers)

VARIABLES
    pc,         \* where each call is
    peers,      \* the peers of the call
    unsent,     \* those BroadcastJSON has yet to send to
    failed,     \* broadcastErrs
    expected,   \* queryCollector.expected
    results,    \* queryCollector.results
    closed,     \* whether queryCollector.done is closed
    queryWait,  \* the calls in queryWait
    net,        \* messages sent and not yet handled
    merged,     \* the answers that went into the result
    inTime      \* history: the call went on because done was closed

collectors == <<expected, results, closed>>
vars == <<pc, peers, unsent, failed, collectors, queryWait, net, merged, inTime>>

Msg(type, q, p) == [type |-> type, call |-> q, peer |-> p]
Message == [type : {"QUERY", "QUERY_RESPONSE"}, call : Calls, peer : Peers]

Init ==
    /\ pc = [q \in Calls |-> "idle"]
    /\ peers = [q \in Calls |-> {}]
    /\ unsent = [q \in Calls |-> {}]
    /\ failed = [q \in Calls |-> {}]
    /\ expected = [q \in Calls |-> 0]
    /\ results = [q \in Calls |-> {}]
    /\ closed = [q \in Calls |-> FALSE]
    /\ queryWait = {}
    /\ net = {}
    /\ merged = [q \in Calls |-> {}]
    /\ inTime = [q \in Calls |-> FALSE]

\* done is closed at most once: the select around close sees to it.
Close(q) == closed' = [closed EXCEPT ![q] = TRUE]

-----------------------------------------------------------------------------
(* The caller.                                                             *)

ListAll(q, alivePeers) ==
    /\ pc[q] = "idle"
    /\ pc' = [pc EXCEPT ![q] = "send"]
    /\ peers' = [peers EXCEPT ![q] = alivePeers]
    /\ unsent' = [unsent EXCEPT ![q] = alivePeers]
    /\ expected' = [expected EXCEPT ![q] = Cardinality(alivePeers)]
    /\ queryWait' = queryWait \cup {q}
    /\ UNCHANGED <<failed, results, closed, net, merged, inTime>>

\* Fault: a failed send is taken off expected here and at the end again.
SendQueryAdjusts(q, p) ==
    /\ p \in unsent[q]
    /\ unsent' = [unsent EXCEPT ![q] = @ \ {p}]
    /\ failed' = [failed EXCEPT ![q] = @ \cup {p}]
    /\ expected' = [expected EXCEPT ![q] = @ - 1]
    /\ UNCHANGED <<pc, peers, results, closed, queryWait, net, merged, inTime>>

SendQuery(q, p) ==
    /\ p \in unsent[q]
    /\ unsent' = [unsent EXCEPT ![q] = @ \ {p}]
    /\ \/ /\ net' = net \cup {Msg("QUERY", q, p)}
          /\ UNCHANGED failed
       \/ /\ failed' = [failed EXCEPT ![q] = @ \cup {p}]
          /\ UNCHANGED net
    /\ UNCHANGED <<pc, peers, collectors, queryWait, merged, inTime>>

\* Fault: answers that came before the adjustment are not looked at.
AdjustExpectedOnly(q) ==
    /\ pc[q] = "send" /\ unsent[q] = {}
    /\ pc' = [pc EXCEPT ![q] = "local"]
    /\ expected' = [expected EXCEPT ![q] = @ - Cardinality(failed[q])]
    /\ UNCHANGED <<peers, unsent, failed, results, closed, queryWait, net, merged, inTime>>

\* Fault: a failed send is counted as the end of the query.
AdjustExpectedCloses(q) ==
    /\ pc[q] = "send" /\ unsent[q] = {}
    /\ pc' = [pc EXCEPT ![q] = "local"]
    /\ expected' = [expected EXCEPT ![q] = @ - Cardinality(failed[q])]
    /\ IF failed[q] # {} THEN Close(q) ELSE UNCHANGED closed
    /\ UNCHANGED <<peers, unsent, failed, results, queryWait, net, merged, inTime>>

\* The peers whose send failed are no longer expected to answer; the others
\* may have answered already.
AdjustExpected(q) ==
    /\ pc[q] = "send" /\ unsent[q] = {}
    /\ pc' = [pc EXCEPT ![q] = "local"]
    /\ expected' = [expected EXCEPT ![q] = @ - Cardinality(failed[q])]
    /\ IF failed[q] # {} /\ Cardinality(results[q]) >= expected'[q]
       THEN Close(q)
       ELSE UNCHANGED closed
    /\ UNCHANGED <<peers, unsent, failed, results, queryWait, net, merged, inTime>>

\* The own table; an error of the database ends the call.
LocalRows(q) ==
    /\ pc[q] = "local"
    /\ \/ /\ pc' = [pc EXCEPT ![q] = IF peers[q] = {} THEN "merge" ELSE "wait"]
          /\ UNCHANGED queryWait
       \/ /\ pc' = [pc EXCEPT ![q] = "error"]
          /\ queryWait' = queryWait \ {q}
    /\ UNCHANGED <<peers, unsent, failed, collectors, net, merged, inTime>>

Done(q) ==
    /\ pc[q] = "wait" /\ closed[q]
    /\ pc' = [pc EXCEPT ![q] = "merge"]
    /\ inTime' = [inTime EXCEPT ![q] = TRUE]
    /\ UNCHANGED <<peers, unsent, failed, collectors, queryWait, net, merged>>

\* Fault: the timeout is logged and the call waits on.
QueryTimeoutOnlyLogs(q) ==
    /\ pc[q] = "wait" /\ pc' = pc
    /\ UNCHANGED <<peers, unsent, failed, collectors, queryWait, net, merged, inTime>>

\* What is missing is missing; no error is returned.
QueryTimeout(q) ==
    /\ pc[q] = "wait"
    /\ pc' = [pc EXCEPT ![q] = "merge"]
    /\ UNCHANGED <<peers, unsent, failed, collectors, queryWait, net, merged, inTime>>

Merge(q) ==
    /\ pc[q] = "merge"
    /\ pc' = [pc EXCEPT ![q] = "forget"]
    /\ merged' = [merged EXCEPT ![q] = results[q]]
    /\ UNCHANGED <<peers, unsent, failed, collectors, queryWait, net, inTime>>

\* The deferred delete, after the mutex was let go.
Forget(q) ==
    /\ pc[q] = "forget"
    /\ pc' = [pc EXCEPT ![q] = "ok"]
    /\ queryWait' = queryWait \ {q}
    /\ UNCHANGED <<peers, unsent, failed, collectors, net, merged, inTime>>

-----------------------------------------------------------------------------
(* The handlers.                                                           *)

\* The peer answers, or its database, or the way back, fails.
HandleQuery(m) ==
    /\ m.type = "QUERY"
    /\ \/ net' = (net \ {m}) \cup {Msg("QUERY_RESPONSE", m.call, m.peer)}
       \/ net' = net \ {m}
    /\ UNCHANGED <<pc, peers, unsent, failed, collectors, queryWait, merged, inTime>>

\* An answer that comes late finds no collector.
HandleQueryResponse(m) ==
    /\ m.type = "QUERY_RESPONSE"
    /\ net' = net \ {m}
    /\ \/ /\ m.call \in queryWait
          /\ results' = [results EXCEPT ![m.call] = @ \cup {m.peer}]
          /\ IF Cardinality(results'[m.call]) >= expected[m.call]
             THEN Close(m.call)
             ELSE UNCHANGED closed
       \/ /\ m.call \notin queryWait
          /\ UNCHANGED <<results, closed>>
    /\ UNCHANGED <<pc, peers, unsent, failed, expected, queryWait, merged, inTime>>

-----------------------------------------------------------------------------
Advance(q) ==
    \/ \E alivePeers \in SUBSET Peers : ListAll(q, alivePeers)
    \/ \E p \in Peers : SendQuery(q, p)
    \/ AdjustExpected(q)
    \/ LocalRows(q)
    \/ Done(q)
    \/ QueryTimeout(q)
    \/ Merge(q)
    \/ Forget(q)

Handle(m) == HandleQuery(m) \/ HandleQueryResponse(m)

Next ==
    \/ \E q \in Calls : Advance(q)
    \/ \E m \in net : Handle(m)

\* A goroutine that can go on does, and a timer that runs expires.
Spec == Init /\ [][Next]_vars /\ \A q \in Calls : WF_vars(Advance(q))

-----------------------------------------------------------------------------
(* Properties.                                                             *)

\* The values the variables can have.
TypeOK ==
    /\ pc \in [Calls -> {"idle", "send", "local", "wait", "merge", "forget", "ok", "error"}]
    /\ peers \in [Calls -> SUBSET Peers]
    /\ unsent \in [Calls -> SUBSET Peers]
    /\ failed \in [Calls -> SUBSET Peers]
    /\ expected \in [Calls -> Nat]
    /\ results \in [Calls -> SUBSET Peers]
    /\ closed \in [Calls -> BOOLEAN]
    /\ queryWait \subseteq Calls
    /\ net \subseteq Message
    /\ merged \in [Calls -> SUBSET Peers]
    /\ inTime \in [Calls -> BOOLEAN]

\* A call that did not run into its timeout has the rows of every peer that
\* was sent the query, even when sends to others failed meanwhile.
CompleteInTime ==
    \A q \in Calls :
        pc[q] \in {"forget", "ok"} /\ inTime[q] => peers[q] \ failed[q] \subseteq merged[q]

\* "si no lo hacemos, esperamos hasta timeout por respuestas que nunca llegan"
\* (ticket_service.go:389): no call waits when every answer that can come has
\* come.
NoUselessWait ==
    \A q \in Calls : pc[q] = "wait" /\ peers[q] \ failed[q] \subseteq results[q] => closed[q]

\* Every call returns, whoever answers: the caller may hold the lock.
EveryCallReturns == \A q \in Calls : pc[q] = "send" ~> pc[q] \in {"ok", "error"}
=============================================================================
