----------------------------- MODULE QueryProofs -----------------------------
(***************************************************************************)
(* The cross-node query counts right: the channel done is closed when and  *)
(* only when every peer that was sent the query has answered.  Proofs      *)
(* about QueryCollector for any number of peers and of calls under way at  *)
(* once, whatever sends fail and whatever answers are lost or late.        *)
(***************************************************************************)
EXTENDS QueryCollector, FiniteSetTheorems, TLAPS

-----------------------------------------------------------------------------
(* The inductive invariant, call by call.                                  *)

\* The peers that may answer: those a QUERY went out to.
Asked(q) == (peers[q] \ unsent[q]) \ failed[q]

\* The sends are over before the call goes on, and only who was sent the query
\* answers it.
AskedAnswer(q) ==
    /\ pc[q] = "idle" => peers[q] = {} /\ ~closed[q]
    /\ unsent[q] \subseteq peers[q] /\ failed[q] \subseteq peers[q] \ unsent[q]
    /\ pc[q] # "send" => unsent[q] = {}
    /\ results[q] \subseteq Asked(q)
    /\ \A m \in net : m.call = q => m.peer \in Asked(q)

\* expected counts the peers, and after the sends those that were reached.
ExpectedCounts(q) ==
    expected[q] = Cardinality(peers[q])
                  - (IF pc[q] \in {"idle", "send"} THEN 0 ELSE Cardinality(failed[q]))

\* A call that may still need an answer is found in queryWait.
WaitingIsFound(q) == pc[q] \in {"send", "local", "wait"} => q \in queryWait

\* What results hold when all that can come has come.
Everything(q) == IF pc[q] = "send" THEN peers[q] ELSE peers[q] \ failed[q]

ClosedIsComplete(q) == closed[q] => results[q] = Everything(q)

CompleteIsClosed(q) ==
    /\ pc[q] = "wait" => peers[q] # {}
    /\ pc[q] \in {"send", "local", "wait"} /\ peers[q] # {} /\ results[q] = Everything(q)
          => closed[q]

\* Who went on in time found done closed, and took all there was.
InTimeIsClosed(q) ==
    inTime[q] => /\ closed[q] /\ pc[q] \in {"merge", "forget", "ok"}
                 /\ pc[q] \in {"forget", "ok"} => peers[q] \ failed[q] \subseteq merged[q]

CallInv(q) ==
    /\ AskedAnswer(q)
    /\ ExpectedCounts(q)
    /\ WaitingIsFound(q)
    /\ ClosedIsComplete(q)
    /\ CompleteIsClosed(q)
    /\ InTimeIsClosed(q)

IInv == TypeOK /\ \A q \in Calls : CallInv(q)

-----------------------------------------------------------------------------
(* Counting.                                                               *)

LEMMA PeersCount ==
    ASSUME NEW S \in SUBSET Peers
    PROVE  IsFiniteSet(S) /\ Cardinality(S) \in Nat
BY PeersAssumption, FS_Subset, FS_CardinalityType

\* As many answers as peers that were reached are the answers of all of them.
LEMMA CountAnswers ==
    ASSUME NEW P \in SUBSET Peers, NEW F \in SUBSET P, NEW R \in SUBSET (P \ F)
    PROVE  /\ Cardinality(P) - Cardinality(F) \in Nat
           /\ Cardinality(R) >= Cardinality(P) - Cardinality(F) <=> R = P \ F
<1>1. /\ IsFiniteSet(P) /\ IsFiniteSet(F) /\ IsFiniteSet(R) /\ IsFiniteSet(P \ F)
      /\ Cardinality(P) \in Nat /\ Cardinality(F) \in Nat
      /\ Cardinality(R) \in Nat /\ Cardinality(P \ F) \in Nat
  BY PeersCount
<1>2. Cardinality(F \cup (P \ F)) =
          Cardinality(F) + Cardinality(P \ F) - Cardinality(F \cap (P \ F))
  BY <1>1, FS_Union
<1>3. F \cup (P \ F) = P /\ F \cap (P \ F) = {}
  OBVIOUS
<1>4. Cardinality(P) = Cardinality(F) + Cardinality(P \ F)
  <2>1. Cardinality(P) = Cardinality(F) + Cardinality(P \ F) - Cardinality({})
    BY <1>2, <1>3, Zenon
  <2>2. Cardinality({}) = 0
    BY FS_EmptySet
  <2> QED BY <1>1, <2>1, <2>2
<1>5. /\ Cardinality(R) <= Cardinality(P \ F)
      /\ Cardinality(R) = Cardinality(P \ F) => R = P \ F
  BY <1>1, FS_Subset
<1>6. R = P \ F => Cardinality(R) = Cardinality(P \ F)
  OBVIOUS
<1>7. Cardinality(P) - Cardinality(F) = Cardinality(P \ F)
  BY <1>1, <1>4
<1> QED BY <1>1, <1>5, <1>6, <1>7

LEMMA NoFailure ==
    ASSUME NEW P \in SUBSET Peers
    PROVE  Cardinality(P) - Cardinality({}) = Cardinality(P)
<1>1. Cardinality({}) = 0 /\ Cardinality(P) \in Nat
  BY PeersCount, FS_EmptySet
<1> QED BY <1>1

-----------------------------------------------------------------------------
(* Types.                                                                  *)

LEMMA InitialTypes == Init => TypeOK
BY DEF Init, TypeOK

\* The steps of a call keep the types; expected stays a natural number because
\* the peers whose send failed are peers.
LEMMA AdvanceType ==
    ASSUME IInv, NEW q \in Calls, Advance(q)
    PROVE  TypeOK'
<1> USE DEF IInv
<1>1. ASSUME NEW P \in SUBSET Peers, ListAll(q, P) PROVE TypeOK'
  BY <1>1, PeersCount DEF ListAll, TypeOK
<1>2. ASSUME NEW p \in Peers, SendQuery(q, p) PROVE TypeOK'
  <2>1. Msg("QUERY", q, p) \in Message
    BY <1>2 DEF Msg, Message
  <2> QED BY <1>2, <2>1 DEF SendQuery, TypeOK, collectors
<1>3. CASE AdjustExpected(q)
  <2>1. expected[q] = Cardinality(peers[q])
    <3>1. Cardinality(peers[q]) \in Nat
      BY PeersCount DEF TypeOK
    <3> QED BY <1>3, <3>1 DEF AdjustExpected, CallInv, ExpectedCounts
  <2>2. expected[q] - Cardinality(failed[q]) \in Nat
    <3>1. peers[q] \in SUBSET Peers /\ failed[q] \in SUBSET peers[q]
      BY DEF TypeOK, CallInv, AskedAnswer
    <3> QED BY <2>1, <3>1, CountAnswers
  <2>3. expected' \in [Calls -> Nat]
    BY <1>3, <2>2 DEF AdjustExpected, TypeOK
  <2>4. closed' \in [Calls -> BOOLEAN]
    BY <1>3 DEF AdjustExpected, Close, TypeOK
  <2> QED BY <1>3, <2>3, <2>4 DEF AdjustExpected, TypeOK
<1>4. CASE LocalRows(q)
  BY <1>4 DEF LocalRows, TypeOK, collectors
<1>5. CASE Done(q) \/ QueryTimeout(q)
  BY <1>5 DEF Done, QueryTimeout, TypeOK, collectors
<1>6. CASE Merge(q)
  BY <1>6 DEF Merge, TypeOK, collectors
<1>7. CASE Forget(q)
  BY <1>7 DEF Forget, TypeOK, collectors
<1> QED BY <1>1, <1>2, <1>3, <1>4, <1>5, <1>6, <1>7 DEF Advance

LEMMA HandleType ==
    ASSUME TypeOK, NEW m \in net, Handle(m)
    PROVE  TypeOK'
<1>1. m \in Message
  BY DEF TypeOK
<1>2. CASE HandleQuery(m)
  <2>1. Msg("QUERY_RESPONSE", m.call, m.peer) \in Message
    BY <1>1 DEF Msg, Message
  <2> QED BY <1>2, <2>1 DEF HandleQuery, TypeOK, collectors
<1>3. CASE HandleQueryResponse(m)
  <2>1. m.peer \in Peers /\ m.call \in Calls
    BY <1>1 DEF Message
  <2>2. results' \in [Calls -> SUBSET Peers]
    BY <1>3, <2>1 DEF HandleQueryResponse, TypeOK
  <2>3. closed' \in [Calls -> BOOLEAN]
    BY <1>3, <2>1 DEF HandleQueryResponse, TypeOK, Close
  <2> QED BY <1>3, <2>2, <2>3 DEF HandleQueryResponse, TypeOK
<1> QED BY <1>2, <1>3 DEF Handle

-----------------------------------------------------------------------------
(* Steps.                                                                  *)

\* A call of which nothing changes: some of its messages may go.
LEMMA OtherCall ==
    ASSUME NEW d \in Calls, CallInv(d),
           pc'[d] = pc[d], peers'[d] = peers[d], unsent'[d] = unsent[d],
           failed'[d] = failed[d], expected'[d] = expected[d], results'[d] = results[d],
           closed'[d] = closed[d], merged'[d] = merged[d], inTime'[d] = inTime[d],
           d \in queryWait => d \in queryWait',
           \A m \in net' : m.call = d => \E k \in net : k.call = d /\ k.peer = m.peer
    PROVE  CallInv(d)'
<1>1. AskedAnswer(d)'
  BY DEF CallInv, AskedAnswer, Asked
<1>2. ExpectedCounts(d)' /\ WaitingIsFound(d)'
  BY DEF CallInv, ExpectedCounts, WaitingIsFound
<1>3. ClosedIsComplete(d)' /\ CompleteIsClosed(d)'
  BY DEF CallInv, ClosedIsComplete, CompleteIsClosed, Everything
<1>4. InTimeIsClosed(d)'
  BY DEF CallInv, InTimeIsClosed
<1> QED BY <1>1, <1>2, <1>3, <1>4 DEF CallInv

LEMMA ListAllStep ==
    ASSUME IInv, TypeOK', NEW q \in Calls, NEW P \in SUBSET Peers, ListAll(q, P)
    PROVE  CallInv(q)'
<1>1. /\ pc[q] = "idle" /\ pc'[q] = "send"
      /\ peers'[q] = P /\ unsent'[q] = P
      /\ expected'[q] = Cardinality(P) /\ Cardinality(P) \in Nat
      /\ q \in queryWait'
      /\ UNCHANGED <<failed, results, closed, net, inTime>>
  BY PeersCount DEF ListAll, IInv, TypeOK
<1>2. peers[q] = {} /\ ~closed[q] /\ failed[q] = {} /\ results[q] = {} /\ ~inTime[q]
  BY <1>1 DEF IInv, CallInv, AskedAnswer, Asked, InTimeIsClosed
<1>3. \A m \in net : m.call # q
  BY <1>1, <1>2 DEF IInv, CallInv, AskedAnswer, Asked
<1>4. AskedAnswer(q)'
  BY <1>1, <1>2, <1>3 DEF AskedAnswer, Asked
<1>5. ExpectedCounts(q)' /\ WaitingIsFound(q)'
  BY <1>1 DEF ExpectedCounts, WaitingIsFound
<1>6. ClosedIsComplete(q)' /\ CompleteIsClosed(q)'
  BY <1>1, <1>2 DEF ClosedIsComplete, CompleteIsClosed, Everything
<1>7. InTimeIsClosed(q)'
  BY <1>1, <1>2 DEF InTimeIsClosed
<1> QED BY <1>4, <1>5, <1>6, <1>7 DEF CallInv

LEMMA SendQueryStep ==
    ASSUME IInv, TypeOK', NEW q \in Calls, NEW p \in Peers, SendQuery(q, p)
    PROVE  CallInv(q)'
<1>1. /\ p \in unsent[q] /\ unsent'[q] = unsent[q] \ {p}
      /\ UNCHANGED <<pc, peers, expected, results, closed, queryWait, merged, inTime>>
      /\ pc[q] = "send"
  BY DEF SendQuery, collectors, IInv, CallInv, AskedAnswer, TypeOK
<1>2. \/ failed'[q] = failed[q] /\ net' = net \cup {Msg("QUERY", q, p)}
      \/ failed'[q] = failed[q] \cup {p} /\ net' = net
  BY DEF SendQuery, IInv, TypeOK
<1>3. AskedAnswer(q)'
  <2>1. /\ unsent[q] \subseteq peers[q] /\ failed[q] \subseteq peers[q] \ unsent[q]
        /\ results[q] \subseteq Asked(q)
        /\ \A m \in net : m.call = q => m.peer \in Asked(q)
    BY DEF IInv, CallInv, AskedAnswer
  <2>2. Asked(q) \subseteq Asked(q)'
    BY <1>1, <1>2 DEF Asked
  <2>3. \A m \in net' : m.call = q => m.peer \in Asked(q)'
    <3>1. CASE failed'[q] = failed[q] /\ net' = net \cup {Msg("QUERY", q, p)}
      <4>1. Msg("QUERY", q, p).peer = p
        BY DEF Msg
      <4>2. p \in Asked(q)'
        BY <1>1, <2>1, <3>1 DEF Asked
      <4> QED BY <2>1, <2>2, <3>1, <4>1, <4>2
    <3>2. CASE net' = net
      BY <2>1, <2>2, <3>2
    <3> QED BY <1>2, <3>1, <3>2
  <2> QED BY <1>1, <1>2, <2>1, <2>2, <2>3 DEF AskedAnswer
<1>4. ExpectedCounts(q)' /\ WaitingIsFound(q)'
  BY <1>1 DEF IInv, CallInv, ExpectedCounts, WaitingIsFound
<1>5. ClosedIsComplete(q)' /\ CompleteIsClosed(q)'
  BY <1>1 DEF IInv, CallInv, ClosedIsComplete, CompleteIsClosed, Everything
<1>6. InTimeIsClosed(q)'
  BY <1>1 DEF IInv, CallInv, InTimeIsClosed
<1> QED BY <1>3, <1>4, <1>5, <1>6 DEF CallInv

LEMMA AdjustStep ==
    ASSUME IInv, TypeOK', NEW q \in Calls, AdjustExpected(q)
    PROVE  CallInv(q)'
<1>1. /\ pc[q] = "send" /\ pc'[q] = "local" /\ unsent[q] = {}
      /\ expected'[q] = expected[q] - Cardinality(failed[q])
      /\ UNCHANGED <<peers, unsent, failed, results, queryWait, net, merged, inTime>>
  BY DEF AdjustExpected, IInv, TypeOK
<1>2. AskedAnswer(q)'
  BY <1>1 DEF IInv, CallInv, AskedAnswer, Asked
<1>3. ExpectedCounts(q)'
  <2>1. expected[q] = Cardinality(peers[q]) - (IF pc[q] \in {"idle", "send"} THEN 0 ELSE Cardinality(failed[q]))
    BY DEF IInv, CallInv, ExpectedCounts
  <2>2. Cardinality(peers[q]) \in Nat
    BY PeersCount DEF IInv, TypeOK
  <2>3. expected[q] = Cardinality(peers[q])
    BY <1>1, <2>1, <2>2
  <2> QED BY <1>1, <2>3 DEF ExpectedCounts
<1>4. WaitingIsFound(q)' /\ InTimeIsClosed(q)'
  BY <1>1 DEF IInv, CallInv, WaitingIsFound, InTimeIsClosed
<1>5. closed'[q] <=> closed[q] \/ (failed[q] # {} /\ Cardinality(results[q]) >= expected'[q])
  <2>1. CASE failed[q] # {} /\ Cardinality(results[q]) >= expected'[q]
    BY <2>1 DEF AdjustExpected, Close, IInv, TypeOK
  <2>2. CASE ~(failed[q] # {} /\ Cardinality(results[q]) >= expected'[q])
    BY <2>2 DEF AdjustExpected
  <2> QED BY <2>1, <2>2
<1>6. Cardinality(results[q]) >= expected'[q] <=> results[q] = peers[q] \ failed[q]
  <2>1. /\ peers[q] \in SUBSET Peers /\ failed[q] \in SUBSET peers[q]
        /\ results[q] \in SUBSET (peers[q] \ failed[q])
    BY DEF IInv, TypeOK, CallInv, AskedAnswer, Asked
  <2>2. Cardinality(results[q]) >= Cardinality(peers[q]) - Cardinality(failed[q])
           <=> results[q] = peers[q] \ failed[q]
    BY <2>1, CountAnswers
  <2> QED BY <1>1, <1>3, <2>2 DEF ExpectedCounts
<1>7. closed[q] => results[q] = peers[q] \ failed[q]
  BY <1>1 DEF IInv, CallInv, ClosedIsComplete, Everything, AskedAnswer, Asked
<1>8. ClosedIsComplete(q)'
  BY <1>1, <1>5, <1>6, <1>7 DEF ClosedIsComplete, Everything
<1>9. CompleteIsClosed(q)'
  <2>1. failed[q] = {} /\ peers[q] # {} /\ results[q] = peers[q] => closed[q]
    BY <1>1 DEF IInv, CallInv, CompleteIsClosed, Everything
  <2> QED BY <1>1, <1>5, <1>6, <2>1 DEF CompleteIsClosed, Everything
<1> QED BY <1>2, <1>3, <1>4, <1>8, <1>9 DEF CallInv

\* The steps after the sends: nothing is counted any more.
LEMMA LaterStep ==
    ASSUME IInv, TypeOK', NEW q \in Calls,
           \/ LocalRows(q) \/ Done(q) \/ QueryTimeout(q) \/ Merge(q) \/ Forget(q)
    PROVE  CallInv(q)'
<1>1. /\ UNCHANGED <<peers, unsent, failed, expected, results, closed, net>>
      /\ pc[q] \in {"local", "wait", "merge", "forget"}
      /\ pc'[q] \in {"wait", "merge", "forget", "ok", "error"}
  BY DEF LocalRows, Done, QueryTimeout, Merge, Forget, collectors, IInv, TypeOK
<1>2. pc'[q] = "wait" => pc[q] = "local" /\ peers[q] # {} /\ UNCHANGED queryWait
  BY DEF LocalRows, Done, QueryTimeout, Merge, Forget, IInv, TypeOK
<1>3. AskedAnswer(q)'
  BY <1>1 DEF IInv, CallInv, AskedAnswer, Asked
<1>4. ExpectedCounts(q)'
  BY <1>1 DEF IInv, CallInv, ExpectedCounts
<1>5. WaitingIsFound(q)'
  BY <1>1, <1>2 DEF IInv, CallInv, WaitingIsFound
<1>6. ClosedIsComplete(q)'
  BY <1>1 DEF IInv, CallInv, ClosedIsComplete, Everything
<1>7. CompleteIsClosed(q)'
  BY <1>1, <1>2 DEF IInv, CallInv, CompleteIsClosed, Everything
<1>8. InTimeIsClosed(q)'
  <2>1. results[q] = peers[q] \ failed[q] \/ ~closed[q]
    BY <1>1 DEF IInv, CallInv, ClosedIsComplete, Everything
  <2>2. CASE LocalRows(q)
    BY <2>2 DEF LocalRows, IInv, CallInv, InTimeIsClosed, TypeOK
  <2>3. CASE Done(q)
    BY <2>3 DEF Done, collectors, InTimeIsClosed, IInv, TypeOK
  <2>4. CASE QueryTimeout(q)
    BY <2>4 DEF QueryTimeout, collectors, IInv, CallInv, InTimeIsClosed, TypeOK
  <2>5. CASE Merge(q)
    BY <2>1, <2>5 DEF Merge, collectors, IInv, CallInv, InTimeIsClosed, TypeOK
  <2>6. CASE Forget(q)
    BY <2>6 DEF Forget, collectors, IInv, CallInv, InTimeIsClosed, TypeOK
  <2> QED BY <2>2, <2>3, <2>4, <2>5, <2>6
<1> QED BY <1>3, <1>4, <1>5, <1>6, <1>7, <1>8 DEF CallInv

\* An answer is counted, and closes done when it is the last.
LEMMA ResponseStep ==
    ASSUME IInv, TypeOK', NEW m \in net, HandleQueryResponse(m), m.call \in queryWait
    PROVE  CallInv(m.call)'
<1> DEFINE q == m.call
<1>1. /\ q \in Calls /\ m.peer \in Asked(q)
      /\ results'[q] = results[q] \cup {m.peer}
      /\ closed'[q] <=> closed[q] \/ Cardinality(results'[q]) >= expected[q]
      /\ net' = net \ {m}
      /\ UNCHANGED <<pc, peers, unsent, failed, expected, queryWait, merged, inTime>>
  <2>1. q \in Calls
    BY DEF IInv, TypeOK, Message
  <2>2. results' = [results EXCEPT ![q] = @ \cup {m.peer}]
    BY DEF HandleQueryResponse
  <2>3. CASE Cardinality(results'[q]) >= expected[q]
    <3>1. closed' = [closed EXCEPT ![q] = TRUE]
      BY <2>3 DEF HandleQueryResponse, Close
    <3>2. closed'[q] = TRUE
      BY <2>1, <3>1 DEF IInv, TypeOK
    <3> QED BY <2>1, <2>2, <2>3, <3>2 DEF HandleQueryResponse, IInv, TypeOK, CallInv, AskedAnswer
  <2>4. CASE ~(Cardinality(results'[q]) >= expected[q])
    BY <2>1, <2>2, <2>4 DEF HandleQueryResponse, IInv, TypeOK, CallInv, AskedAnswer
  <2> QED BY <2>3, <2>4
<1> HIDE DEF q
<1>2. AskedAnswer(q)'
  <2>1. /\ pc[q] = "idle" => peers[q] = {}
        /\ unsent[q] \subseteq peers[q] /\ failed[q] \subseteq peers[q] \ unsent[q]
        /\ pc[q] # "send" => unsent[q] = {}
        /\ results[q] \subseteq Asked(q)
        /\ \A k \in net : k.call = q => k.peer \in Asked(q)
    BY <1>1 DEF IInv, CallInv, AskedAnswer
  <2>2. pc[q] # "idle"
    BY <1>1, <2>1 DEF Asked
  <2> QED BY <1>1, <2>1, <2>2 DEF AskedAnswer, Asked
<1>3. ExpectedCounts(q)'
  BY <1>1 DEF IInv, CallInv, ExpectedCounts
<1>4. WaitingIsFound(q)' /\ InTimeIsClosed(q)'
  BY <1>1 DEF IInv, CallInv, WaitingIsFound, InTimeIsClosed
<1>5. pc'[q] # "idle"
  BY <1>1 DEF IInv, CallInv, AskedAnswer, Asked
<1>6. Cardinality(results'[q]) >= expected'[q] <=> results'[q] = Everything(q)'
  <2> DEFINE F == IF pc[q] = "send" THEN {} ELSE failed[q]
  <2>1. peers[q] \in SUBSET Peers /\ F \in SUBSET peers[q] /\ results'[q] \in SUBSET (peers[q] \ F)
    BY <1>1, <1>2 DEF IInv, TypeOK, AskedAnswer, Asked
  <2>2. Cardinality(results'[q]) >= Cardinality(peers[q]) - Cardinality(F)
           <=> results'[q] = peers[q] \ F
    BY <2>1, CountAnswers
  <2>3. expected'[q] = Cardinality(peers[q]) - Cardinality(F)
    BY <1>1, <1>3, <1>5, NoFailure, PeersCount, FS_EmptySet DEF ExpectedCounts, IInv, TypeOK
  <2>4. Everything(q)' = peers[q] \ F
    BY <1>1 DEF Everything
  <2> QED BY <2>2, <2>3, <2>4
<1>7. closed[q] => results[q] = Everything(q)
  BY <1>1 DEF IInv, CallInv, ClosedIsComplete
<1>8. results[q] = Everything(q) => results'[q] = Everything(q)'
  BY <1>1 DEF Everything, Asked
<1>9. ClosedIsComplete(q)' /\ CompleteIsClosed(q)'
  BY <1>1, <1>6, <1>7, <1>8 DEF IInv, CallInv, ClosedIsComplete, CompleteIsClosed
<1> QED BY <1>2, <1>3, <1>4, <1>9 DEF CallInv, q

LEMMA CallInvariant == IInv /\ [Next]_vars => IInv'
<1> SUFFICES ASSUME IInv, [Next]_vars PROVE IInv'
  OBVIOUS
<1>1. ASSUME NEW q \in Calls, Advance(q) PROVE IInv'
  <2>1. TypeOK'
    BY <1>1, AdvanceType
  <2>2. CallInv(q)'
    <3>1. ASSUME NEW P \in SUBSET Peers, ListAll(q, P) PROVE CallInv(q)'
      BY <2>1, <3>1, ListAllStep
    <3>2. ASSUME NEW p \in Peers, SendQuery(q, p) PROVE CallInv(q)'
      BY <2>1, <3>2, SendQueryStep
    <3>3. CASE AdjustExpected(q)
      BY <2>1, <3>3, AdjustStep
    <3>4. CASE LocalRows(q) \/ Done(q) \/ QueryTimeout(q) \/ Merge(q) \/ Forget(q)
      BY <2>1, <3>4, LaterStep
    <3> QED BY <1>1, <3>1, <3>2, <3>3, <3>4 DEF Advance
  <2>3. ASSUME NEW d \in Calls \ {q} PROVE CallInv(d)'
    <3>1. /\ pc'[d] = pc[d] /\ peers'[d] = peers[d] /\ unsent'[d] = unsent[d]
          /\ failed'[d] = failed[d] /\ expected'[d] = expected[d]
          /\ results'[d] = results[d] /\ closed'[d] = closed[d]
          /\ merged'[d] = merged[d] /\ inTime'[d] = inTime[d]
      <4>1. CASE \E P \in SUBSET Peers : ListAll(q, P)
        BY <4>1 DEF ListAll, IInv, TypeOK
      <4>2. CASE \E p \in Peers : SendQuery(q, p)
        BY <4>2 DEF SendQuery, collectors, IInv, TypeOK
      <4>3. CASE AdjustExpected(q)
        BY <4>3 DEF AdjustExpected, Close, IInv, TypeOK
      <4>4. CASE LocalRows(q) \/ Done(q) \/ QueryTimeout(q) \/ Merge(q) \/ Forget(q)
        BY <4>4 DEF LocalRows, Done, QueryTimeout, Merge, Forget, collectors, IInv, TypeOK
      <4> QED BY <1>1, <4>1, <4>2, <4>3, <4>4 DEF Advance
    <3>2. /\ d \in queryWait => d \in queryWait'
          /\ \A m \in net' : m.call = d => m \in net
      <4>1. CASE \E p \in Peers : SendQuery(q, p)
        BY <4>1 DEF SendQuery, Msg
      <4>2. CASE ~\E p \in Peers : SendQuery(q, p)
        BY <1>1, <4>2 DEF Advance, ListAll, AdjustExpected, LocalRows, Done, QueryTimeout,
                          Merge, Forget
      <4> QED BY <4>1, <4>2
    <3> QED BY <3>1, <3>2, OtherCall DEF IInv
  <2> QED BY <2>1, <2>2, <2>3 DEF IInv
<1>2. ASSUME NEW m \in net, HandleQuery(m) PROVE IInv'
  <2>1. TypeOK'
    BY <1>2, HandleType DEF IInv, Handle
  <2>2. UNCHANGED <<pc, peers, unsent, failed, expected, results, closed, queryWait, merged, inTime>>
    BY <1>2 DEF HandleQuery, collectors
  <2>3. \A k \in net' : \E l \in net : l.call = k.call /\ l.peer = k.peer
    BY <1>2 DEF HandleQuery, Msg
  <2>4. \A d \in Calls : CallInv(d)'
    BY <2>2, <2>3, OtherCall DEF IInv
  <2> QED BY <2>1, <2>4 DEF IInv
<1>3. ASSUME NEW m \in net, HandleQueryResponse(m) PROVE IInv'
  <2>1. TypeOK'
    BY <1>3, HandleType DEF IInv, Handle
  <2>2. /\ UNCHANGED <<pc, peers, unsent, failed, expected, queryWait, merged, inTime>>
        /\ net' \subseteq net
    BY <1>3 DEF HandleQueryResponse
  <2>3. ASSUME NEW d \in Calls, d # m.call \/ m.call \notin queryWait PROVE CallInv(d)'
    <3>1. results'[d] = results[d] /\ closed'[d] = closed[d]
      BY <1>3, <2>3 DEF HandleQueryResponse, Close, IInv, TypeOK
    <3> QED BY <2>2, <3>1, OtherCall DEF IInv
  <2>4. CASE m.call \in queryWait
    BY <1>3, <2>1, <2>3, <2>4, ResponseStep DEF IInv
  <2>5. CASE m.call \notin queryWait
    BY <2>1, <2>3, <2>5 DEF IInv
  <2> QED BY <2>4, <2>5
<1>4. CASE UNCHANGED vars
  <2>1. /\ UNCHANGED <<pc, peers, unsent, failed, expected, results, closed, queryWait, merged, inTime>>
        /\ net' = net
    BY <1>4 DEF vars, collectors
  <2>2. TypeOK'
    BY <2>1 DEF IInv, TypeOK
  <2>3. \A d \in Calls : CallInv(d)'
    BY <2>1, OtherCall DEF IInv
  <2> QED BY <2>2, <2>3 DEF IInv
<1> QED BY <1>1, <1>2, <1>3, <1>4 DEF Next, Handle

LEMMA Invariant == Spec => []IInv
<1>1. Init => IInv
  <2> SUFFICES ASSUME Init PROVE IInv
    OBVIOUS
  <2>1. ASSUME NEW q \in Calls PROVE CallInv(q)
    <3>1. Cardinality({}) = 0
      BY FS_EmptySet
    <3>2. AskedAnswer(q) /\ ExpectedCounts(q) /\ WaitingIsFound(q)
      BY <3>1 DEF Init, AskedAnswer, Asked, ExpectedCounts, WaitingIsFound
    <3>3. ClosedIsComplete(q) /\ CompleteIsClosed(q) /\ InTimeIsClosed(q)
      BY DEF Init, ClosedIsComplete, CompleteIsClosed, InTimeIsClosed
    <3> QED BY <3>2, <3>3 DEF CallInv
  <2> QED BY <2>1, InitialTypes DEF IInv
<1> QED BY <1>1, CallInvariant, PTL DEF Spec

-----------------------------------------------------------------------------
(* Theorems.                                                               *)

\* The variables keep their types; expected never falls below zero, however
\* many sends fail (ticket_service.go:375-400).
THEOREM TypeCorrect == Spec => []TypeOK
BY Invariant, PTL DEF IInv

\* A query that did not run into its timeout merges the rows of every peer it
\* was sent to (ticket_service.go:364-446).
THEOREM AnswersComplete == Spec => []CompleteInTime
<1>1. IInv => CompleteInTime
  BY DEF IInv, CallInv, InTimeIsClosed, CompleteInTime
<1> QED BY <1>1, Invariant, PTL

\* No query waits for its timeout when all that can answer have answered, those
\* included that did so before expected was adjusted (ticket_service.go:389-400).
THEOREM NeverWaitsInVain == Spec => []NoUselessWait
<1>1. IInv => NoUselessWait
  <2> SUFFICES ASSUME IInv, NEW q \in Calls, pc[q] = "wait",
                      peers[q] \ failed[q] \subseteq results[q]
               PROVE  closed[q]
    BY DEF NoUselessWait
  <2>1. results[q] \subseteq peers[q] \ failed[q] /\ peers[q] # {}
    BY DEF IInv, CallInv, AskedAnswer, Asked, CompleteIsClosed
  <2>2. results[q] = Everything(q)
    BY <2>1 DEF Everything
  <2> QED BY <2>1, <2>2 DEF IInv, CallInv, CompleteIsClosed
<1> QED BY <1>1, Invariant, PTL
=============================================================================
