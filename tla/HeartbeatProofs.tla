-------------------------- MODULE HeartbeatProofs ---------------------------
(***************************************************************************)
(* Proofs about failure detection (Heartbeat!Spec), for any nodes, number  *)
(* of goroutines, maxMissed, crashes and restarts, and with PINGs, PONGs   *)
(* and reports that are lost or late.                                      *)
(***************************************************************************)
EXTENDS Heartbeat, TLAPS

USE MasterAssumption, GoroutinesAssumption, BoundsAssumption

-----------------------------------------------------------------------------
(* Type correctness.                                                       *)

LEMMA InitType == Init => TypeOK
BY DEF Init, TypeOK, Locations

LEMMA TickType ==
    ASSUME TypeOK, NEW n \in Monitors \cap up, Tick(n)
    PROVE  /\ TypeOK'
           /\ \E i \in Goroutines : Ping(n, i)
<1> DEFINE resting == {i \in Goroutines : at[n][i] = "idle"}
           i == CHOOSE i \in resting : TRUE
<1>1. i \in resting /\ Ping(n, i)
  BY DEF Tick
<1> HIDE DEF i
<1>2. TypeOK'
  BY <1>1 DEF TypeOK, Ping, Goto, Locations, Monitors, netVars, boundVars
<1> QED BY <1>1, <1>2

\* The counters of messages under way stay within their bound.
LEMMA CountUp ==
    ASSUME NEW count \in [Nodes -> 0..MaxUnderWay], NEW n \in Nodes, count[n] < MaxUnderWay
    PROVE  [count EXCEPT ![n] = @ + 1] \in [Nodes -> 0..MaxUnderWay]
<1>1. count[n] + 1 \in 0..MaxUnderWay
  OBVIOUS
<1> QED BY <1>1

LEMMA CountDown ==
    ASSUME NEW count \in [Nodes -> 0..MaxUnderWay], NEW n \in Nodes, count[n] > 0
    PROVE  [count EXCEPT ![n] = @ - 1] \in [Nodes -> 0..MaxUnderWay]
<1>1. count[n] - 1 \in 0..MaxUnderWay
  OBVIOUS
<1> QED BY <1>1

LEMMA RunType ==
    ASSUME TypeOK, NEW n \in Monitors \cap up, NEW i \in Goroutines, Run(n, i)
    PROVE  TypeOK'
<1> USE DEF TypeOK, Goto, Locations, Monitors, netVars, boundVars
<1>1. CASE Send(n, i)
  <2>1. pings' \in [Nodes -> 0..MaxUnderWay]
    BY <1>1, CountUp DEF Send
  <2>2. /\ at' \in [Nodes -> [Goroutines -> Locations]]
        /\ pongCh' \in [Nodes -> Goroutines \cup {NoGoroutine}]
    BY <1>1 DEF Send
  <2> QED BY <1>1, <2>1, <2>2 DEF Send
<1>2. CASE PongArrives(n, i)
  BY <1>2 DEF PongArrives
<1>3. CASE MarkAlive(n, i)
  BY <1>3 DEF MarkAlive
<1>4. CASE PongWaitExpires(n, i)
  BY <1>4 DEF PongWaitExpires
<1>5. CASE AskAlive(n, i)
  BY <1>5 DEF AskAlive
<1>6. CASE MarkDead(n, i)
  BY <1>6 DEF MarkDead
<1>7. CASE React(n, i)
  BY <1>7 DEF React
<1>8. CASE Clean(n, i)
  BY <1>8 DEF Clean
<1> QED BY <1>1, <1>2, <1>3, <1>4, <1>5, <1>6, <1>7, <1>8 DEF Run

LEMMA EnvironmentType ==
    ASSUME TypeOK, NEW n \in Nodes,
           \/ HandlePing(n) \/ HandlePong(n) \/ HandleNodeDead(n)
           \/ Crash(n) \/ Restart(n)
    PROVE  TypeOK'
<1> USE DEF TypeOK, Locations, monitorVars, netVars, boundVars
<1>1. CASE HandlePing(n)
  <2>1. pings' \in [Nodes -> 0..MaxUnderWay]
    BY <1>1, CountDown DEF HandlePing
  <2>2. pongs' \in [Nodes -> 0..MaxUnderWay]
    BY <1>1, CountUp DEF HandlePing
  <2> QED BY <1>1, <2>1, <2>2 DEF HandlePing
<1>2. CASE HandlePong(n)
  <2>1. pongs' \in [Nodes -> 0..MaxUnderWay]
    BY <1>2, CountDown DEF HandlePong
  <2>2. token' \in [Nodes -> [Goroutines -> BOOLEAN]]
    <3>1. CASE pongCh[n] = NoGoroutine
      BY <1>2, <3>1 DEF HandlePong
    <3>2. CASE pongCh[n] \in Goroutines
      <4>1. token' = [token EXCEPT ![n] = [token[n] EXCEPT ![pongCh[n]] = TRUE]]
        BY <1>2, <3>2 DEF HandlePong
      <4>2. [token[n] EXCEPT ![pongCh[n]] = TRUE] \in [Goroutines -> BOOLEAN]
        BY <3>2
      <4> QED BY <4>1, <4>2
    <3> QED BY <3>1, <3>2
  <2> QED BY <1>2, <2>1, <2>2 DEF HandlePong
<1>3. CASE HandleNodeDead(n)
  BY <1>3 DEF HandleNodeDead
<1>4. CASE Crash(n)
  BY <1>4 DEF Crash
<1>5. CASE Restart(n)
  BY <1>5 DEF Restart
<1> QED BY <1>1, <1>2, <1>3, <1>4, <1>5

LEMMA NextType == TypeOK /\ [Next]_vars => TypeOK'
<1> SUFFICES ASSUME TypeOK, [Next]_vars PROVE TypeOK'
  OBVIOUS
<1>1. CASE UNCHANGED vars
  BY <1>1 DEF TypeOK, vars, monitorVars, netVars, boundVars
<1> QED BY <1>1, TickType, RunType, EnvironmentType DEF Next, Handle

\* The variables of the monitors and their counters are well typed, and the
\* master is never told of its own death.
THEOREM TypeCorrect == Spec => []TypeOK
<1> QED BY InitType, NextType, PTL DEF Spec

-----------------------------------------------------------------------------
(* The invariant.                                                          *)

\* At most one goroutine of a node is past the test of inFlight, and none of
\* a node that is down.
Alone(n) ==
    /\ \A i \in Goroutines : at[n][i] # "idle" =>
        /\ inFlight[n]
        /\ n \in up
        /\ \A j \in Goroutines \ {i} : at[n][j] = "idle"

Reachable(n) == \A i \in Goroutines : at[n][i] = "wait" => pongCh[n] = i

\* What is known of view, count and history at each place of the goroutine
\* that is past the test.
Stage(n) ==
    /\ \A i \in Goroutines :
        /\ at[n][i] = "revive" => missed[n] = 0
        /\ at[n][i] \in {"declare", "kill", "react"} => missed[n] = MaxMissed
        /\ at[n][i] = "kill" => alive[n]
        /\ at[n][i] = "react" => ~alive[n] /\ reactions[n] = 0
    /\ (\A i \in Goroutines : at[n][i] # "react")
        => reactions[n] = IF alive[n] THEN 0 ELSE 1
    /\ (\A i \in Goroutines : at[n][i] \in {"idle", "send", "wait", "clean"})
        => (alive[n] <=> missed[n] < MaxMissed)

NodeInv(n) == Alone(n) /\ Reachable(n) /\ (n \in up => Stage(n))

IInv == TypeOK /\ \A n \in Nodes : NodeInv(n)

LEMMA InitIInv == Init => IInv
<1> SUFFICES ASSUME Init PROVE IInv
  OBVIOUS
<1>1. TypeOK
  BY InitType
<1>2. ASSUME NEW n \in Nodes PROVE NodeInv(n)
  BY DEF Init, NodeInv, Alone, Reachable, Stage
<1> QED BY <1>1, <1>2 DEF IInv

\* A step that leaves what NodeInv(k) reads as it was keeps it.
LEMMA OtherNode ==
    ASSUME NEW k \in Nodes, NodeInv(k),
           at'[k] = at[k], alive'[k] = alive[k], missed'[k] = missed[k],
           inFlight'[k] = inFlight[k], pongCh'[k] = pongCh[k],
           reactions'[k] = reactions[k], k \in up' <=> k \in up
    PROVE  NodeInv(k)'
BY DEF NodeInv, Alone, Reachable, Stage

\* The step of a goroutine of n touches no other node.
LEMMA OthersKeep ==
    ASSUME IInv, NEW n \in Nodes, NEW i \in Goroutines, Ping(n, i) \/ Run(n, i)
    PROVE  \A k \in Nodes \ {n} : NodeInv(k)'
<1> SUFFICES ASSUME NEW k \in Nodes \ {n} PROVE NodeInv(k)'
  OBVIOUS
<1>1. /\ at'[k] = at[k] /\ alive'[k] = alive[k] /\ missed'[k] = missed[k]
      /\ inFlight'[k] = inFlight[k] /\ pongCh'[k] = pongCh[k]
      /\ reactions'[k] = reactions[k] /\ up' = up
  BY DEF IInv, TypeOK, Goto, Ping, Run, Send, PongArrives, MarkAlive, PongWaitExpires,
     AskAlive, MarkDead, React, Clean, netVars, boundVars
<1> QED BY <1>1, OtherNode DEF IInv

LEMMA GoroutineStep ==
    ASSUME IInv, NEW n \in Monitors \cap up, NEW i \in Goroutines, Ping(n, i) \/ Run(n, i)
    PROVE  NodeInv(n)'
<1> USE DEF IInv, TypeOK, NodeInv, Alone, Reachable, Stage, Goto, Monitors
<1>1. CASE Ping(n, i)
  BY <1>1 DEF Ping
<1>2. CASE Send(n, i)
  BY <1>2 DEF Send
<1>3. CASE PongArrives(n, i)
  BY <1>3 DEF PongArrives
<1>4. CASE MarkAlive(n, i)
  BY <1>4 DEF MarkAlive
<1>5. CASE PongWaitExpires(n, i)
  <2>1. CASE missed[n] + 1 < MaxMissed
    <3>1. missed' = [missed EXCEPT ![n] = missed[n] + 1] /\ ~(missed[n] + 1 >= MaxMissed)
      BY <1>5, <2>1 DEF PongWaitExpires
    <3>2. missed[n] < MaxMissed /\ missed'[n] < MaxMissed
      BY <2>1, <3>1
    <3> QED BY <1>5, <3>1, <3>2 DEF PongWaitExpires
  <2>2. CASE ~(missed[n] + 1 < MaxMissed)
    <3>1. missed' = [missed EXCEPT ![n] = MaxMissed] /\ missed[n] + 1 >= MaxMissed
      BY <1>5, <2>2 DEF PongWaitExpires
    <3>2. missed'[n] = MaxMissed
      BY <3>1
    <3> QED BY <1>5, <3>1, <3>2 DEF PongWaitExpires
  <2> QED BY <2>1, <2>2
<1>6. CASE AskAlive(n, i)
  BY <1>6 DEF AskAlive
<1>7. CASE MarkDead(n, i)
  BY <1>7 DEF MarkDead
<1>8. CASE React(n, i)
  BY <1>8 DEF React
<1>9. CASE Clean(n, i)
  BY <1>9 DEF Clean
<1> QED BY <1>1, <1>2, <1>3, <1>4, <1>5, <1>6, <1>7, <1>8, <1>9 DEF Run

\* Messages that are handled change no monitor but for a token.
LEMMA HandlerStep ==
    ASSUME IInv, Handle
    PROVE  \A k \in Nodes : NodeInv(k)'
<1>1. UNCHANGED <<at, alive, missed, inFlight, pongCh, reactions, up>>
  BY DEF Handle, HandlePing, HandlePong, HandleNodeDead, monitorVars, netVars
<1> QED BY <1>1, OtherNode DEF IInv

LEMMA FailureStep ==
    ASSUME IInv, NEW n \in Nodes, Crash(n) \/ Restart(n)
    PROVE  \A k \in Nodes : NodeInv(k)'
<1> SUFFICES ASSUME NEW k \in Nodes PROVE NodeInv(k)'
  OBVIOUS
<1>1. CASE k # n
  <2>1. /\ at'[k] = at[k] /\ alive'[k] = alive[k] /\ missed'[k] = missed[k]
        /\ inFlight'[k] = inFlight[k] /\ pongCh'[k] = pongCh[k]
        /\ reactions'[k] = reactions[k] /\ (k \in up' <=> k \in up)
    BY <1>1 DEF IInv, TypeOK, Crash, Restart
  <2> QED BY <2>1, OtherNode DEF IInv
<1>2. CASE k = n /\ Crash(n)
  <2>1. at'[n] = [i \in Goroutines |-> "idle"] /\ n \notin up'
    BY <1>2 DEF IInv, TypeOK, Crash
  <2> QED BY <1>2, <2>1 DEF NodeInv, Alone, Reachable
<1>3. CASE k = n /\ Restart(n)
  <2>1. /\ at' = at /\ inFlight' = inFlight /\ pongCh' = pongCh
        /\ alive'[n] = TRUE /\ missed'[n] = 0 /\ reactions'[n] = 0
    BY <1>3 DEF IInv, TypeOK, Restart
  <2>2. \A i \in Goroutines : at[n][i] = "idle"
    BY <1>3 DEF IInv, NodeInv, Alone, Restart
  <2> QED BY <1>3, <2>1, <2>2 DEF NodeInv, Alone, Reachable, Stage
<1> QED BY <1>1, <1>2, <1>3

LEMMA NextIInv == IInv /\ [Next]_vars => IInv'
<1> SUFFICES ASSUME IInv, [Next]_vars PROVE IInv'
  OBVIOUS
<1>1. TypeOK'
  BY NextType DEF IInv
<1>2. ASSUME NEW n \in Monitors \cap up, NEW i \in Goroutines, Ping(n, i) \/ Run(n, i)
      PROVE  \A k \in Nodes : NodeInv(k)'
  BY <1>2, GoroutineStep, OthersKeep DEF Monitors
<1>3. ASSUME NEW n \in Monitors \cap up, Tick(n)
      PROVE  \A k \in Nodes : NodeInv(k)'
  BY <1>2, <1>3, TickType DEF IInv
<1>4. ASSUME UNCHANGED vars PROVE \A k \in Nodes : NodeInv(k)'
  BY <1>4, OtherNode DEF IInv, vars, monitorVars
<1>5. \A k \in Nodes : NodeInv(k)'
  BY <1>2, <1>3, <1>4, HandlerStep, FailureStep DEF Next
<1> QED BY <1>1, <1>5 DEF IInv

-----------------------------------------------------------------------------
(* What follows.                                                           *)

\* Every goroutine that waits for a PONG can be reached by one: inFlight keeps
\* the channel from being replaced or deleted (heartbeat.go:44).
THEOREM AlwaysReachable == Spec => []WaiterIsReachable
<1>1. IInv => WaiterIsReachable
  BY DEF IInv, NodeInv, Reachable, WaiterIsReachable
<1> QED BY <1>1, InitIInv, NextIInv, PTL DEF Spec

\* A node reacts once to a death and to none of a peer it holds alive, though
\* the question and the mark are two steps (heartbeat.go:145-148).
THEOREM ReactsOnce == Spec => []OneReaction
<1>1. IInv => OneReaction
  BY DEF IInv, TypeOK, NodeInv, Stage, OneReaction
<1> QED BY <1>1, InitIInv, NextIInv, PTL DEF Spec

\* Between pings the view and the count of a node agree (heartbeat.go:117-131).
THEOREM ViewFollowsCount == Spec => []ViewMatchesCount
<1>1. IInv => ViewMatchesCount
  BY DEF IInv, TypeOK, NodeInv, Stage, ViewMatchesCount
<1> QED BY <1>1, InitIInv, NextIInv, PTL DEF Spec
=============================================================================
