------------------------------ MODULE Election ------------------------------
(***************************************************************************)
(* Leader election (internal/election), an inverted bully: of the nodes    *)
(* that are up the one with the lowest id is to be master.  The module     *)
(* also has the part of internal/heartbeat that reacts to the death and to *)
(* the return of a peer, the views internal/nodestate keeps of them, and   *)
(* NODE_DEAD, with which a node that is not master reports a death.        *)
(*                                                                         *)
(* The network is a bag, because two elections of one node may have equal  *)
(* messages under way.  The hub hands each message to a goroutine of its   *)
(* own, so they are handled in any order.  A send to a node that is down   *)
(* is an error, which every sender ignores.                                *)
(***************************************************************************)
EXTENDS Naturals, FiniteSets, Bags

CONSTANTS
    Nodes,           \* ids of the sucursales
    InitialMaster,   \* master_id of nodes.json
    MaxCrashes,      \* bound: crashes in a behaviour
    MaxRestarts,     \* bound: restarts in a behaviour
    MaxSuspicions    \* bound: nodes declared dead while they are up

ASSUME NodesAssumption == Nodes \subseteq Nat /\ IsFiniteSet(Nodes)
ASSUME MasterAssumption == InitialMaster \in Nodes
ASSUME BoundsAssumption == MaxCrashes \in Nat /\ MaxRestarts \in Nat /\ MaxSuspicions \in Nat

VARIABLES
    up,         \* the nodes whose process runs
    alive,      \* State.alive of each node, as the set of nodes it holds alive
    masterOf,   \* State.masterID of each node
    running,    \* Engine.running of each node
    spawned,    \* goroutines that are about to call StartElection
    sent,       \* StartElection calls that sent ELECTION and have not set the timer
    armed,      \* whether the timer Engine.okTimer refers to is set
    leftover,   \* whether that timer was set after its election had been answered
    stale,      \* timers that are set and that Engine.okTimer does not refer to
    expired,    \* timer callbacks that saw running and have not declared victory
    claiming,   \* whether the initial master has yet to claim mastership
    net,        \* messages sent and not yet handled
    redistributed,  \* nodes whose tickets some master began to redistribute
    hasty,      \* history: nodes that gave up waiting though an answer was under way
    crashes, restarts, suspicions

engineVars == <<running, spawned, sent, armed, leftover, stale, expired, claiming>>
boundVars == <<crashes, restarts, suspicions>>
vars == <<up, alive, masterOf, engineVars, net, redistributed, hasty, boundVars>>

Message == [type : {"ELECTION", "ELECTION_OK", "COORDINATOR", "NODE_DEAD"},
            id : Nodes, from : Nodes, to : Nodes]

Msg(type, id, from, to) == [type |-> type, id |-> id, from |-> from, to |-> to]

\* Fault: what is sent to a node that is down is kept for it.
SendQueues(S) == net' = net (+) SetToBag(S)

\* The messages of S whose receiver is up are under way, the others are errors.
Send(S) == net' = net (+) SetToBag({m \in S : m.to \in up})

Reply(m, S) == net' = (net (-) SetToBag({m})) (+) SetToBag({k \in S : k.to \in up})

Peers(n) == Nodes \ {n}
AlivePeers(n) == alive[n] \ {n}

\* Fault: the comparison the wrong way round.
HigherNodes(n) == {k \in AlivePeers(n) : k > n}

\* The nodes believed alive with a higher priority.
LowerNodes(n) == {k \in AlivePeers(n) : k < n}

\* Fault: the winner tells only the nodes it asked.
CoordinatorToLower(n) == {Msg("COORDINATOR", n, n, k) : k \in LowerNodes(n)}

Coordinator(n) == {Msg("COORDINATOR", n, n, k) : k \in Peers(n)}

Init ==
    /\ up = Nodes
    /\ alive = [n \in Nodes |-> Nodes]
    /\ masterOf = [n \in Nodes |-> InitialMaster]
    /\ running = [n \in Nodes |-> FALSE]
    /\ spawned = [n \in Nodes |-> 0]
    /\ sent = [n \in Nodes |-> 0]
    /\ armed = [n \in Nodes |-> FALSE]
    /\ leftover = [n \in Nodes |-> FALSE]
    /\ stale = [n \in Nodes |-> 0]
    /\ expired = [n \in Nodes |-> 0]
    /\ claiming = [n \in Nodes |-> n = InitialMaster]
    /\ net = EmptyBag
    /\ redistributed = {}
    /\ hasty = {}
    /\ crashes = 0
    /\ restarts = 0
    /\ suspicions = 0

-----------------------------------------------------------------------------
(* The engine of a node.                                                   *)

\* What declareVictory does: its callers have to set running and armed.
Win(n) ==
    /\ masterOf' = [masterOf EXCEPT ![n] = n]
    /\ Send(Coordinator(n))

\* StartElection up to the timer.  With nobody lower alive the node wins here.
StartElection(n) ==
    /\ n \in up
    /\ spawned[n] > 0
    /\ spawned' = [spawned EXCEPT ![n] = @ - 1]
    /\ \/ /\ running[n]
          /\ UNCHANGED <<masterOf, running, sent, armed, net>>
       \/ /\ ~running[n]
          /\ LowerNodes(n) = {}
          /\ armed' = [armed EXCEPT ![n] = FALSE]
          /\ Win(n)
          /\ UNCHANGED <<running, sent>>
       \/ /\ ~running[n]
          /\ LowerNodes(n) # {}
          /\ running' = [running EXCEPT ![n] = TRUE]
          /\ Send({Msg("ELECTION", n, n, k) : k \in LowerNodes(n)})
          /\ sent' = [sent EXCEPT ![n] = @ + 1]
          /\ UNCHANGED <<masterOf, armed>>
    /\ UNCHANGED <<up, alive, leftover, stale, expired, claiming, redistributed, hasty, boundVars>>

\* StartElection sets okTimer; a timer it referred to and that was not
\* stopped stays set.
ArmTimer(n) ==
    /\ n \in up
    /\ sent[n] > 0
    /\ sent' = [sent EXCEPT ![n] = @ - 1]
    /\ armed' = [armed EXCEPT ![n] = TRUE]
    /\ leftover' = [leftover EXCEPT ![n] = ~running[n]]
    /\ stale' = [stale EXCEPT ![n] = IF armed[n] THEN @ + 1 ELSE @]
    /\ UNCHANGED <<up, alive, masterOf, running, spawned, expired, claiming, net,
                   redistributed, hasty, boundVars>>

\* No answer to an ELECTION of n is under way or may still be made.
AnswersAreIn(n) ==
    \A m \in DOMAIN net :
        /\ m.type = "ELECTION" => m.from # n
        /\ m.type = "ELECTION_OK" => m.to # n

\* The callback of a timer reads running with the mutex held, and declares
\* victory after it has let the mutex go.  It asks neither which election the
\* timer was set for nor whether all answers had their time.
Callback(n) ==
    /\ expired' = [expired EXCEPT ![n] = IF running[n] THEN @ + 1 ELSE @]
    /\ hasty' = IF running[n] /\ ~AnswersAreIn(n) THEN hasty \cup {n} ELSE hasty
    /\ UNCHANGED <<up, alive, masterOf, running, spawned, sent, leftover, claiming, net,
                   redistributed, boundVars>>

OkTimerExpires(n) ==
    /\ n \in up
    /\ armed[n]
    /\ armed' = [armed EXCEPT ![n] = FALSE]
    /\ Callback(n)
    /\ UNCHANGED stale

StaleTimerExpires(n) ==
    /\ n \in up
    /\ stale[n] > 0
    /\ stale' = [stale EXCEPT ![n] = @ - 1]
    /\ Callback(n)
    /\ UNCHANGED armed

DeclareVictory(n) ==
    /\ n \in up
    /\ expired[n] > 0
    /\ expired' = [expired EXCEPT ![n] = @ - 1]
    /\ running' = [running EXCEPT ![n] = FALSE]
    /\ armed' = [armed EXCEPT ![n] = FALSE]
    /\ Win(n)
    /\ UNCHANGED <<up, alive, spawned, sent, leftover, stale, claiming, redistributed, hasty, boundVars>>

ClaimMastership(n) ==
    /\ n \in up
    /\ claiming[n]
    /\ claiming' = [claiming EXCEPT ![n] = FALSE]
    /\ Win(n)
    /\ UNCHANGED <<up, alive, running, spawned, sent, armed, leftover, stale,
                   expired, redistributed, hasty, boundVars>>

HandleElection(m) ==
    /\ m.type = "ELECTION"
    /\ \/ /\ m.to >= m.id
          /\ Reply(m, {})
          /\ UNCHANGED spawned
       \/ /\ m.to < m.id
          /\ Reply(m, {Msg("ELECTION_OK", m.to, m.to, m.from)})
          /\ spawned' = [spawned EXCEPT ![m.to] = @ + 1]
    /\ UNCHANGED <<up, alive, masterOf, running, sent, armed, leftover, stale, expired,
                   claiming, redistributed, hasty, boundVars>>

\* Fault: the timer is stopped and running stays set.
HandleElectionOKOnlyStopsTimer(m) ==
    /\ m.type = "ELECTION_OK"
    /\ armed' = [armed EXCEPT ![m.to] = FALSE]
    /\ Reply(m, {})
    /\ UNCHANGED <<up, alive, masterOf, running, spawned, sent, leftover, stale, expired,
                   claiming, redistributed, hasty, boundVars>>

HandleElectionOK(m) ==
    /\ m.type = "ELECTION_OK"
    /\ running' = [running EXCEPT ![m.to] = FALSE]
    /\ armed' = [armed EXCEPT ![m.to] = FALSE]
    /\ Reply(m, {})
    /\ UNCHANGED <<up, alive, masterOf, spawned, sent, leftover, stale, expired,
                   claiming, redistributed, hasty, boundVars>>

\* Fault: a node gives way only to a node of higher priority.
HandleCoordinatorIfLower(m) ==
    /\ m.type = "COORDINATOR"
    /\ masterOf' = [masterOf EXCEPT ![m.to] = IF m.id < @ THEN m.id ELSE @]
    /\ Reply(m, {})
    /\ UNCHANGED <<up, alive, engineVars, redistributed, hasty, boundVars>>

\* The announcement that is handled last wins, whoever made it.
HandleCoordinator(m) ==
    /\ m.type = "COORDINATOR"
    /\ masterOf' = [masterOf EXCEPT ![m.to] = m.id]
    /\ Reply(m, {})
    /\ UNCHANGED <<up, alive, engineVars, redistributed, hasty, boundVars>>

-----------------------------------------------------------------------------
(* The reaction of the heartbeat to a death and to a return.               *)

\* declareDead, called when the third PING in a row has gone unanswered.
DeclareDead(n, k) ==
    /\ n \in up
    /\ k \in AlivePeers(n)
    /\ alive' = [alive EXCEPT ![n] = @ \ {k}]
    /\ \/ /\ masterOf[n] = k
          /\ spawned' = [spawned EXCEPT ![n] = @ + 1]
          /\ UNCHANGED <<net, redistributed>>
       \/ /\ masterOf[n] = n
          /\ redistributed' = redistributed \cup {k}
          /\ UNCHANGED <<spawned, net>>
       \/ /\ masterOf[n] \notin {k, n}
          /\ Send({Msg("NODE_DEAD", k, n, masterOf[n])})
          /\ UNCHANGED <<spawned, redistributed>>
    /\ UNCHANGED <<up, masterOf, running, sent, armed, leftover, stale, expired, claiming,
                   hasty, crashes, restarts>>

\* Three PINGs or their answers came too late.
SuspectLive(n, k) ==
    /\ k \in up
    /\ suspicions < MaxSuspicions
    /\ suspicions' = suspicions + 1
    /\ DeclareDead(n, k)

\* The dispatcher lets only the master redistribute.
HandleNodeDead(m) ==
    /\ m.type = "NODE_DEAD"
    /\ redistributed' = IF masterOf[m.to] = m.to THEN redistributed \cup {m.id} ELSE redistributed
    /\ Reply(m, {})
    /\ UNCHANGED <<up, alive, masterOf, engineVars, hasty, boundVars>>

\* A PONG arrives of a peer that was held dead.
BackAlive(n, k) ==
    /\ n \in up /\ k \in up
    /\ k \notin alive[n]
    /\ alive' = [alive EXCEPT ![n] = @ \cup {k}]
    /\ UNCHANGED <<up, masterOf, engineVars, net, redistributed, hasty, boundVars>>

-----------------------------------------------------------------------------
(* The environment.                                                        *)

\* The process of n stops: its engine and what was on its way to it are gone.
Crash(n) ==
    /\ n \in up
    /\ crashes < MaxCrashes
    /\ crashes' = crashes + 1
    /\ up' = up \ {n}
    /\ net' = [m \in {m \in DOMAIN net : m.to # n} |-> net[m]]
    /\ running' = [running EXCEPT ![n] = FALSE]
    /\ spawned' = [spawned EXCEPT ![n] = 0]
    /\ sent' = [sent EXCEPT ![n] = 0]
    /\ armed' = [armed EXCEPT ![n] = FALSE]
    /\ leftover' = [leftover EXCEPT ![n] = FALSE]
    /\ stale' = [stale EXCEPT ![n] = 0]
    /\ expired' = [expired EXCEPT ![n] = 0]
    /\ claiming' = [claiming EXCEPT ![n] = FALSE]
    /\ UNCHANGED <<alive, masterOf, redistributed, hasty, restarts, suspicions>>

Restart(n) ==
    /\ n \notin up
    /\ restarts < MaxRestarts
    /\ restarts' = restarts + 1
    /\ up' = up \cup {n}
    /\ alive' = [alive EXCEPT ![n] = Nodes]
    /\ masterOf' = [masterOf EXCEPT ![n] = InitialMaster]
    /\ claiming' = [claiming EXCEPT ![n] = n = InitialMaster]
    /\ UNCHANGED <<running, spawned, sent, armed, leftover, stale, expired, net,
                   redistributed, hasty, crashes, suspicions>>

-----------------------------------------------------------------------------
Handle(m) ==
    \/ HandleElection(m)
    \/ HandleElectionOK(m)
    \/ HandleCoordinator(m)
    \/ HandleNodeDead(m)

\* maxMissed pings go unanswered before a node is declared dead: by then what
\* it sent has been handled.
LastWordsAreIn(k) == \A m \in DOMAIN net : m.from # k

\* The initial master waits two seconds before it claims mastership: by then
\* every announcement made before has been handled.
NewsIsIn == \A m \in DOMAIN net : m.type # "COORDINATOR"

\* What a node does on its own, apart from what takes time.
Step(n) ==
    \/ StartElection(n)
    \/ ArmTimer(n)
    \/ DeclareVictory(n)
    \/ \E k \in up : BackAlive(n, k)

\* A round trip takes less than okTimeout: the timer of an election of n does
\* not expire while an answer to an ELECTION of n may still come.  A timer of
\* an earlier election may.
TimelyStep(n) ==
    \/ Step(n)
    \/ (leftover[n] \/ AnswersAreIn(n)) /\ OkTimerExpires(n)
    \/ StaleTimerExpires(n)
    \/ NewsIsIn /\ ClaimMastership(n)
    \/ \E k \in Nodes \ up : LastWordsAreIn(k) /\ DeclareDead(n, k) /\ UNCHANGED suspicions

Failures == \E n \in Nodes : Crash(n) \/ Restart(n)

\* Bound: there are wrong suspicions or crashes, not both.
TimelyNext ==
    \/ \E n \in Nodes : TimelyStep(n)
    \/ \E m \in DOMAIN net : Handle(m)
    \/ suspicions = 0 /\ Failures
    \/ crashes = 0 /\ \E n, k \in Nodes : SuspectLive(n, k)

\* The same with no bound on how long a message takes.
UntimelyStep(n) ==
    \/ Step(n)
    \/ OkTimerExpires(n)
    \/ StaleTimerExpires(n)
    \/ ClaimMastership(n)
    \/ \E k \in Nodes \ up : DeclareDead(n, k) /\ UNCHANGED suspicions
    \/ \E k \in Nodes : SuspectLive(n, k)

Next ==
    \/ \E n \in Nodes : UntimelyStep(n)
    \/ \E m \in DOMAIN net : Handle(m)
    \/ Failures

\* Messages are faster than timers, but for PINGs that make a node suspect one
\* that is up.
TimelySpec == Init /\ [][TimelyNext]_vars

\* What can happen without a further failure happens in the end.
FairTimelySpec ==
    /\ TimelySpec
    /\ \A n \in Nodes : WF_vars(TimelyStep(n))
    /\ WF_vars(\E m \in DOMAIN net : Handle(m))

\* Messages may be slower than any timer, and nodes that are up may be
\* declared dead.
Spec == Init /\ [][Next]_vars

-----------------------------------------------------------------------------
(* Properties.                                                             *)

\* The values the variables can have.
EngineTypeOK ==
    /\ up \subseteq Nodes
    /\ alive \in [Nodes -> SUBSET Nodes]
    /\ masterOf \in [Nodes -> Nodes]
    /\ running \in [Nodes -> BOOLEAN]
    /\ spawned \in [Nodes -> Nat]
    /\ sent \in [Nodes -> Nat]
    /\ armed \in [Nodes -> BOOLEAN]
    /\ leftover \in [Nodes -> BOOLEAN]
    /\ stale \in [Nodes -> Nat]
    /\ expired \in [Nodes -> Nat]
    /\ claiming \in [Nodes -> BOOLEAN]

TypeOK ==
    /\ EngineTypeOK
    /\ IsABag(net) /\ DOMAIN net \subseteq {m \in Message : m.to \in up}
    /\ redistributed \subseteq Nodes
    /\ hasty \subseteq Nodes
    /\ crashes \in 0..MaxCrashes
    /\ restarts \in 0..MaxRestarts
    /\ suspicions \in 0..MaxSuspicions

\* While running is set every StartElection of the node returns at once: it is
\* set only as long as a timer, its callback or a StartElection that has yet
\* to set its timer is there to end the election.  Otherwise the node would
\* never take part in an election again.
RunningHasTimer ==
    \A n \in Nodes : running[n] =>
        sent[n] > 0 \/ armed[n] \/ stale[n] > 0 \/ expired[n] > 0

\* Nothing is left to happen: every death and every return is known, and no
\* message, timer or goroutine is left.
Settled ==
    /\ net = EmptyBag
    /\ \A n \in up :
        /\ alive[n] = up
        /\ ~running[n] /\ ~armed[n] /\ ~claiming[n]
        /\ spawned[n] = 0 /\ sent[n] = 0 /\ stale[n] = 0 /\ expired[n] = 0

Lowest(S) == CHOOSE n \in S : \A k \in S : n <= k

LowestIsMaster == \A n \in up : masterOf[n] = Lowest(up)

\* "el nodo con menor ID tiene mayor prioridad y gana la eleccion"
\* (election.go:21): until a node comes back or is suspected wrongly, no other
\* of the nodes that are up announces itself.  A timer that outlives its election
\* (election.go:64-70, 145-148) breaks it.
OnlyLowestAnnounces ==
    restarts = 0 /\ suspicions = 0 =>
        \A m \in DOMAIN net :
            m.type = "COORDINATOR" /\ m.from \in up => m.from = Lowest(up)

\* What the engine keeps of it: of the nodes that are up another one announces
\* itself only if a timer of its own ended an election that was about to be
\* answered (election.go:69-76), whatever dies and in whatever order views,
\* answers and announcements arrive.
OnlyHastyAnnounce ==
    restarts = 0 /\ suspicions = 0 =>
        \A m \in DOMAIN net :
            m.type = "COORDINATOR" /\ m.from \in up =>
                m.from = Lowest(up) \/ m.from \in hasty

\* When the nodes have come to rest the one with the lowest id is master for
\* all of them, one that came back included
\* (TestMasterRecovery_OriginalMasterReclaims, election_test.go:204).
SettledOnLowest == Settled => LowestIsMaster

\* When the nodes have come to rest no node that is up takes a dead one for the
\* master.
SettledOnLive == Settled => \A n \in up : masterOf[n] \in up

\* "el maestro cayo - necesitamos elegir uno nuevo" (heartbeat.go:158): after one
\* death the nodes come to rest on a master that is up, although a timer left of
\* one election may end another and two nodes may announce themselves; on the
\* lowest of them if no timer ended an election that was about to be answered.
RestAfterOneDeath ==
    restarts = 0 /\ suspicions = 0 /\ crashes <= 1 =>
        SettledOnLive /\ (hasty = {} => SettledOnLowest)

\* In the end the master of every node that is up is a node that is up, also
\* when a node crashed and came back at any point of an election, and when a
\* master that is up was taken for dead.
EventuallyLive == <>[](\A n \in up : masterOf[n] \in up)

\* "OnNodeDead se llama cuando un nodo es declarado muerto, se usa para
\* redistribuir los tickets del nodo caido" (heartbeat.go:47-48): when the
\* nodes have come to rest some master has begun to redistribute the tickets
\* of every dead node.
DeadAreRedistributed == Settled => Nodes \ up \subseteq redistributed
=============================================================================
