----------------------------- MODULE Heartbeat ------------------------------
(***************************************************************************)
(* Failure detection (internal/heartbeat).  Every node pings every peer;   *)
(* after maxMissed pings without an answer it declares the peer dead.  The *)
(* pings of different peers share no state, so the module follows those of *)
(* one peer, target, which may be the master or another node.              *)
(*                                                                         *)
(* A tick of Run starts a goroutine pingOne however many still run.  PING  *)
(* and PONG carry nothing that tells two of them apart: they are counted.  *)
(***************************************************************************)
EXTENDS Naturals, FiniteSets

CONSTANTS
    Nodes,
    Master,         \* the master, for all nodes; Election has its changes
    Goroutines,     \* bound: goroutines pingOne that a node runs at once
    NoGoroutine,    \* no channel is registered
    MaxMissed,      \* maxMissed
    MaxUnderWay,    \* bound: PINGs, and PONGs, of one node under way
    MaxCrashes,     \* bound: crashes in a behaviour
    MaxRestarts     \* bound: restarts in a behaviour

ASSUME MasterAssumption == Master \in Nodes
ASSUME GoroutinesAssumption == NoGoroutine \notin Goroutines
ASSUME BoundsAssumption ==
    /\ MaxMissed \in Nat \ {0} /\ MaxUnderWay \in Nat \ {0}
    /\ MaxCrashes \in Nat /\ MaxRestarts \in Nat

VARIABLES
    target,     \* the peer whose heartbeat is followed
    up,         \* the nodes whose process runs
    alive,      \* State.alive[target] of each node
    missed,     \* Monitor.missed[target] of each node, up to MaxMissed
    inFlight,   \* Monitor.inFlight[target] of each node
    pongCh,     \* whose channel Monitor.pongChs[target] of each node is
    at,         \* where each goroutine of each node is
    token,      \* whether the channel of each goroutine holds a token
    pings,      \* PINGs of each node to target not yet handled
    pongs,      \* PONGs of target to each node not yet handled
    reactions,  \* history: reactions since the node last held target alive
    nodeDead,   \* nodes whose NODE_DEAD the master has not yet handled
    begun,      \* history: nodes whose report made the master redistribute
    crashes, restarts

monitorVars == <<alive, missed, inFlight, pongCh, at, token, reactions>>
netVars == <<pings, pongs, nodeDead>>
boundVars == <<crashes, restarts>>
vars == <<target, up, monitorVars, netVars, begun, boundVars>>

(***************************************************************************)
(* idle     no goroutine                                                   *)
(* send     inFlight is set                                                *)
(* wait     PING was sent; blocked in the select                           *)
(* revive   got the PONG, missed is reset, MarkAlive not yet called        *)
(* declare  in declareDead, IsAlive not yet asked                          *)
(* kill     IsAlive was true, MarkDead not yet called                      *)
(* react    MarkDead was called                                            *)
(* clean    about to give up its channel and inFlight                      *)
(***************************************************************************)
Locations == {"idle", "send", "wait", "revive", "declare", "kill", "react", "clean"}

Monitors == Nodes \ {target}

Init ==
    /\ target \in Nodes
    /\ up = Nodes
    /\ alive = [n \in Nodes |-> TRUE]
    /\ missed = [n \in Nodes |-> 0]
    /\ inFlight = [n \in Nodes |-> FALSE]
    /\ pongCh = [n \in Nodes |-> NoGoroutine]
    /\ at = [n \in Nodes |-> [i \in Goroutines |-> "idle"]]
    /\ token = [n \in Nodes |-> [i \in Goroutines |-> FALSE]]
    /\ pings = [n \in Nodes |-> 0]
    /\ pongs = [n \in Nodes |-> 0]
    /\ reactions = [n \in Nodes |-> 0]
    /\ nodeDead = {}
    /\ begun = {}
    /\ crashes = 0 /\ restarts = 0

-----------------------------------------------------------------------------
(* pingOne, run by goroutine i of node n.                                  *)

Goto(n, i, loc) == at' = [at EXCEPT ![n][i] = loc]

\* Fault: a second goroutine pings while the first waits.
PingAnyway(n, i) ==
    /\ at[n][i] = "idle"
    /\ inFlight' = [inFlight EXCEPT ![n] = TRUE]
    /\ Goto(n, i, "send")
    /\ UNCHANGED <<target, up, alive, missed, pongCh, token, reactions, netVars, begun, boundVars>>

\* A goroutine of a later tick that finds inFlight set returns.
Ping(n, i) ==
    /\ at[n][i] = "idle"
    /\ ~inFlight[n]
    /\ inFlight' = [inFlight EXCEPT ![n] = TRUE]
    /\ Goto(n, i, "send")
    /\ UNCHANGED <<target, up, alive, missed, pongCh, token, reactions, netVars, begun, boundVars>>

\* The channel is registered and PING sent; an error of Send is ignored.
Send(n, i) ==
    /\ at[n][i] = "send"
    /\ pongCh' = [pongCh EXCEPT ![n] = i]
    /\ \/ /\ target \in up /\ pings[n] < MaxUnderWay
          /\ pings' = [pings EXCEPT ![n] = @ + 1]
       \/ UNCHANGED pings
    /\ Goto(n, i, "wait")
    /\ UNCHANGED <<target, up, alive, missed, inFlight, token, reactions, pongs, nodeDead,
                   begun, boundVars>>

\* Fault: missed is not reset, so that single failures add up.
PongArrivesKeepsCount(n, i) ==
    /\ at[n][i] = "wait" /\ token[n][i]
    /\ token' = [token EXCEPT ![n][i] = FALSE]
    /\ Goto(n, i, "revive")
    /\ UNCHANGED <<target, up, alive, missed, inFlight, pongCh, reactions, netVars, begun,
                   boundVars>>

PongArrives(n, i) ==
    /\ at[n][i] = "wait" /\ token[n][i]
    /\ token' = [token EXCEPT ![n][i] = FALSE]
    /\ missed' = [missed EXCEPT ![n] = 0]
    /\ Goto(n, i, "revive")
    /\ UNCHANGED <<target, up, alive, inFlight, pongCh, reactions, netVars, begun, boundVars>>

MarkAlive(n, i) ==
    /\ at[n][i] = "revive"
    /\ alive' = [alive EXCEPT ![n] = TRUE]
    /\ reactions' = [reactions EXCEPT ![n] = 0]
    /\ Goto(n, i, "clean")
    /\ UNCHANGED <<target, up, missed, inFlight, pongCh, token, netVars, begun, boundVars>>

\* Fault: a single failure returns early, and inFlight stays set.
PongWaitExpiresReturns(n, i) ==
    /\ at[n][i] = "wait"
    /\ missed' = [missed EXCEPT ![n] = IF @ + 1 < MaxMissed THEN @ + 1 ELSE MaxMissed]
    /\ Goto(n, i, IF missed[n] + 1 >= MaxMissed THEN "declare" ELSE "idle")
    /\ UNCHANGED <<target, up, alive, inFlight, pongCh, token, reactions, netVars, begun,
                   boundVars>>

\* After pongWait.  The select may choose the timer although a token is there.
PongWaitExpires(n, i) ==
    /\ at[n][i] = "wait"
    /\ LET count == missed[n] + 1 IN
        /\ missed' = [missed EXCEPT ![n] = IF count < MaxMissed THEN count ELSE MaxMissed]
        /\ Goto(n, i, IF count >= MaxMissed THEN "declare" ELSE "clean")
    /\ UNCHANGED <<target, up, alive, inFlight, pongCh, token, reactions, netVars, begun,
                   boundVars>>

\* Fault: a peer that is dead already is declared dead again.
AskAliveNot(n, i) ==
    /\ at[n][i] = "declare"
    /\ Goto(n, i, "kill")
    /\ UNCHANGED <<target, up, alive, missed, inFlight, pongCh, token, reactions, netVars,
                   begun, boundVars>>

AskAlive(n, i) ==
    /\ at[n][i] = "declare"
    /\ Goto(n, i, IF alive[n] THEN "kill" ELSE "clean")
    /\ UNCHANGED <<target, up, alive, missed, inFlight, pongCh, token, reactions, netVars,
                   begun, boundVars>>

MarkDead(n, i) ==
    /\ at[n][i] = "kill"
    /\ alive' = [alive EXCEPT ![n] = FALSE]
    /\ Goto(n, i, "react")
    /\ UNCHANGED <<target, up, missed, inFlight, pongCh, token, reactions, netVars, begun,
                   boundVars>>

\* Fault: the death of the master is reported to the master.
ReactReportsMaster(n, i) ==
    /\ at[n][i] = "react"
    /\ reactions' = [reactions EXCEPT ![n] = @ + 1]
    /\ IF n = Master
       THEN begun' = begun \cup {n} /\ UNCHANGED nodeDead
       ELSE nodeDead' = nodeDead \cup {n} /\ UNCHANGED begun
    /\ Goto(n, i, "clean")
    /\ UNCHANGED <<target, up, alive, missed, inFlight, pongCh, token, pings, pongs, boundVars>>

\* Fault: a node that is master leaves the redistribution to the others.
ReactOnlyReports(n, i) ==
    /\ at[n][i] = "react"
    /\ reactions' = [reactions EXCEPT ![n] = @ + 1]
    /\ \/ Master \notin {n, target} /\ Master \in up /\ nodeDead' = nodeDead \cup {n}
       \/ UNCHANGED nodeDead
    /\ Goto(n, i, "clean")
    /\ UNCHANGED <<target, up, alive, missed, inFlight, pongCh, token, pings, pongs, begun,
                   boundVars>>

\* The rest of declareDead: an election (which Election models), the
\* redistribution, or a NODE_DEAD, whose send may fail.
React(n, i) ==
    /\ at[n][i] = "react"
    /\ reactions' = [reactions EXCEPT ![n] = @ + 1]
    /\ \/ /\ target = Master
          /\ UNCHANGED <<begun, nodeDead>>
       \/ /\ target # Master /\ n = Master
          /\ begun' = begun \cup {n}
          /\ UNCHANGED nodeDead
       \/ /\ Master \notin {n, target}
          /\ \/ Master \in up /\ nodeDead' = nodeDead \cup {n}
             \/ UNCHANGED nodeDead
          /\ UNCHANGED begun
    /\ Goto(n, i, "clean")
    /\ UNCHANGED <<target, up, alive, missed, inFlight, pongCh, token, pings, pongs, boundVars>>

\* The channel is unregistered and garbage, and the deferred function clears
\* inFlight.
Clean(n, i) ==
    /\ at[n][i] = "clean"
    /\ pongCh' = [pongCh EXCEPT ![n] = NoGoroutine]
    /\ token' = [token EXCEPT ![n][i] = FALSE]
    /\ inFlight' = [inFlight EXCEPT ![n] = FALSE]
    /\ Goto(n, i, "idle")
    /\ UNCHANGED <<target, up, alive, missed, reactions, netVars, begun, boundVars>>

-----------------------------------------------------------------------------
(* The handlers.                                                           *)

\* Target answers the PING of n; its Send may fail.
HandlePing(n) ==
    /\ target \in up /\ pings[n] > 0
    /\ pings' = [pings EXCEPT ![n] = @ - 1]
    /\ \/ /\ n \in up /\ pongs[n] < MaxUnderWay
          /\ pongs' = [pongs EXCEPT ![n] = @ + 1]
       \/ UNCHANGED pongs
    /\ UNCHANGED <<target, up, monitorVars, nodeDead, begun, boundVars>>

\* Any PONG answers the ping that waits, and none is kept for a later one.
HandlePong(n) ==
    /\ n \in up /\ pongs[n] > 0
    /\ pongs' = [pongs EXCEPT ![n] = @ - 1]
    /\ \/ /\ pongCh[n] \in Goroutines
          /\ token' = [token EXCEPT ![n][pongCh[n]] = TRUE]
       \/ /\ pongCh[n] = NoGoroutine
          /\ UNCHANGED token
    /\ UNCHANGED <<target, up, alive, missed, inFlight, pongCh, at, reactions, pings, nodeDead,
                   begun, boundVars>>

\* The dispatcher of the master.
HandleNodeDead(n) ==
    /\ Master \in up /\ n \in nodeDead
    /\ nodeDead' = nodeDead \ {n}
    /\ begun' = begun \cup {n}
    /\ UNCHANGED <<target, up, monitorVars, pings, pongs, boundVars>>

-----------------------------------------------------------------------------
(* The environment.                                                        *)

\* The process of n stops, and what was on its way to it is gone.
Crash(n) ==
    /\ n \in up
    /\ crashes < MaxCrashes
    /\ crashes' = crashes + 1
    /\ up' = up \ {n}
    /\ at' = [at EXCEPT ![n] = [i \in Goroutines |-> "idle"]]
    /\ token' = [token EXCEPT ![n] = [i \in Goroutines |-> FALSE]]
    /\ pongCh' = [pongCh EXCEPT ![n] = NoGoroutine]
    /\ inFlight' = [inFlight EXCEPT ![n] = FALSE]
    /\ pings' = [k \in Nodes |-> IF n = target THEN 0 ELSE pings[k]]
    /\ pongs' = [pongs EXCEPT ![n] = 0]
    /\ nodeDead' = IF n = Master THEN {} ELSE nodeDead
    /\ UNCHANGED <<target, alive, missed, reactions, begun, restarts>>

Restart(n) ==
    /\ n \notin up
    /\ restarts < MaxRestarts
    /\ restarts' = restarts + 1
    /\ up' = up \cup {n}
    /\ alive' = [alive EXCEPT ![n] = TRUE]
    /\ missed' = [missed EXCEPT ![n] = 0]
    /\ reactions' = [reactions EXCEPT ![n] = 0]
    /\ UNCHANGED <<target, inFlight, pongCh, at, token, netVars, begun, crashes>>

-----------------------------------------------------------------------------
\* What a goroutine does between two ticks.
Run(n, i) ==
    \/ Send(n, i)
    \/ PongArrives(n, i)
    \/ MarkAlive(n, i)
    \/ PongWaitExpires(n, i)
    \/ AskAlive(n, i)
    \/ MarkDead(n, i)
    \/ React(n, i)
    \/ Clean(n, i)

\* A tick starts a goroutine; which of those that do not run is the same.
Tick(n) ==
    LET resting == {i \in Goroutines : at[n][i] = "idle"}
    IN  resting # {} /\ Ping(n, CHOOSE i \in resting : TRUE)

Handle == \E n \in Nodes : HandlePing(n) \/ HandlePong(n) \/ HandleNodeDead(n)

Next ==
    \/ \E n \in Monitors \cap up : Tick(n) \/ \E i \in Goroutines : Run(n, i)
    \/ Handle
    \/ \E n \in Nodes : Crash(n) \/ Restart(n)

Spec == Init /\ [][Next]_vars

\* The ticker of a node that is up ticks, some goroutine of it goes on, and
\* messages are handled; nothing is assumed of how long any of it takes.
FairSpec ==
    /\ Spec
    /\ \A n \in Nodes :
        /\ WF_vars(n \in Monitors \cap up /\ Tick(n))
        /\ WF_vars(n \in Monitors \cap up /\ \E i \in Goroutines : Run(n, i))
    /\ WF_vars(Handle)

-----------------------------------------------------------------------------
(* Properties.                                                             *)

\* The values the variables can have; the master is never told of its own
\* death.
TypeOK ==
    /\ target \in Nodes /\ up \subseteq Nodes
    /\ alive \in [Nodes -> BOOLEAN]
    /\ missed \in [Nodes -> 0..MaxMissed]
    /\ inFlight \in [Nodes -> BOOLEAN]
    /\ pongCh \in [Nodes -> Goroutines \cup {NoGoroutine}]
    /\ at \in [Nodes -> [Goroutines -> Locations]]
    /\ token \in [Nodes -> [Goroutines -> BOOLEAN]]
    /\ pings \in [Nodes -> 0..MaxUnderWay] /\ pongs \in [Nodes -> 0..MaxUnderWay]
    /\ reactions \in [Nodes -> Nat]
    /\ nodeDead \subseteq (Nodes \ {Master, target})
    /\ target = Master => nodeDead = {}
    /\ begun \subseteq Nodes
    /\ crashes \in 0..MaxCrashes /\ restarts \in 0..MaxRestarts

\* "inFlight evita lanzar un segundo ping a un peer que aun no ha respondido"
\* (heartbeat.go:44): a goroutine that waits can be reached by a PONG, for no
\* other has replaced or deleted its channel.
WaiterIsReachable ==
    \A n \in Nodes, i \in Goroutines : at[n][i] = "wait" => pongCh[n] = i

\* "ya estaba declarado muerto, evitamos duplicar acciones" (heartbeat.go:146):
\* although IsAlive and MarkDead are two steps, a node reacts once to a death,
\* and to none while it holds target alive.
OneReaction ==
    \A n \in up :
        \/ reactions[n] = IF alive[n] THEN 0 ELSE 1
        \/ \E i \in Goroutines : at[n][i] = "react" /\ reactions[n] = 0

\* Between pings a peer is held alive exactly if fewer than maxMissed pings in
\* a row have failed, though the count and the view are under two mutexes.
ViewMatchesCount ==
    \A n \in up :
        (\A i \in Goroutines : at[n][i] \in {"idle", "send", "wait", "clean"})
            => (alive[n] <=> missed[n] < MaxMissed)

\* Every node that stays up notices in the end that target stays down, however
\* many PONGs were still under way.
DeathIsNoticed ==
    \A n \in Nodes :
        <>[](n \in Monitors \cap up /\ target \notin up) => <>[](~alive[n])

\* In the end the master redistributes the tickets of a node that stays down,
\* even if every NODE_DEAD is lost.
DeathIsRedistributed ==
    <>[](target # Master /\ target \notin up /\ Master \in up) => <>(begun # {})
=============================================================================
