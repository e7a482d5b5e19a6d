----------------------------- MODULE Consensus ------------------------------
(***************************************************************************)
(* The proposals of internal/consensus: Propose asks the peers it believes *)
(* alive for votes, commits when a majority of ALL nodes voted yes, and    *)
(* tries again with a new round when it fails.  Every node votes yes.  A   *)
(* call is one invocation of Propose, with its operation and data; a round *)
(* is one attempt of a call and has a fresh uuid.  COMMIT goes to the      *)
(* peers one at a time, and only then the proposer applies it itself; its  *)
(* process may stop at any point.                                          *)
(***************************************************************************)
EXTENDS Naturals, FiniteSets

CONSTANTS
    Nodes,
    Calls,         \* invocations of Propose
    Caller,        \* the node each call runs on
    Rounds,        \* round identifiers (uuid)
    NoRound,       \* a call that has not drawn a round
    MaxAttempts,   \* proposeMaxRetries
    Failing        \* the calls whose commit handler may return an error at the caller

ASSUME NodesAssumption == IsFiniteSet(Nodes)
ASSUME CallerAssumption == Caller \in [Calls -> Nodes]
ASSUME RoundAssumption == NoRound \notin Rounds
ASSUME AttemptsAssumption == MaxAttempts \in Nat \ {0}
ASSUME FailingAssumption == Failing \subseteq Calls

VARIABLES
    alive,      \* State.alive of each node, as the set of nodes it holds alive
    pc,         \* where each call is
    attempt,    \* the attempt each call is at
    round,      \* the round of each call's current attempt
    peers,      \* the peers of the running attempt; in commit those yet to be sent COMMIT
    rounds,     \* the keys of Engine.rounds, of all nodes
    yes,        \* round.yes
    done,       \* whether the channel round.done holds a result
    net,        \* messages sent and not yet handled
    applied,    \* the commits each node has applied
    used,       \* rounds already drawn
    counted     \* history: the peers whose vote was counted in a round

roundVars == <<rounds, yes, done, counted>>
callVars == <<pc, attempt, round, peers, used>>
vars == <<alive, callVars, roundVars, net, applied>>

Commit == [call : Calls, round : Rounds]

Message == [type : {"PROPOSE", "VOTE_YES", "COMMIT"},
            call : Calls, round : Rounds, from : Nodes, to : Nodes]

Msg(type, c, r, from, to) ==
    [type |-> type, call |-> c, round |-> r, from |-> from, to |-> to]

Broadcast(type, c, r, to) == {Msg(type, c, r, Caller[c], p) : p \in to}

\* propose: quorum of all nodes, the proposer among them.
Needed == Cardinality(Nodes) \div 2 + 1

\* idle; propose: about to run an attempt; selfVote: PROPOSE broadcast, own
\* vote not yet counted; vote: waits on round.done; commit: in doCommit; ok,
\* error: returned; gone, cut: its process stopped, cut if it was in doCommit.
Locations == {"idle", "propose", "selfVote", "vote", "commit", "ok", "error", "gone", "cut"}

Init ==
    /\ alive = [n \in Nodes |-> Nodes]
    /\ pc = [c \in Calls |-> "idle"]
    /\ attempt = [c \in Calls |-> 0]
    /\ round = [c \in Calls |-> NoRound]
    /\ peers = [c \in Calls |-> {}]
    /\ rounds = {}
    /\ yes = [r \in Rounds |-> 0]
    /\ done = [r \in Rounds |-> FALSE]
    /\ net = {}
    /\ applied = [n \in Nodes |-> {}]
    /\ used = {}
    /\ counted = [r \in Rounds |-> {}]

-----------------------------------------------------------------------------
(* The proposer.                                                           *)

\* The attempt returned an error: its round is deleted, and Propose sleeps
\* and tries again or gives up.
AttemptFails(c) ==
    /\ rounds' = rounds \ {round[c]}
    /\ \/ /\ attempt[c] < MaxAttempts
          /\ pc' = [pc EXCEPT ![c] = "propose"]
          /\ attempt' = [attempt EXCEPT ![c] = @ + 1]
       \/ /\ attempt[c] = MaxAttempts
          /\ pc' = [pc EXCEPT ![c] = "error"]
          /\ UNCHANGED attempt

\* doCommit is entered: nothing is sent yet.
Committed(c) ==
    /\ pc' = [pc EXCEPT ![c] = "commit"]
    /\ UNCHANGED <<attempt, rounds, net, applied>>

\* Fault: a COMMIT that cannot be sent is the error of the attempt.
SendCommitOrFail(c, p) ==
    /\ pc[c] = "commit"
    /\ p \in peers[c]
    /\ \/ /\ peers' = [peers EXCEPT ![c] = @ \ {p}]
          /\ net' = net \cup Broadcast("COMMIT", c, round[c], {p})
          /\ UNCHANGED <<pc, attempt, rounds>>
       \/ /\ AttemptFails(c)
          /\ peers' = [peers EXCEPT ![c] = {}]
          /\ UNCHANGED net
    /\ UNCHANGED <<alive, round, used, yes, done, counted, applied>>

\* doCommit, the broadcast: COMMIT to one more of the peers of the attempt.
SendCommit(c, p) ==
    /\ pc[c] = "commit"
    /\ p \in peers[c]
    /\ peers' = [peers EXCEPT ![c] = @ \ {p}]
    /\ net' = net \cup Broadcast("COMMIT", c, round[c], {p})
    /\ UNCHANGED <<alive, pc, attempt, round, used, roundVars, applied>>

\* doCommit after the broadcast: the own commit handler, whose error is the
\* error of the attempt.
DoCommit(c) ==
    /\ pc[c] = "commit"
    /\ peers[c] = {}
    /\ \/ /\ applied' = [applied EXCEPT ![Caller[c]] =
                            @ \cup {[call |-> c, round |-> round[c]]}]
          /\ rounds' = rounds \ {round[c]}
          /\ pc' = [pc EXCEPT ![c] = "ok"]
          /\ UNCHANGED attempt
       \/ /\ c \in Failing
          /\ AttemptFails(c)
          /\ UNCHANGED applied
    /\ UNCHANGED <<alive, round, peers, used, yes, done, net, counted>>

Propose(c) ==
    /\ pc[c] = "idle"
    /\ pc' = [pc EXCEPT ![c] = "propose"]
    /\ attempt' = [attempt EXCEPT ![c] = 1]
    /\ UNCHANGED <<alive, round, peers, used, roundVars, net, applied>>

\* Fault: a retry goes on with the round it had.
StartRoundAgain(c, r) ==
    /\ pc[c] = "propose"
    /\ r \in Rounds \ used \/ r = round[c]
    /\ used' = used \cup {r}
    /\ round' = [round EXCEPT ![c] = r]
    /\ peers' = [peers EXCEPT ![c] = alive[Caller[c]] \ {Caller[c]}]
    /\ rounds' = rounds \cup {r}
    /\ net' = net \cup Broadcast("PROPOSE", c, r, peers'[c])
    /\ pc' = [pc EXCEPT ![c] = "selfVote"]
    /\ UNCHANGED <<alive, attempt, yes, done, applied, counted>>

\* propose up to and including BroadcastJSON of PROPOSE.
StartRound(c, r) ==
    /\ pc[c] = "propose"
    /\ r \in Rounds \ used
    /\ used' = used \cup {r}
    /\ round' = [round EXCEPT ![c] = r]
    /\ peers' = [peers EXCEPT ![c] = alive[Caller[c]] \ {Caller[c]}]
    /\ rounds' = rounds \cup {r}
    /\ net' = net \cup Broadcast("PROPOSE", c, r, peers'[c])
    /\ pc' = [pc EXCEPT ![c] = "selfVote"]
    /\ UNCHANGED <<alive, attempt, yes, done, applied, counted>>

\* Votes of peers may have been counted before the proposer's own.
SelfVote(c) ==
    /\ pc[c] = "selfVote"
    /\ yes' = [yes EXCEPT ![round[c]] = @ + 1]
    /\ \/ /\ yes[round[c]] + 1 >= Needed
          /\ Committed(c)
       \/ /\ yes[round[c]] + 1 < Needed
          /\ pc' = [pc EXCEPT ![c] = "vote"]
          /\ UNCHANGED <<attempt, rounds, net, applied>>
    /\ UNCHANGED <<alive, round, peers, used, done, counted>>

Decide(c) ==
    /\ pc[c] = "vote"
    /\ done[round[c]]
    /\ done' = [done EXCEPT ![round[c]] = FALSE]
    /\ Committed(c)
    /\ UNCHANGED <<alive, round, peers, used, yes, counted>>

\* Fault: a round that timed out is tried once too often.
VoteTimeoutForgets(c) ==
    /\ pc[c] = "vote"
    /\ rounds' = rounds \ {round[c]}
    /\ pc' = [pc EXCEPT ![c] = "propose"]
    /\ attempt' = [attempt EXCEPT ![c] = @ + 1]
    /\ peers' = [peers EXCEPT ![c] = {}]
    /\ UNCHANGED <<alive, round, used, yes, done, net, applied, counted>>

VoteTimeout(c) ==
    /\ pc[c] = "vote"
    /\ AttemptFails(c)
    /\ peers' = [peers EXCEPT ![c] = {}]
    /\ UNCHANGED <<alive, round, used, yes, done, net, applied, counted>>

-----------------------------------------------------------------------------
(* The handlers.                                                           *)

HandlePropose(m) ==
    /\ m.type = "PROPOSE"
    /\ net' = (net \ {m}) \cup {Msg("VOTE_YES", m.call, m.round, m.to, m.from)}
    /\ UNCHANGED <<alive, callVars, roundVars, applied>>

\* The channel has room for one result; a further one is dropped.
HandleVote(m) ==
    /\ m.type = "VOTE_YES"
    /\ \/ /\ m.round \in rounds
          /\ yes' = [yes EXCEPT ![m.round] = @ + 1]
          /\ done' = [done EXCEPT ![m.round] = @ \/ yes'[m.round] >= Needed]
          /\ counted' = [counted EXCEPT ![m.round] = @ \cup {m.from}]
       \/ /\ m.round \notin rounds
          /\ UNCHANGED <<yes, done, counted>>
    /\ net' = net \ {m}
    /\ UNCHANGED <<alive, callVars, rounds, applied>>

HandleCommit(m) ==
    /\ m.type = "COMMIT"
    /\ applied' = [applied EXCEPT ![m.to] = @ \cup {[call |-> m.call, round |-> m.round]}]
    /\ net' = net \ {m}
    /\ UNCHANGED <<alive, callVars, roundVars>>

-----------------------------------------------------------------------------
(* The environment.                                                        *)

\* A send whose error is ignored, a connection that breaks, a commit handler
\* of a peer whose error is only logged.
Lose(m) ==
    /\ net' = net \ {m}
    /\ UNCHANGED <<alive, callVars, roundVars, applied>>

\* Where a call is when its process has stopped.
Stopped(l) ==
    CASE l \in {"propose", "selfVote", "vote"} -> "gone"
      [] l = "commit" -> "cut"
      [] OTHER -> l

\* The process of n stops and starts again: its calls end where they are and
\* nobody retries them, its rounds are forgotten, what it applied is on disk.
\* Messages to it wait or are lost; it may take none for ever.
Crash(n) ==
    /\ pc' = [c \in Calls |-> IF Caller[c] = n THEN Stopped(pc[c]) ELSE pc[c]]
    /\ peers' = [c \in Calls |-> IF Caller[c] = n THEN {} ELSE peers[c]]
    /\ rounds' = rounds \ {round[c] : c \in {d \in Calls : Caller[d] = n}}
    /\ alive' = [alive EXCEPT ![n] = Nodes]
    /\ UNCHANGED <<attempt, round, used, yes, done, counted, net, applied>>

\* The heartbeat of n changes its mind about k (MarkDead, MarkAlive).
AliveChange(n, k) ==
    /\ n # k
    /\ alive' = [alive EXCEPT ![n] = IF k \in @ THEN @ \ {k} ELSE @ \cup {k}]
    /\ UNCHANGED <<callVars, roundVars, net, applied>>

-----------------------------------------------------------------------------
Advance(c) ==
    \/ Propose(c)
    \/ \E r \in Rounds : StartRound(c, r)
    \/ SelfVote(c)
    \/ Decide(c)
    \/ \E p \in Nodes : SendCommit(c, p)
    \/ DoCommit(c)

Handle(m) == HandlePropose(m) \/ HandleVote(m) \/ HandleCommit(m)

TimelyNext ==
    \/ \E c \in Calls : Advance(c)
    \/ \E m \in net : Handle(m)

\* An alive set is read when a call is about to start a round and never else:
\* a change of mind before may as well come then.  What is lost when a node
\* stops that does not propose is messages.
Next ==
    \/ TimelyNext
    \/ \E c \in Calls : VoteTimeout(c)
    \/ \E m \in net : Lose(m)
    \/ \E c \in Calls, k \in Nodes : pc[c] = "propose" /\ AliveChange(Caller[c], k)
    \/ \E c \in Calls : Crash(Caller[c])

Spec == Init /\ [][Next]_vars

\* Every node is alive, stays so and is known to be, no message is lost, and the votes are
\* back before voteTimeout.
TimelySpec ==
    /\ Init /\ [][TimelyNext]_vars
    /\ \A c \in Calls : WF_vars(Advance(c))
    /\ WF_vars(\E m \in net : Handle(m))

-----------------------------------------------------------------------------
(* Properties.                                                             *)

\* The values the variables can have.
TypeOK ==
    /\ alive \in [Nodes -> SUBSET Nodes]
    /\ pc \in [Calls -> Locations]
    /\ attempt \in [Calls -> 0..MaxAttempts]
    /\ round \in [Calls -> Rounds \cup {NoRound}]
    /\ peers \in [Calls -> SUBSET Nodes]
    /\ rounds \subseteq Rounds
    /\ yes \in [Rounds -> Nat]
    /\ done \in [Rounds -> BOOLEAN]
    /\ net \subseteq Message
    /\ applied \in [Nodes -> SUBSET Commit]
    /\ used \subseteq Rounds
    /\ counted \in [Rounds -> SUBSET Nodes]
    /\ \A c \in Calls : pc[c] \in {"selfVote", "vote", "commit", "ok", "cut"} => round[c] \in Rounds

\* The proposer and the peers whose votes were counted are a majority.
HasQuorum(c, r) ==
    2 * Cardinality(counted[r] \cup {Caller[c]}) > Cardinality(Nodes)

\* Nothing is committed, and no COMMIT is sent, without votes from a majority
\* of all nodes: a count of votes is a count of different nodes, and the
\* votes of a round are never those of an earlier attempt.
CommitHasQuorum ==
    /\ \A m \in net : m.type = "COMMIT" => HasQuorum(m.call, m.round)
    /\ \A n \in Nodes : \A e \in applied[n] : HasQuorum(e.call, e.round)

\* With every node up and no message late, what is proposed is applied by
\* every node.
EveryNodeApplies ==
    \A c \in Calls : pc[c] = "propose" ~> \A n \in Nodes : \E e \in applied[n] : e.call = c

Outcome(c) ==
    CASE pc[c] \in {"commit", "cut"} -> "committed"
      [] pc[c] = "ok" -> "returned"
      [] pc[c] \in {"error", "gone"} -> "aborted"
      [] OTHER -> "pending"

Abstract == INSTANCE AtomicCommit WITH
    Calls <- Calls \ Failing,
    outcome <- [c \in Calls \ Failing |-> Outcome(c)],
    applied <- [n \in Nodes |-> {e.call : e \in applied[n]} \ Failing]

\* Of the calls whose own commit handler does not fail: one that returned an
\* error, or stopped with its process before doCommit, is applied nowhere, not
\* even later; one that returned nil was applied by its proposer first; and
\* once doCommit is entered the call never returns an error, whatever is lost
\* and whoever stops (consensus.go:64-149).
ImplementsAtomicCommit == Abstract!Spec
=============================================================================
