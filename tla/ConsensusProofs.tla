--------------------------- MODULE ConsensusProofs ---------------------------
(***************************************************************************)
(* A count of votes is a count of different nodes, and a call whose own    *)
(* commit handler does not fail is decided once: proofs about Consensus    *)
(* for any number of nodes, calls, rounds and attempts, whatever messages  *)
(* are lost or late, whoever is held alive and whichever process stops.    *)
(***************************************************************************)
EXTENDS Consensus, FiniteSetTheorems, TLAPS

-----------------------------------------------------------------------------
(* The inductive invariant.                                                *)

\* A round is open between the broadcast of PROPOSE and the end of the attempt.
Open(c) == pc[c] \in {"selfVote", "vote"}

\* What a message about votes is about: the vote of this peer.
Voter(m) == IF m.type = "PROPOSE" THEN m.to ELSE m.from

VoteMessages == {m \in net : m.type # "COMMIT"}

\* The uuid of a round that was not drawn is nowhere.
FreshRounds ==
    \A r \in Rounds \ used :
        /\ yes[r] = 0 /\ ~done[r] /\ counted[r] = {}
        /\ \A m \in VoteMessages : m.round # r
        /\ \A c \in Calls : round[c] # r

\* Two calls never share a round, and who is asked in a round votes for its call.
RoundsApart ==
    /\ \A c, d \in Calls : round[c] = round[d] /\ round[c] # NoRound => c = d
    /\ \A c \in Calls : \A m \in VoteMessages : m.round = round[c] => m.call = c

\* A peer is asked at most once in a round: its vote is on its way, or to
\* come, or counted; and the proposer does not ask itself.
OneVoteEach ==
    /\ \A m \in VoteMessages : Voter(m) \notin counted[m.round] /\ Voter(m) # Caller[m.call]
    /\ \A m, k \in VoteMessages : m.round = k.round /\ Voter(m) = Voter(k) => m = k

\* In an open round yes is the number of peers counted, and one for the
\* proposer once it voted; done says that they are enough.
VotesCounted ==
    \A c \in Calls : Open(c) =>
        /\ Caller[c] \notin counted[round[c]]
        /\ yes[round[c]] =
              Cardinality(counted[round[c]]) + (IF pc[c] = "vote" THEN 1 ELSE 0)
        /\ done[round[c]] => yes[round[c]] >= Needed

\* Who is in doCommit has the votes of a majority.
EnteredWithQuorum == \A c \in Calls : pc[c] = "commit" => HasQuorum(c, round[c])

IInv ==
    /\ TypeOK
    /\ FreshRounds
    /\ RoundsApart
    /\ OneVoteEach
    /\ VotesCounted
    /\ EnteredWithQuorum
    /\ CommitHasQuorum

\* A call in doCommit, or past it.
Entered(c) == pc[c] \in {"commit", "ok", "cut"}

\* Only a call that entered doCommit is told to anybody, and it never leaves it
\* again, when its handler cannot fail.
AppliedIsCommitted ==
    \A c \in Calls \ Failing :
        /\ \A m \in net : m.type = "COMMIT" /\ m.call = c => Entered(c)
        /\ \A n \in Nodes : \A e \in applied[n] : e.call = c => Entered(c)

-----------------------------------------------------------------------------
(* Types.                                                                  *)

LEMMA InitialTypes == Init => TypeOK
BY AttemptsAssumption DEF Init, TypeOK, Locations

\* A message that is sent is a message.
LEMMA BroadcastType ==
    ASSUME NEW type \in {"PROPOSE", "VOTE_YES", "COMMIT"}, NEW c \in Calls,
           NEW r \in Rounds, NEW to \in SUBSET Nodes
    PROVE  Broadcast(type, c, r, to) \subseteq Message
BY CallerAssumption DEF Broadcast, Msg, Message

\* The end of an attempt leaves a value of its type in what it sets.
LEMMA AttemptFailsType ==
    ASSUME TypeOK, NEW c \in Calls, AttemptFails(c)
    PROVE  /\ rounds' \subseteq Rounds
           /\ attempt' \in [Calls -> 0..MaxAttempts]
           /\ pc' \in [Calls -> Locations]
           /\ pc'[c] \in {"propose", "error"}
           /\ \A d \in Calls \ {c} : pc'[d] = pc[d]
BY AttemptsAssumption DEF TypeOK, AttemptFails, Locations

LEMMA DoCommitType ==
    ASSUME TypeOK, NEW c \in Calls, DoCommit(c)
    PROVE  /\ TypeOK'
           /\ pc'[c] \in {"propose", "error", "ok"}
           /\ \A d \in Calls \ {c} : pc'[d] = pc[d]
<1>1. round[c] \in Rounds /\ Caller[c] \in Nodes
  BY CallerAssumption DEF TypeOK, DoCommit
<1>2. CASE AttemptFails(c) /\ UNCHANGED applied
  BY <1>2, AttemptFailsType DEF DoCommit, TypeOK
<1>3. CASE /\ applied' = [applied EXCEPT ![Caller[c]] =
                            @ \cup {[call |-> c, round |-> round[c]]}]
           /\ rounds' = rounds \ {round[c]}
           /\ pc' = [pc EXCEPT ![c] = "ok"]
           /\ UNCHANGED attempt
  BY <1>1, <1>3 DEF DoCommit, TypeOK, Locations, Commit
<1> QED BY <1>2, <1>3 DEF DoCommit

LEMMA SendCommitType ==
    ASSUME TypeOK, NEW c \in Calls, NEW p \in Nodes, SendCommit(c, p)
    PROVE  TypeOK'
<1>1. Broadcast("COMMIT", c, round[c], {p}) \subseteq Message
  BY BroadcastType DEF SendCommit, TypeOK
<1> QED BY <1>1 DEF SendCommit, TypeOK, roundVars

\* Where a call is after its process stopped is a location, never an open round
\* and never in doCommit.
LEMMA StoppedType ==
    ASSUME NEW l \in Locations
    PROVE  /\ Stopped(l) \in Locations \ {"propose", "selfVote", "vote", "commit"}
           /\ Stopped(l) \in {"ok", "cut"} => Stopped(l) = l \/ l = "commit"
BY DEF Stopped, Locations

LEMMA CrashType ==
    ASSUME TypeOK, NEW n \in Nodes, Crash(n)
    PROVE  TypeOK'
<1>1. \A c \in Calls : pc[c] \in Locations
  BY DEF TypeOK
<1>2. \A c \in Calls : pc'[c] = IF Caller[c] = n THEN Stopped(pc[c]) ELSE pc[c]
  BY DEF Crash
<1>3. pc' \in [Calls -> Locations]
  BY <1>1, StoppedType DEF Crash
<1>4. \A c \in Calls : pc'[c] \in {"selfVote", "vote", "commit", "ok", "cut"} => round'[c] \in Rounds
  <2> SUFFICES ASSUME NEW c \in Calls, pc'[c] \in {"selfVote", "vote", "commit", "ok", "cut"}
               PROVE  round[c] \in Rounds
    BY DEF Crash
  <2>1. pc[c] \in {"selfVote", "vote", "commit", "ok", "cut"}
    BY <1>1, <1>2, StoppedType
  <2> QED BY <2>1 DEF TypeOK
<1>5. peers' \in [Calls -> SUBSET Nodes] /\ alive' \in [Nodes -> SUBSET Nodes]
  BY DEF Crash, TypeOK
<1> QED BY <1>3, <1>4, <1>5 DEF Crash, TypeOK

LEMMA StartRoundType ==
    ASSUME TypeOK, NEW c \in Calls, NEW r \in Rounds, StartRound(c, r)
    PROVE  TypeOK'
<1>1. alive[Caller[c]] \ {Caller[c]} \in SUBSET Nodes
  BY CallerAssumption DEF TypeOK
<1>2. peers' \in [Calls -> SUBSET Nodes] /\ peers'[c] \in SUBSET Nodes
  BY <1>1 DEF StartRound, TypeOK
<1>3. Broadcast("PROPOSE", c, r, peers'[c]) \subseteq Message
  BY <1>2, BroadcastType
<1>4. net' \subseteq Message
  BY <1>3 DEF StartRound, TypeOK
<1> QED BY <1>2, <1>4 DEF StartRound, TypeOK, Locations

LEMMA SelfVoteType ==
    ASSUME TypeOK, NEW c \in Calls, SelfVote(c)
    PROVE  TypeOK'
<1>1. yes' \in [Rounds -> Nat]
  BY DEF SelfVote, TypeOK
<1>2. CASE Committed(c)
  BY <1>1, <1>2 DEF SelfVote, Committed, TypeOK, Locations
<1>3. CASE pc' = [pc EXCEPT ![c] = "vote"] /\ UNCHANGED <<attempt, rounds, net, applied>>
  BY <1>1, <1>3 DEF SelfVote, TypeOK, Locations
<1> QED BY <1>2, <1>3 DEF SelfVote

LEMMA DecideType ==
    ASSUME TypeOK, NEW c \in Calls, Decide(c)
    PROVE  TypeOK'
BY DEF Decide, Committed, TypeOK, Locations

LEMMA HandleType ==
    ASSUME TypeOK, NEW m \in net, Handle(m)
    PROVE  TypeOK'
<1>1. m \in Message
  BY DEF TypeOK
<1>2. CASE HandlePropose(m)
  <2>1. Msg("VOTE_YES", m.call, m.round, m.to, m.from) \in Message
    BY <1>1 DEF Msg, Message
  <2> QED BY <1>2, <2>1 DEF HandlePropose, TypeOK, callVars, roundVars
<1>3. CASE HandleVote(m)
  <2>1. m.round \in Rounds /\ m.from \in Nodes
    BY <1>1 DEF Message
  <2>2. CASE UNCHANGED <<yes, done, counted>>
    BY <1>3, <2>2 DEF HandleVote, TypeOK, callVars
  <2>3. CASE /\ yes' = [yes EXCEPT ![m.round] = @ + 1]
             /\ done' = [done EXCEPT ![m.round] = @ \/ yes'[m.round] >= Needed]
             /\ counted' = [counted EXCEPT ![m.round] = @ \cup {m.from}]
    <3>1. done' \in [Rounds -> BOOLEAN]
      <4>1. (done[m.round] \/ yes'[m.round] >= Needed) \in BOOLEAN
        OBVIOUS
      <4> QED BY <2>3, <4>1 DEF TypeOK
    <3>2. yes' \in [Rounds -> Nat] /\ counted' \in [Rounds -> SUBSET Nodes]
      BY <2>1, <2>3 DEF TypeOK
    <3> QED BY <1>3, <3>1, <3>2 DEF HandleVote, TypeOK, callVars
  <2> QED BY <1>3, <2>2, <2>3 DEF HandleVote
<1>4. CASE HandleCommit(m)
  BY <1>1, <1>4 DEF HandleCommit, TypeOK, callVars, roundVars, Message, Commit
<1> QED BY <1>2, <1>3, <1>4 DEF Handle

LEMMA TypeStep == TypeOK /\ [Next]_vars => TypeOK'
<1> SUFFICES ASSUME TypeOK, [Next]_vars PROVE TypeOK'
  OBVIOUS
<1>1. ASSUME NEW c \in Calls, Propose(c) PROVE TypeOK'
  BY <1>1, AttemptsAssumption DEF Propose, TypeOK, Locations, roundVars
<1>2. ASSUME NEW c \in Calls, NEW r \in Rounds, StartRound(c, r) PROVE TypeOK'
  BY <1>2, StartRoundType
<1>3. ASSUME NEW c \in Calls, SelfVote(c) PROVE TypeOK'
  BY <1>3, SelfVoteType
<1>4. ASSUME NEW c \in Calls, Decide(c) PROVE TypeOK'
  BY <1>4, DecideType
<1>5. ASSUME NEW c \in Calls, VoteTimeout(c) PROVE TypeOK'
  <2>1. AttemptFails(c)
    BY <1>5 DEF VoteTimeout
  <2> QED BY <1>5, <2>1, AttemptFailsType DEF VoteTimeout, TypeOK
<1>6. ASSUME NEW m \in net, Handle(m) PROVE TypeOK'
  BY <1>6, HandleType
<1>7. ASSUME NEW m \in net, Lose(m) PROVE TypeOK'
  BY <1>7 DEF Lose, TypeOK, callVars, roundVars
<1>8. ASSUME NEW n \in Nodes, NEW k \in Nodes, AliveChange(n, k) PROVE TypeOK'
  BY <1>8 DEF AliveChange, TypeOK, callVars, roundVars
<1>9. ASSUME NEW c \in Calls, NEW p \in Nodes, SendCommit(c, p) PROVE TypeOK'
  BY <1>9, SendCommitType
<1>10. ASSUME NEW c \in Calls, DoCommit(c) PROVE TypeOK'
  BY <1>10, DoCommitType
<1>11. ASSUME NEW n \in Nodes, Crash(n) PROVE TypeOK'
  BY <1>11, CrashType
<1>12. CASE UNCHANGED vars
  BY <1>12 DEF vars, callVars, roundVars, TypeOK
<1> QED BY <1>1, <1>2, <1>3, <1>4, <1>5, <1>6, <1>7, <1>8, <1>9, <1>10, <1>11, <1>12,
           CallerAssumption
    DEF Next, TimelyNext, Advance

\* The variables keep their types: no attempt beyond proposeMaxRetries, no vote
\* of a round that was not drawn (consensus.go:81-190).
THEOREM TypeCorrect == Spec => []TypeOK
BY InitialTypes, TypeStep, PTL DEF Spec

-----------------------------------------------------------------------------
(* Votes.                                                                  *)

LEMMA NodesCount ==
    /\ Cardinality(Nodes) \in Nat
    /\ Needed \in Nat
    /\ \A k \in Nat : k >= Needed => 2 * k > Cardinality(Nodes)
BY NodesAssumption, FS_CardinalityType DEF Needed

\* A voter that was not counted adds one to the count.
LEMMA OneMore ==
    ASSUME NEW S \in SUBSET Nodes, NEW p \in Nodes
    PROVE  /\ IsFiniteSet(S)
           /\ Cardinality(S) \in Nat
           /\ p \notin S => Cardinality(S \cup {p}) = Cardinality(S) + 1
<1>1. IsFiniteSet(S)
  BY NodesAssumption, FS_Subset
<1> QED BY <1>1, FS_CardinalityType, FS_AddElement

\* A quorum is not lost when more votes are counted.
LEMMA QuorumGrows ==
    ASSUME NEW c \in Calls, NEW r \in Rounds, HasQuorum(c, r),
           TypeOK', counted[r] \subseteq counted'[r]
    PROVE  HasQuorum(c, r)'
<1> DEFINE S == counted[r] \cup {Caller[c]}
           T == counted'[r] \cup {Caller[c]}
<1>1. T \in SUBSET Nodes /\ S \in SUBSET T
  BY CallerAssumption DEF TypeOK
<1>2. IsFiniteSet(T)
  BY <1>1, NodesAssumption, FS_Subset
<1>3. Cardinality(S) <= Cardinality(T) /\ IsFiniteSet(S)
  BY <1>1, <1>2, FS_Subset
<1>4. Cardinality(S) \in Nat /\ Cardinality(T) \in Nat
  BY <1>2, <1>3, FS_CardinalityType
<1>5. 2 * Cardinality(T) > Cardinality(Nodes)
  <2> HIDE DEF S, T
  <2>1. 2 * Cardinality(S) > Cardinality(Nodes)
    BY DEF HasQuorum, S
  <2> QED BY <1>3, <1>4, <2>1, NodesCount
<1> QED BY <1>5 DEF HasQuorum

\* What was committed or told keeps its quorum as long as no vote is taken back.
LEMMA OldCommits ==
    ASSUME IInv, TypeOK', \A r \in Rounds : counted[r] \subseteq counted'[r]
    PROVE  /\ \A m \in net : m.type = "COMMIT" => HasQuorum(m.call, m.round)'
           /\ \A n \in Nodes : \A e \in applied[n] : HasQuorum(e.call, e.round)'
<1>1. \A m \in net : m.call \in Calls /\ m.round \in Rounds
  BY DEF IInv, TypeOK, Message
<1>2. \A n \in Nodes : \A e \in applied[n] : e.call \in Calls /\ e.round \in Rounds
  BY DEF IInv, TypeOK, Commit
<1> QED BY <1>1, <1>2, QuorumGrows DEF IInv, CommitHasQuorum

\* An open round whose votes, with the proposer's own, are enough has a quorum.
LEMMA EnoughVotes ==
    ASSUME IInv, NEW c \in Calls, Open(c),
           Cardinality(counted[round[c]]) + 1 >= Needed
    PROVE  HasQuorum(c, round[c])
<1> DEFINE S == counted[round[c]]
<1>1. S \in SUBSET Nodes /\ Caller[c] \in Nodes /\ Caller[c] \notin S
  BY CallerAssumption DEF IInv, TypeOK, VotesCounted, Open
<1>2. Cardinality(S \cup {Caller[c]}) = Cardinality(S) + 1 /\ Cardinality(S) \in Nat
  BY <1>1, OneMore
<1>3. 2 * (Cardinality(S) + 1) > Cardinality(Nodes)
  BY <1>2, NodesCount
<1> QED BY <1>2, <1>3 DEF HasQuorum

\* Steps that count no vote, draw no round and open none; they may enter
\* doCommit with a quorum, end an attempt and take messages away.
LEMMA QuietStep ==
    ASSUME IInv, TypeOK', UNCHANGED <<round, used, yes, counted>>,
           \A r \in Rounds : done'[r] => done[r],
           \A m \in net' : m \in net \/ m.type = "COMMIT",
           \A c \in Calls : pc'[c] = pc[c] \/ ~Open(c)',
           \A c \in Calls : pc'[c] = "commit" => pc[c] = "commit" \/ HasQuorum(c, round[c]),
           CommitHasQuorum'
    PROVE  IInv'
<1>1. VoteMessages' \subseteq VoteMessages
  BY DEF VoteMessages
<1>2. FreshRounds'
  BY <1>1 DEF IInv, FreshRounds
<1>3. RoundsApart'
  BY <1>1 DEF IInv, RoundsApart
<1>4. OneVoteEach'
  BY <1>1 DEF IInv, OneVoteEach, Voter
<1>5. VotesCounted'
  <2> SUFFICES ASSUME NEW c \in Calls, Open(c)'
               PROVE  /\ Caller[c] \notin counted[round[c]]
                      /\ yes[round[c]] = Cardinality(counted[round[c]])
                                          + (IF pc'[c] = "vote" THEN 1 ELSE 0)
                      /\ done'[round[c]] => yes[round[c]] >= Needed
    BY DEF VotesCounted, Needed
  <2>1. Open(c) /\ pc'[c] = pc[c] /\ round[c] \in Rounds
    BY DEF Open, IInv, TypeOK
  <2> QED BY <2>1 DEF IInv, VotesCounted
<1>6. EnteredWithQuorum'
  BY DEF IInv, EnteredWithQuorum, HasQuorum
<1> QED BY <1>2, <1>3, <1>4, <1>5, <1>6 DEF IInv

\* What is added to COMMITs under way and to what is applied has a quorum.
LEMMA AddedCommits ==
    ASSUME IInv, NEW c \in Calls, HasQuorum(c, round[c]), UNCHANGED counted,
           \A m \in net' : m \in net \/ (m.call = c /\ m.round = round[c]),
           \A n \in Nodes : \A e \in applied'[n] :
               e \in applied[n] \/ e = [call |-> c, round |-> round[c]]
    PROVE  CommitHasQuorum'
<1>1. \A d, r : HasQuorum(d, r)' <=> HasQuorum(d, r)
  BY DEF HasQuorum
<1>2. \A m \in net' : m.type = "COMMIT" => HasQuorum(m.call, m.round)
  BY DEF IInv, CommitHasQuorum
<1>3. \A n \in Nodes : \A e \in applied'[n] : HasQuorum(e.call, e.round)
  BY DEF IInv, CommitHasQuorum
<1> QED BY <1>1, <1>2, <1>3 DEF CommitHasQuorum

LEMMA SendCommitStep ==
    ASSUME IInv, TypeOK', NEW c \in Calls, NEW p \in Nodes, SendCommit(c, p)
    PROVE  IInv'
<1>1. /\ UNCHANGED <<pc, round, used, yes, done, counted, applied>>
      /\ HasQuorum(c, round[c])
      /\ \A m \in net' : m \in net \/ (m.type = "COMMIT" /\ m.call = c /\ m.round = round[c])
  BY DEF SendCommit, roundVars, Broadcast, Msg, IInv, EnteredWithQuorum
<1>2. CommitHasQuorum'
  BY <1>1, AddedCommits
<1> QED BY <1>1, <1>2, QuietStep

LEMMA DoCommitStep ==
    ASSUME IInv, TypeOK', NEW c \in Calls, DoCommit(c)
    PROVE  IInv'
<1>1. /\ UNCHANGED <<round, used, yes, done, counted, net>>
      /\ HasQuorum(c, round[c])
      /\ applied' = applied \/ applied' = [applied EXCEPT ![Caller[c]] =
                                              @ \cup {[call |-> c, round |-> round[c]]}]
  BY DEF DoCommit, IInv, EnteredWithQuorum
<1>2. \A n \in Nodes : \A e \in applied'[n] :
         e \in applied[n] \/ e = [call |-> c, round |-> round[c]]
  BY <1>1 DEF IInv, TypeOK
<1>3. CommitHasQuorum'
  BY <1>1, <1>2, AddedCommits
<1>4. \A d \in Calls : /\ pc'[d] = pc[d] \/ ~Open(d)'
                       /\ pc'[d] = "commit" => pc[d] = "commit"
  BY DoCommitType DEF IInv, Open
<1> QED BY <1>1, <1>3, <1>4, QuietStep

\* A process that stops ends what its calls waited for.
LEMMA CrashStep ==
    ASSUME IInv, TypeOK', NEW n \in Nodes, Crash(n)
    PROVE  IInv'
<1>1. UNCHANGED <<round, used, yes, done, counted, net, applied>>
  BY DEF Crash
<1>2. ASSUME NEW c \in Calls
      PROVE  /\ pc'[c] = pc[c] \/ ~Open(c)'
             /\ pc'[c] = "commit" => pc[c] = "commit"
  <2>1. pc[c] \in Locations /\ pc'[c] = IF Caller[c] = n THEN Stopped(pc[c]) ELSE pc[c]
    BY DEF Crash, IInv, TypeOK
  <2> QED BY <2>1, StoppedType DEF Open
<1> QED BY <1>1, <1>2, QuietStep DEF IInv, CommitHasQuorum, HasQuorum

LEMMA StartRoundStep ==
    ASSUME IInv, TypeOK', NEW c \in Calls, NEW r \in Rounds, StartRound(c, r)
    PROVE  IInv'
<1> DEFINE new == Broadcast("PROPOSE", c, r, peers'[c])
<1>1. /\ r \in Rounds \ used /\ used' = used \cup {r}
      /\ round' = [round EXCEPT ![c] = r] /\ round'[c] = r
      /\ peers'[c] = alive[Caller[c]] \ {Caller[c]}
      /\ net' = net \cup new
      /\ pc' = [pc EXCEPT ![c] = "selfVote"] /\ pc'[c] = "selfVote"
      /\ UNCHANGED <<yes, done, counted, applied>>
  BY DEF StartRound, IInv, TypeOK
<1>2. /\ yes[r] = 0 /\ ~done[r] /\ counted[r] = {}
      /\ \A m \in VoteMessages : m.round # r
      /\ \A d \in Calls : round[d] # r
  BY <1>1 DEF IInv, FreshRounds
<1>3. \A m \in new : /\ m.type = "PROPOSE" /\ m.call = c /\ m.round = r
                     /\ m.from = Caller[c] /\ m.to \in peers'[c]
  BY DEF Broadcast, Msg
<1>4. \A m, k \in new : m.to = k.to => m = k
  BY DEF Broadcast, Msg
<1>5. VoteMessages' = VoteMessages \cup new
  BY <1>1, <1>3 DEF VoteMessages
<1>6. \A d \in Calls \ {c} : round'[d] = round[d] /\ pc'[d] = pc[d]
  BY <1>1 DEF IInv, TypeOK
<1> HIDE DEF new
<1>7. FreshRounds'
  <2>1. ASSUME NEW s \in Rounds \ used' PROVE s \in Rounds \ used /\ s # r
    BY <1>1, <2>1
  <2>2. ASSUME NEW s \in Rounds \ used' PROVE \A m \in VoteMessages' : m.round # s
    BY <2>1, <2>2, <1>3, <1>5 DEF IInv, FreshRounds
  <2>3. ASSUME NEW s \in Rounds \ used' PROVE \A d \in Calls : round'[d] # s
    BY <2>1, <2>3, <1>1, <1>6 DEF IInv, FreshRounds
  <2> QED BY <1>1, <2>1, <2>2, <2>3 DEF IInv, FreshRounds
<1>8. RoundsApart'
  <2>1. \A d, e \in Calls : round'[d] = round'[e] /\ round'[d] # NoRound => d = e
    BY <1>1, <1>2, <1>6 DEF IInv, RoundsApart
  <2>2. \A d \in Calls : \A m \in VoteMessages' : m.round = round'[d] => m.call = d
    BY <1>1, <1>2, <1>3, <1>5, <1>6 DEF IInv, RoundsApart
  <2> QED BY <2>1, <2>2 DEF RoundsApart
<1>9. OneVoteEach'
  <2>1. \A m \in new : Voter(m) = m.to /\ Voter(m) # Caller[m.call] /\ counted'[m.round] = {}
    BY <1>1, <1>2, <1>3 DEF Voter
  <2>2. \A m \in VoteMessages' : Voter(m) \notin counted'[m.round] /\ Voter(m) # Caller[m.call]
    BY <1>1, <1>5, <2>1 DEF IInv, OneVoteEach
  <2>3. \A m, k \in VoteMessages' : m.round = k.round /\ Voter(m) = Voter(k) => m = k
    BY <1>2, <1>3, <1>4, <1>5, <2>1 DEF IInv, OneVoteEach
  <2> QED BY <2>2, <2>3 DEF OneVoteEach, Voter
<1>10. VotesCounted'
  <2> SUFFICES ASSUME NEW d \in Calls, Open(d)'
               PROVE  /\ Caller[d] \notin counted[round'[d]]
                      /\ yes[round'[d]] = Cardinality(counted[round'[d]])
                                            + (IF pc'[d] = "vote" THEN 1 ELSE 0)
                      /\ done[round'[d]] => yes[round'[d]] >= Needed
    BY <1>1 DEF VotesCounted, Needed
  <2>1. CASE d = c
    <3>1. Cardinality(counted[r]) = 0
      BY <1>2, FS_EmptySet
    <3>2. round'[d] = r /\ (IF pc'[d] = "vote" THEN 1 ELSE 0) = 0
      BY <1>1, <2>1
    <3> QED BY <1>2, <2>1, <3>1, <3>2
  <2>2. CASE d # c
    <3>1. Open(d) /\ round'[d] = round[d] /\ pc'[d] = pc[d]
      BY <1>6, <2>2 DEF Open
    <3> QED BY <3>1 DEF IInv, VotesCounted
  <2> QED BY <2>1, <2>2
<1>11. CommitHasQuorum'
  <2>1. /\ \A m \in net : m.type = "COMMIT" => HasQuorum(m.call, m.round)'
        /\ \A n \in Nodes : \A e \in applied[n] : HasQuorum(e.call, e.round)'
    BY <1>1, OldCommits
  <2> QED BY <1>1, <1>3, <2>1 DEF CommitHasQuorum
<1>12. EnteredWithQuorum'
  BY <1>1, <1>6 DEF IInv, EnteredWithQuorum, HasQuorum
<1> QED BY <1>7, <1>8, <1>9, <1>10, <1>11, <1>12 DEF IInv

LEMMA SelfVoteStep ==
    ASSUME IInv, TypeOK', NEW c \in Calls, SelfVote(c)
    PROVE  IInv'
<1>1. /\ pc[c] = "selfVote" /\ Open(c)
      /\ yes' = [yes EXCEPT ![round[c]] = @ + 1]
      /\ UNCHANGED <<round, used, done, counted>>
  BY DEF SelfVote, Open
<1>2. /\ round[c] \in Rounds /\ yes'[round[c]] = yes[round[c]] + 1
      /\ \A r \in Rounds \ {round[c]} : yes'[r] = yes[r]
      /\ \A r \in Rounds : yes[r] \in Nat
      /\ round[c] \in used /\ round[c] # NoRound
  BY <1>1, RoundAssumption DEF IInv, TypeOK, FreshRounds
<1>3. yes[round[c]] = Cardinality(counted[round[c]])
  <2>1. counted[round[c]] \in SUBSET Nodes /\ Caller[c] \in Nodes
    BY <1>2, CallerAssumption DEF IInv, TypeOK
  <2>2. Cardinality(counted[round[c]]) \in Nat
    BY <2>1, OneMore
  <2>3. yes[round[c]] = Cardinality(counted[round[c]]) + (IF pc[c] = "vote" THEN 1 ELSE 0)
    BY <1>1 DEF IInv, VotesCounted
  <2>4. (IF pc[c] = "vote" THEN 1 ELSE 0) = 0
    BY <1>1
  <2> QED BY <2>2, <2>3, <2>4
<1>4. /\ UNCHANGED <<net, applied>>
      /\ \A d \in Calls \ {c} : pc'[d] = pc[d]
      /\ pc'[c] = "vote" \/ (pc'[c] = "commit" /\ yes[round[c]] + 1 >= Needed)
  BY DEF SelfVote, Committed, IInv, TypeOK
<1>5. VoteMessages' \subseteq VoteMessages
  BY <1>4 DEF VoteMessages
<1>6. FreshRounds'
  BY <1>1, <1>2, <1>5 DEF IInv, FreshRounds
<1>7. RoundsApart'
  BY <1>1, <1>5 DEF IInv, RoundsApart
<1>8. OneVoteEach'
  BY <1>1, <1>5 DEF IInv, OneVoteEach, Voter
<1>9. VotesCounted'
  <2>1. ASSUME NEW d \in Calls \ {c}, Open(d)'
        PROVE  /\ Open(d) /\ round[d] \in Rounds /\ round[d] # round[c]
               /\ pc'[d] = pc[d] /\ yes'[round[d]] = yes[round[d]]
    BY <1>2, <1>4, <2>1 DEF Open, IInv, TypeOK, RoundsApart
  <2>2. ASSUME Open(c)'
        PROVE  /\ pc'[c] = "vote"
               /\ yes'[round[c]] = Cardinality(counted[round[c]]) + 1
               /\ done[round[c]] => yes'[round[c]] >= Needed
    <3>1. pc'[c] = "vote"
      BY <1>4, <2>2 DEF Open
    <3>2. done[round[c]] => yes[round[c]] >= Needed
      BY <1>1 DEF IInv, VotesCounted
    <3> QED BY <1>2, <1>3, <3>1, <3>2, NodesCount
  <2>3. Caller[c] \notin counted[round[c]]
    BY <1>1 DEF IInv, VotesCounted
  <2> QED BY <1>1, <2>1, <2>2, <2>3 DEF IInv, VotesCounted
<1>10. CommitHasQuorum'
  BY <1>1, <1>4 DEF IInv, CommitHasQuorum, HasQuorum
<1>11. EnteredWithQuorum'
  <2>1. pc'[c] = "commit" => HasQuorum(c, round[c])
    BY <1>1, <1>3, <1>4, EnoughVotes
  <2> QED BY <1>1, <1>4, <2>1 DEF IInv, EnteredWithQuorum, HasQuorum
<1> QED BY <1>6, <1>7, <1>8, <1>9, <1>10, <1>11 DEF IInv

LEMMA DecideStep ==
    ASSUME IInv, TypeOK', NEW c \in Calls, Decide(c)
    PROVE  IInv'
<1>1. /\ Open(c) /\ pc[c] = "vote" /\ done[round[c]]
      /\ pc' = [pc EXCEPT ![c] = "commit"]
      /\ done' = [done EXCEPT ![round[c]] = FALSE]
      /\ UNCHANGED <<round, used, yes, counted, net, applied>>
  BY DEF Decide, Open, Committed
<1>2. round[c] \in Rounds /\ Caller[c] \in Nodes /\ counted[round[c]] \in SUBSET Nodes
  BY <1>1, CallerAssumption DEF IInv, TypeOK, Open
<1>3. Cardinality(counted[round[c]]) + 1 >= Needed
  <2>1. yes[round[c]] = Cardinality(counted[round[c]]) + (IF pc[c] = "vote" THEN 1 ELSE 0)
    BY <1>1 DEF IInv, VotesCounted
  <2>2. yes[round[c]] >= Needed
    BY <1>1 DEF IInv, VotesCounted
  <2> QED BY <1>1, <2>1, <2>2
<1>4. HasQuorum(c, round[c])
  BY <1>1, <1>3, EnoughVotes
<1>5. CommitHasQuorum'
  BY <1>1 DEF IInv, CommitHasQuorum, HasQuorum
<1>6. \A d \in Calls : /\ pc'[d] = pc[d] \/ ~Open(d)'
                       /\ pc'[d] = "commit" => pc[d] = "commit" \/ HasQuorum(d, round[d])
  BY <1>1, <1>4 DEF IInv, TypeOK, Open
<1>7. \A r \in Rounds : done'[r] => done[r]
  BY <1>1, <1>2 DEF IInv, TypeOK
<1> QED BY <1>1, <1>5, <1>6, <1>7, QuietStep

\* The vote takes the place of the question.
LEMMA HandleProposeStep ==
    ASSUME IInv, TypeOK', NEW m \in net, HandlePropose(m)
    PROVE  IInv'
<1> DEFINE v == Msg("VOTE_YES", m.call, m.round, m.to, m.from)
<1>1. /\ m \in VoteMessages
      /\ net' = (net \ {m}) \cup {v}
      /\ UNCHANGED <<pc, round, used, yes, done, counted, applied>>
  BY DEF HandlePropose, VoteMessages, callVars, roundVars
<1>2. /\ v.type = "VOTE_YES" /\ v.call = m.call /\ v.round = m.round
      /\ Voter(v) = Voter(m)
  BY DEF HandlePropose, Msg, Voter
<1> HIDE DEF v
<1>3. VoteMessages' = (VoteMessages \ {m}) \cup {v}
  BY <1>1, <1>2 DEF VoteMessages
<1>4. FreshRounds'
  BY <1>1, <1>2, <1>3 DEF IInv, FreshRounds
<1>5. RoundsApart'
  BY <1>1, <1>2, <1>3 DEF IInv, RoundsApart
<1>6. OneVoteEach'
  <2>1. \A k \in VoteMessages' : Voter(k) \notin counted[k.round] /\ Voter(k) # Caller[k.call]
    BY <1>1, <1>2, <1>3 DEF IInv, OneVoteEach
  <2>2. \A k \in VoteMessages \ {m} : ~(k.round = v.round /\ Voter(k) = Voter(v))
    BY <1>1, <1>2 DEF IInv, OneVoteEach
  <2>3. \A k, l \in VoteMessages' : k.round = l.round /\ Voter(k) = Voter(l) => k = l
    BY <1>3, <2>2 DEF IInv, OneVoteEach
  <2> QED BY <1>1, <2>1, <2>3 DEF OneVoteEach, Voter
<1>7. VotesCounted'
  BY <1>1 DEF IInv, VotesCounted, Open, Needed
<1>8. CommitHasQuorum' /\ EnteredWithQuorum'
  BY <1>1, <1>2 DEF IInv, CommitHasQuorum, EnteredWithQuorum, HasQuorum
<1> QED BY <1>4, <1>5, <1>6, <1>7, <1>8 DEF IInv

\* A vote is counted once: the peer was not counted yet and is not asked again.
LEMMA CountStep ==
    ASSUME IInv, TypeOK', NEW m \in net, HandleVote(m), m.round \in rounds
    PROVE  IInv'
<1> DEFINE r == m.round
           p == m.from
<1>1. /\ m \in VoteMessages /\ Voter(m) = p
      /\ VoteMessages' = VoteMessages \ {m}
      /\ r \in Rounds /\ p \in Nodes
  BY DEF HandleVote, VoteMessages, Voter, IInv, TypeOK, Message
<1>2. /\ yes' = [yes EXCEPT ![r] = @ + 1]
      /\ done' = [done EXCEPT ![r] = @ \/ yes'[r] >= Needed]
      /\ counted' = [counted EXCEPT ![r] = @ \cup {p}]
      /\ UNCHANGED <<pc, round, used, applied>>
      /\ net' = net \ {m}
  BY DEF HandleVote, callVars
<1> HIDE DEF r, p
<1>3. /\ yes'[r] = yes[r] + 1 /\ yes[r] \in Nat
      /\ done'[r] => done[r] \/ yes'[r] >= Needed
      /\ counted'[r] = counted[r] \cup {p} /\ counted[r] \in SUBSET Nodes
      /\ \A s \in Rounds \ {r} : yes'[s] = yes[s] /\ done'[s] = done[s] /\ counted'[s] = counted[s]
  BY <1>1, <1>2 DEF IInv, TypeOK
<1>4. \A k \in VoteMessages' : ~(k.round = r /\ Voter(k) = p)
  BY <1>1 DEF IInv, OneVoteEach, r
<1>5. FreshRounds'
  <2>1. r \in used
    BY <1>1 DEF IInv, FreshRounds, r
  <2> QED BY <1>1, <1>2, <1>3, <2>1 DEF IInv, FreshRounds
<1>6. RoundsApart'
  BY <1>1, <1>2 DEF IInv, RoundsApart
<1>7. OneVoteEach'
  <2>1. ASSUME NEW k \in VoteMessages'
        PROVE  Voter(k) \notin counted'[k.round] /\ Voter(k) # Caller[k.call]
    <3>1. k \in VoteMessages /\ k.round \in Rounds
      BY <1>1 DEF VoteMessages, IInv, TypeOK, Message
    <3>2. Voter(k) \notin counted[k.round] /\ Voter(k) # Caller[k.call]
      BY <3>1 DEF IInv, OneVoteEach
    <3> QED BY <1>3, <1>4, <3>1, <3>2
  <2>2. \A k, l \in VoteMessages' : k.round = l.round /\ Voter(k) = Voter(l) => k = l
    BY <1>1 DEF IInv, OneVoteEach
  <2> QED BY <2>1, <2>2 DEF OneVoteEach, Voter
<1>8. VotesCounted'
  <2> SUFFICES ASSUME NEW c \in Calls, Open(c)
               PROVE  /\ Caller[c] \notin counted'[round[c]]
                      /\ yes'[round[c]] = Cardinality(counted'[round[c]])
                                          + (IF pc[c] = "vote" THEN 1 ELSE 0)
                      /\ done'[round[c]] => yes'[round[c]] >= Needed
    BY <1>2 DEF VotesCounted, Open, Needed
  <2>1. /\ round[c] \in Rounds
        /\ Caller[c] \notin counted[round[c]]
        /\ yes[round[c]] = Cardinality(counted[round[c]])
                           + (IF pc[c] = "vote" THEN 1 ELSE 0)
        /\ done[round[c]] => yes[round[c]] >= Needed
    BY DEF IInv, TypeOK, VotesCounted, Open
  <2>2. CASE round[c] # r
    BY <1>3, <2>1, <2>2
  <2>3. CASE round[c] = r
    <3>1. p # Caller[c] /\ p \notin counted[r]
      BY <1>1, <2>3 DEF IInv, RoundsApart, OneVoteEach, r
    <3>2. Cardinality(counted'[r]) = Cardinality(counted[r]) + 1 /\ Cardinality(counted[r]) \in Nat
      BY <1>1, <1>3, <3>1, OneMore
    <3>3. done'[r] => yes'[r] >= Needed
      BY <1>3, <2>1, <2>3, NodesCount
    <3>4. yes'[r] = Cardinality(counted'[r]) + (IF pc[c] = "vote" THEN 1 ELSE 0)
      BY <1>3, <2>1, <2>3, <3>2
    <3> QED BY <1>3, <2>1, <2>3, <3>1, <3>3, <3>4
  <2> QED BY <2>2, <2>3
<1>9. CommitHasQuorum'
  <2>1. \A s \in Rounds : counted[s] \subseteq counted'[s]
    BY <1>3
  <2> QED BY <1>2, <2>1, OldCommits DEF CommitHasQuorum
<1>10. EnteredWithQuorum'
  <2> SUFFICES ASSUME NEW c \in Calls, pc[c] = "commit" PROVE HasQuorum(c, round[c])'
    BY <1>2 DEF EnteredWithQuorum
  <2>1. PICK s \in Rounds : s = round[c]
    BY DEF IInv, TypeOK
  <2>2. HasQuorum(c, s) /\ counted[s] \subseteq counted'[s]
    BY <1>3, <2>1 DEF IInv, EnteredWithQuorum
  <2>3. HasQuorum(c, s)'
    BY <2>2, QuorumGrows
  <2> QED BY <1>2, <2>1, <2>3
<1> QED BY <1>5, <1>6, <1>7, <1>8, <1>9, <1>10 DEF IInv

LEMMA VoteInvariant == IInv /\ [Next]_vars => IInv'
<1> SUFFICES ASSUME IInv, [Next]_vars PROVE IInv'
  OBVIOUS
<1> TypeOK'
  BY TypeStep DEF IInv
<1>1. ASSUME NEW c \in Calls, Propose(c) PROVE IInv'
  <2>1. /\ UNCHANGED <<round, used, yes, done, counted, net, applied>>
        /\ \A d \in Calls : pc'[d] = pc[d] \/ pc'[d] = "propose"
    BY <1>1 DEF Propose, roundVars, IInv, TypeOK
  <2> QED BY <2>1, QuietStep DEF IInv, CommitHasQuorum, HasQuorum, Open
<1>2. ASSUME NEW c \in Calls, NEW r \in Rounds, StartRound(c, r) PROVE IInv'
  BY <1>2, StartRoundStep
<1>3. ASSUME NEW c \in Calls, SelfVote(c) PROVE IInv'
  BY <1>3, SelfVoteStep
<1>4. ASSUME NEW c \in Calls, Decide(c) PROVE IInv'
  BY <1>4, DecideStep
<1>5. ASSUME NEW c \in Calls, VoteTimeout(c) PROVE IInv'
  <2>1. /\ UNCHANGED <<round, used, yes, done, counted, net, applied>>
        /\ \A d \in Calls : pc'[d] = pc[d] \/ pc'[d] \in {"propose", "error"}
    BY <1>5, AttemptFailsType DEF VoteTimeout, IInv
  <2> QED BY <2>1, QuietStep DEF IInv, CommitHasQuorum, HasQuorum, Open
<1>6. ASSUME NEW m \in net, HandlePropose(m) PROVE IInv'
  BY <1>6, HandleProposeStep
<1>7. ASSUME NEW m \in net, HandleVote(m) PROVE IInv'
  <2>1. CASE m.round \in rounds
    BY <1>7, <2>1, CountStep
  <2>2. CASE UNCHANGED <<yes, done, counted>>
    <3>1. /\ UNCHANGED <<pc, round, used, applied>>
          /\ net' = net \ {m}
      BY <1>7 DEF HandleVote, callVars
    <3> QED BY <2>2, <3>1, QuietStep DEF IInv, CommitHasQuorum, HasQuorum
  <2> QED BY <1>7, <2>1, <2>2 DEF HandleVote
<1>8. ASSUME NEW m \in net, HandleCommit(m) PROVE IInv'
  <2>1. /\ UNCHANGED <<pc, round, used, yes, done, counted>>
        /\ net' = net \ {m}
        /\ applied' = [applied EXCEPT ![m.to] = @ \cup {[call |-> m.call, round |-> m.round]}]
    BY <1>8 DEF HandleCommit, callVars, roundVars
  <2>2. HasQuorum(m.call, m.round)
    BY <1>8 DEF HandleCommit, IInv, CommitHasQuorum
  <2>3. \A n \in Nodes : \A e \in applied'[n] :
           e \in applied[n] \/ e = [call |-> m.call, round |-> m.round]
    BY <2>1 DEF IInv, TypeOK
  <2>4. CommitHasQuorum'
    <3>1. \A c, r : HasQuorum(c, r)' <=> HasQuorum(c, r)
      BY <2>1 DEF HasQuorum
    <3>2. \A k \in net' : k.type = "COMMIT" => HasQuorum(k.call, k.round)
      BY <2>1 DEF IInv, CommitHasQuorum
    <3>3. \A n \in Nodes : \A e \in applied'[n] : HasQuorum(e.call, e.round)
      BY <2>2, <2>3 DEF IInv, CommitHasQuorum
    <3> QED BY <3>1, <3>2, <3>3 DEF CommitHasQuorum
  <2> QED BY <2>1, <2>4, QuietStep
<1>9. ASSUME NEW m \in net, Lose(m) PROVE IInv'
  <2>1. /\ UNCHANGED <<pc, round, used, yes, done, counted, applied>>
        /\ net' = net \ {m}
    BY <1>9 DEF Lose, callVars, roundVars
  <2> QED BY <2>1, QuietStep DEF IInv, CommitHasQuorum, HasQuorum
<1>10. ASSUME NEW n \in Nodes, NEW k \in Nodes, AliveChange(n, k) PROVE IInv'
  <2>1. UNCHANGED <<pc, round, used, yes, done, counted, applied, net>>
    BY <1>10 DEF AliveChange, callVars, roundVars
  <2> QED BY <2>1, QuietStep DEF IInv, CommitHasQuorum, HasQuorum
<1>11. CASE UNCHANGED vars
  <2>1. UNCHANGED <<pc, round, used, yes, done, counted, applied, net>>
    BY <1>11 DEF vars, callVars, roundVars
  <2> QED BY <2>1, QuietStep DEF IInv, CommitHasQuorum, HasQuorum
<1>12. ASSUME NEW c \in Calls, NEW p \in Nodes, SendCommit(c, p) PROVE IInv'
  BY <1>12, SendCommitStep
<1>13. ASSUME NEW c \in Calls, DoCommit(c) PROVE IInv'
  BY <1>13, DoCommitStep
<1>14. ASSUME NEW n \in Nodes, Crash(n) PROVE IInv'
  BY <1>14, CrashStep
<1> QED BY <1>1, <1>2, <1>3, <1>4, <1>5, <1>6, <1>7, <1>8, <1>9, <1>10, <1>11, <1>12,
           <1>13, <1>14, CallerAssumption
    DEF Next, TimelyNext, Advance, Handle

\* Whatever is lost, late or repeated, and however often a proposal is tried
\* again, a COMMIT is sent and applied only for a round in which the proposer
\* and the peers that voted are a majority of all nodes (consensus.go:115-214).
THEOREM CommitsHaveQuorum == Spec => []CommitHasQuorum
<1>1. Init => IInv
  <2> SUFFICES ASSUME Init PROVE IInv
    OBVIOUS
  <2>1. TypeOK
    BY InitialTypes
  <2>2. FreshRounds /\ RoundsApart /\ OneVoteEach
    BY RoundAssumption DEF Init, FreshRounds, RoundsApart, OneVoteEach, VoteMessages
  <2>3. VotesCounted /\ EnteredWithQuorum /\ CommitHasQuorum
    BY DEF Init, VotesCounted, Open, EnteredWithQuorum, CommitHasQuorum
  <2> QED BY <2>1, <2>2, <2>3 DEF IInv
<1>2. IInv => CommitHasQuorum
  BY DEF IInv
<1> QED BY <1>1, <1>2, VoteInvariant, PTL DEF Spec

-----------------------------------------------------------------------------
(* Refinement of AtomicCommit.                                             *)

CommitInv == TypeOK /\ AppliedIsCommitted

\* A call that cannot fail and entered doCommit never leaves it but to return,
\* or with its process; nothing is told or applied of it before.
LEMMA AppliedStep == CommitInv /\ [Next]_vars => CommitInv'
<1> SUFFICES ASSUME CommitInv, [Next]_vars PROVE AppliedIsCommitted'
  BY TypeStep DEF CommitInv
<1>1. ASSUME UNCHANGED applied, \A m \in net' : m \in net \/ m.type # "COMMIT",
             \A c \in Calls \ Failing : Entered(c) => Entered(c)'
      PROVE  AppliedIsCommitted'
  BY <1>1 DEF CommitInv, AppliedIsCommitted
<1>2. ASSUME NEW c \in Calls, NEW l \in Locations, ~Entered(c),
             pc' = [pc EXCEPT ![c] = l], UNCHANGED applied,
             \A m \in net' : m \in net \/ m.type # "COMMIT"
      PROVE  AppliedIsCommitted'
  <2>1. \A d \in Calls : Entered(d) => Entered(d)'
    BY <1>2 DEF CommitInv, TypeOK, Entered
  <2> QED BY <1>1, <1>2, <2>1
<1>3. ASSUME NEW c \in Calls, Advance(c) PROVE AppliedIsCommitted'
  <2>1. CASE Propose(c)
    BY <1>2, <2>1 DEF Propose, Entered, Locations
  <2>2. CASE \E r \in Rounds : StartRound(c, r)
    <3>1. PICK r \in Rounds : StartRound(c, r)
      BY <2>2
    <3>2. \A m \in net' : m \in net \/ m.type # "COMMIT"
      BY <3>1 DEF StartRound, Broadcast, Msg
    <3>3. ~Entered(c) /\ UNCHANGED applied /\ pc' = [pc EXCEPT ![c] = "selfVote"]
      BY <3>1 DEF StartRound, Entered
    <3> QED BY <1>2, <3>2, <3>3 DEF Locations
  <2>3. CASE SelfVote(c)
    BY <1>2, <2>3 DEF SelfVote, Committed, Entered, Locations
  <2>4. CASE Decide(c)
    BY <1>2, <2>4 DEF Decide, Committed, Entered, Locations
  <2>5. ASSUME NEW p \in Nodes, SendCommit(c, p) PROVE AppliedIsCommitted'
    <3>1. /\ UNCHANGED <<pc, applied>> /\ Entered(c)
          /\ \A m \in net' : m \in net \/ m.call = c
      BY <2>5 DEF SendCommit, Broadcast, Msg, Entered
    <3> QED BY <3>1 DEF CommitInv, AppliedIsCommitted, Entered
  <2>6. CASE DoCommit(c)
    <3>1. /\ UNCHANGED net
          /\ \A n \in Nodes : \A e \in applied'[n] : e \in applied[n] \/ e.call = c
          /\ \A d \in Calls \ {c} : pc'[d] = pc[d]
          /\ c \notin Failing => pc'[c] = "ok"
      BY <2>6, DoCommitType DEF DoCommit, CommitInv, TypeOK
    <3> QED BY <3>1 DEF CommitInv, AppliedIsCommitted, Entered
  <2> QED BY <1>3, <2>1, <2>2, <2>3, <2>4, <2>5, <2>6 DEF Advance
<1>4. ASSUME NEW c \in Calls, VoteTimeout(c) PROVE AppliedIsCommitted'
  <2>1. pc[c] = "vote" /\ AttemptFails(c) /\ UNCHANGED <<applied, net>>
    BY <1>4 DEF VoteTimeout
  <2>2. \A d \in Calls : Entered(d) => Entered(d)'
    BY <2>1, AttemptFailsType DEF CommitInv, Entered
  <2> QED BY <1>1, <2>1, <2>2
<1>5. ASSUME NEW m \in net, HandlePropose(m) \/ HandleVote(m) \/ Lose(m)
      PROVE  AppliedIsCommitted'
  <2>1. /\ UNCHANGED <<applied, pc>>
        /\ \A k \in net' : k \in net \/ k.type # "COMMIT"
    BY <1>5 DEF HandlePropose, HandleVote, Lose, Msg, callVars
  <2> QED BY <1>1, <2>1 DEF Entered
<1>6. ASSUME NEW m \in net, HandleCommit(m) PROVE AppliedIsCommitted'
  <2>1. /\ m.type = "COMMIT" /\ net' \subseteq net /\ UNCHANGED pc
        /\ \A n \in Nodes : \A e \in applied'[n] : e \in applied[n] \/ e.call = m.call
    BY <1>6 DEF HandleCommit, callVars, CommitInv, TypeOK
  <2> QED BY <2>1 DEF CommitInv, AppliedIsCommitted, Entered
<1>7. ASSUME NEW n \in Nodes, NEW k \in Nodes, AliveChange(n, k) PROVE AppliedIsCommitted'
  BY <1>1, <1>7 DEF AliveChange, callVars, Entered
<1>8. ASSUME NEW n \in Nodes, Crash(n) PROVE AppliedIsCommitted'
  <2>1. UNCHANGED <<applied, net>>
    BY <1>8 DEF Crash
  <2>2. \A c \in Calls : Entered(c) => Entered(c)'
    BY <1>8 DEF Crash, Entered, Stopped
  <2> QED BY <1>1, <2>1, <2>2
<1>9. CASE UNCHANGED vars
  BY <1>1, <1>9 DEF vars, callVars, Entered
<1> QED BY <1>3, <1>4, <1>5, <1>6, <1>7, <1>8, <1>9, CallerAssumption
    DEF Next, TimelyNext, Handle

\* The calls that AtomicCommit is about, and what it sees of them.
Calm == Calls \ Failing
OutcomeOf == [c \in Calm |-> Outcome(c)]
CallsIn(S) == {e.call : e \in S}
AppliedOf == [n \in Nodes |-> CallsIn(applied[n]) \ Failing]

\* A step that leaves what is seen as it is.
LEMMA Stutters ==
    ASSUME \A c \in Calm : Outcome(c)' = Outcome(c),
           \A n \in Nodes : CallsIn(applied'[n]) \ Failing = CallsIn(applied[n]) \ Failing
    PROVE  UNCHANGED Abstract!vars
<1>1. OutcomeOf' = OutcomeOf
  BY DEF OutcomeOf, Calm
<1>2. AppliedOf' = AppliedOf
  BY DEF AppliedOf
<1> QED BY <1>1, <1>2 DEF Abstract!vars, OutcomeOf, AppliedOf, CallsIn, Calm

\* One more commit among those applied is one more call.
LEMMA OneMoreCall ==
    ASSUME NEW S, NEW c, NEW r
    PROVE  CallsIn(S \cup {[call |-> c, round |-> r]}) = CallsIn(S) \cup {c}
<1> DEFINE new == [call |-> c, round |-> r]
<1>1. new.call = c
  OBVIOUS
<1> HIDE DEF new
<1>2. CallsIn(S \cup {new}) = CallsIn(S) \cup {c}
  BY <1>1 DEF CallsIn
<1> QED BY <1>2 DEF new

\* What is seen to be applied after a node applied one more commit.
LEMMA AppliedThere ==
    ASSUME TypeOK, NEW n \in Nodes, NEW c \in Calls, NEW r,
           applied' = [applied EXCEPT ![n] = @ \cup {[call |-> c, round |-> r]}]
    PROVE  /\ c \in Failing => AppliedOf' = AppliedOf
           /\ c \notin Failing => AppliedOf' = [AppliedOf EXCEPT ![n] = @ \cup {c}]
<1>1. \A k \in Nodes : CallsIn(applied'[k])
                       = IF k = n THEN CallsIn(applied[k]) \cup {c} ELSE CallsIn(applied[k])
  <2> SUFFICES ASSUME NEW k \in Nodes
               PROVE  CallsIn(applied'[k])
                      = IF k = n THEN CallsIn(applied[k]) \cup {c} ELSE CallsIn(applied[k])
    OBVIOUS
  <2>1. CASE k = n
    <3>1. applied'[k] = applied[k] \cup {[call |-> c, round |-> r]}
      BY <2>1 DEF TypeOK
    <3>2. CallsIn(applied[k] \cup {[call |-> c, round |-> r]}) = CallsIn(applied[k]) \cup {c}
      BY OneMoreCall
    <3> QED BY <2>1, <3>1, <3>2
  <2>2. CASE k # n
    BY <2>2 DEF TypeOK
  <2> QED BY <2>1, <2>2
<1>2. CASE c \in Failing
  <2>1. ASSUME NEW k \in Nodes
        PROVE  CallsIn(applied'[k]) \ Failing = CallsIn(applied[k]) \ Failing
    <3>1. (CallsIn(applied[k]) \cup {c}) \ Failing = CallsIn(applied[k]) \ Failing
      BY <1>2
    <3> QED BY <1>1, <3>1
  <2> QED BY <1>2, <2>1 DEF AppliedOf
<1>3. CASE c \notin Failing
  <2>1. AppliedOf' = [k \in Nodes |-> IF k = n THEN AppliedOf[k] \cup {c} ELSE AppliedOf[k]]
    <3>1. ASSUME NEW k \in Nodes
          PROVE  CallsIn(applied'[k]) \ Failing
                 = IF k = n THEN AppliedOf[k] \cup {c} ELSE AppliedOf[k]
      <4>1. AppliedOf[k] = CallsIn(applied[k]) \ Failing
        BY DEF AppliedOf
      <4>2. (CallsIn(applied[k]) \cup {c}) \ Failing = (CallsIn(applied[k]) \ Failing) \cup {c}
        BY <1>3
      <4> QED BY <1>1, <4>1, <4>2
    <3> QED BY <3>1 DEF AppliedOf
  <2> QED BY <1>3, <2>1 DEF AppliedOf
<1> QED BY <1>2, <1>3

\* A call that moves elsewhere changes its own outcome only.
LEMMA OneOutcome ==
    ASSUME TypeOK, NEW c \in Calls, NEW l \in Locations, pc' = [pc EXCEPT ![c] = l]
    PROVE  /\ \A d \in Calls \ {c} : Outcome(d)' = Outcome(d)
           /\ l = "commit" => Outcome(c)' = "committed"
           /\ l = "ok" => Outcome(c)' = "returned"
           /\ l = "error" => Outcome(c)' = "aborted"
           /\ l \in {"propose", "selfVote", "vote"} => Outcome(c)' = "pending"
<1>1. pc'[c] = l /\ \A d \in Calls \ {c} : pc'[d] = pc[d]
  BY DEF TypeOK
<1> QED BY <1>1 DEF Outcome

\* Entering doCommit decides a call that cannot fail.
LEMMA Decides ==
    ASSUME TypeOK, NEW c \in Calm, Open(c), Committed(c)
    PROVE  Abstract!Decide(c)
<1>1. c \in Calls /\ pc' = [pc EXCEPT ![c] = "commit"] /\ UNCHANGED applied
  BY DEF Committed, Calm
<1>2. OutcomeOf[c] = "pending"
  BY DEF OutcomeOf, Outcome, Open
<1>3. \A d \in Calm : Outcome(d)' = IF d = c THEN "committed" ELSE Outcome(d)
  BY <1>1, OneOutcome DEF Calm, Locations
<1>4. OutcomeOf' = [d \in Calm |-> IF d = c THEN "committed" ELSE Outcome(d)]
  BY <1>3 DEF OutcomeOf, Calm
<1>5. OutcomeOf' = [OutcomeOf EXCEPT ![c] = "committed"]
  BY <1>4 DEF OutcomeOf
<1>6. AppliedOf' = AppliedOf
  BY <1>1 DEF AppliedOf
<1> QED BY <1>2, <1>5, <1>6 DEF Abstract!Decide, OutcomeOf, AppliedOf, CallsIn, Calm

\* Its own commit handler is the last to apply it before the caller is told.
LEMMA Returns ==
    ASSUME TypeOK, NEW c \in Calm, DoCommit(c)
    PROVE  Abstract!Return(c)
<1>1. /\ applied' = [applied EXCEPT ![Caller[c]] = @ \cup {[call |-> c, round |-> round[c]]}]
      /\ pc[c] = "commit" /\ pc' = [pc EXCEPT ![c] = "ok"]
      /\ c \in Calls /\ c \notin Failing /\ Caller[c] \in Nodes
  BY CallerAssumption DEF DoCommit, Calm
<1>2. OutcomeOf[c] = "committed"
  BY <1>1 DEF OutcomeOf, Outcome
<1>3. \A d \in Calm : Outcome(d)' = IF d = c THEN "returned" ELSE Outcome(d)
  BY <1>1, OneOutcome DEF Calm, Locations
<1>4. OutcomeOf' = [d \in Calm |-> IF d = c THEN "returned" ELSE Outcome(d)]
  BY <1>3 DEF OutcomeOf, Calm
<1>5. OutcomeOf' = [OutcomeOf EXCEPT ![c] = "returned"]
  BY <1>4 DEF OutcomeOf
<1>6. AppliedOf' = [AppliedOf EXCEPT ![Caller[c]] = @ \cup {c}]
  BY <1>1, AppliedThere
<1> QED BY <1>2, <1>5, <1>6 DEF Abstract!Return, OutcomeOf, AppliedOf, CallsIn, Calm

\* The pending calls of some that end undecided are aborted together.
LEMMA Aborts ==
    ASSUME NEW D \in SUBSET Calm, UNCHANGED applied,
           \A c \in D : Outcome(c) = "pending" /\ Outcome(c)' = "aborted",
           \A c \in Calm \ D : Outcome(c)' = Outcome(c)
    PROVE  Abstract!Abort(D)
<1>1. \A c \in D : OutcomeOf[c] = "pending"
  BY DEF OutcomeOf
<1>2. \A c \in Calm : Outcome(c)' = IF c \in D THEN "aborted" ELSE OutcomeOf[c]
  BY DEF OutcomeOf
<1>3. OutcomeOf' = [c \in Calm |-> IF c \in D THEN "aborted" ELSE OutcomeOf[c]]
  BY <1>2 DEF OutcomeOf, Calm
<1>4. AppliedOf' = AppliedOf
  BY DEF AppliedOf
<1> QED BY <1>1, <1>3, <1>4 DEF Abstract!Abort, OutcomeOf, AppliedOf, CallsIn, Calm

\* An attempt that times out gives the call up or changes nothing that is seen.
LEMMA GivesUp ==
    ASSUME TypeOK, NEW c \in Calm, Open(c), AttemptFails(c), UNCHANGED applied
    PROVE  Abstract!Abort({c}) \/ UNCHANGED Abstract!vars
<1>1. c \in Calls /\ Outcome(c) = "pending"
  BY DEF Calm, Outcome, Open
<1>2. CASE pc' = [pc EXCEPT ![c] = "propose"]
  <2>1. \A d \in Calm : Outcome(d)' = Outcome(d)
    BY <1>1, <1>2, OneOutcome DEF Calm, Locations
  <2> QED BY <2>1, Stutters
<1>3. CASE pc' = [pc EXCEPT ![c] = "error"]
  <2>1. Outcome(c)' = "aborted" /\ \A d \in Calm \ {c} : Outcome(d)' = Outcome(d)
    BY <1>1, <1>3, OneOutcome DEF Calm, Locations
  <2> QED BY <1>1, <2>1, Aborts
<1> QED BY <1>2, <1>3 DEF AttemptFails

\* A COMMIT that comes applies a call that was decided, and may not be done yet.
LEMMA Applies ==
    ASSUME CommitInv, NEW m \in net, HandleCommit(m)
    PROVE  [Abstract!Next]_(Abstract!vars)
<1>1. /\ m.call \in Calls /\ m.to \in Nodes /\ m.type = "COMMIT"
      /\ applied' = [applied EXCEPT ![m.to] = @ \cup {[call |-> m.call, round |-> m.round]}]
      /\ pc' = pc
  BY DEF HandleCommit, CommitInv, TypeOK, Message, callVars
<1>2. OutcomeOf' = OutcomeOf
  BY <1>1 DEF OutcomeOf, Outcome
<1>3. CASE m.call \in Failing
  <2>1. AppliedOf' = AppliedOf
    BY <1>1, <1>3, AppliedThere DEF CommitInv
  <2> QED BY <1>2, <2>1 DEF Abstract!vars, OutcomeOf, AppliedOf, CallsIn, Calm
<1>4. CASE m.call \notin Failing
  <2>1. m.call \in Calm /\ pc[m.call] \in {"commit", "ok", "cut"}
    BY <1>1, <1>4 DEF CommitInv, AppliedIsCommitted, Entered, Calm
  <2>2. OutcomeOf[m.call] \in {"committed", "returned"}
    BY <2>1 DEF OutcomeOf, Outcome
  <2>3. AppliedOf' = [AppliedOf EXCEPT ![m.to] = @ \cup {m.call}]
    BY <1>1, <1>4, AppliedThere DEF CommitInv
  <2>4. Abstract!Apply(m.to, m.call)
    BY <1>2, <2>2, <2>3 DEF Abstract!Apply, OutcomeOf, AppliedOf, CallsIn, Calm
  <2> QED BY <1>1, <2>1, <2>4 DEF Abstract!Next, Calm
<1> QED BY <1>3, <1>4

\* A process that stops aborts the calls that have not entered doCommit.
LEMMA CrashAborts ==
    ASSUME TypeOK, NEW n \in Nodes, Crash(n)
    PROVE  [Abstract!Next]_(Abstract!vars)
<1> DEFINE D == {c \in Calm : Caller[c] = n /\ pc[c] \in {"propose", "selfVote", "vote"}}
<1>1. UNCHANGED applied /\ D \in SUBSET Calm
  BY DEF Crash
<1>2. \A c \in Calm : pc'[c] = IF Caller[c] = n THEN Stopped(pc[c]) ELSE pc[c]
  BY DEF Crash, Calm
<1>3. \A c \in D : Outcome(c) = "pending" /\ Outcome(c)' = "aborted"
  BY <1>2 DEF Outcome, Stopped
<1>4. \A c \in Calm \ D : Outcome(c)' = Outcome(c)
  BY <1>2 DEF Outcome, Stopped
<1>5. Abstract!Abort(D)
  <2> HIDE DEF D
  <2> QED BY <1>1, <1>3, <1>4, Aborts
<1> QED BY <1>1, <1>5 DEF Abstract!Next, Calm

LEMMA StepRefines == CommitInv /\ [Next]_vars => [Abstract!Next]_(Abstract!vars)
<1> SUFFICES ASSUME CommitInv, [Next]_vars PROVE [Abstract!Next]_(Abstract!vars)
  OBVIOUS
<1> TypeOK
  BY DEF CommitInv
<1>1. ASSUME UNCHANGED applied, \A c \in Calls : Outcome(c)' = Outcome(c)
      PROVE  UNCHANGED Abstract!vars
  BY <1>1, Stutters DEF Calm
<1>2. ASSUME UNCHANGED applied, NEW c \in Calls, NEW l \in {"propose", "selfVote", "vote"},
             pc[c] \in {"idle", "propose", "selfVote", "vote"}, pc' = [pc EXCEPT ![c] = l]
      PROVE  UNCHANGED Abstract!vars
  <2>1. Outcome(c) = "pending"
    BY <1>2 DEF Outcome
  <2>2. \A d \in Calls : Outcome(d)' = Outcome(d)
    BY <1>2, <2>1, OneOutcome DEF Locations
  <2> QED BY <1>1, <1>2, <2>2
<1>3. ASSUME NEW c \in Calls, Open(c), Committed(c)
      PROVE  [Abstract!Next]_(Abstract!vars)
  <2>1. CASE c \in Calm
    BY <1>3, <2>1, Decides DEF Abstract!Next, Calm
  <2>2. CASE c \in Failing
    <3>1. \A d \in Calm : Outcome(d)' = Outcome(d)
      BY <1>3, <2>2, OneOutcome DEF Committed, Calm, Locations
    <3> QED BY <1>3, <3>1, Stutters DEF Committed
  <2> QED BY <2>1, <2>2 DEF Calm
<1>4. ASSUME NEW c \in Calls, DoCommit(c)
      PROVE  [Abstract!Next]_(Abstract!vars)
  <2>1. CASE c \in Calm
    BY <1>4, <2>1, Returns DEF Abstract!Next, Calm
  <2>2. CASE c \in Failing
    <3>1. OutcomeOf' = OutcomeOf
      <4>1. \A d \in Calm : Outcome(d)' = Outcome(d)
        BY <1>4, <2>2, DoCommitType DEF Outcome, Calm
      <4> QED BY <4>1 DEF OutcomeOf, Calm
    <3>2. AppliedOf' = AppliedOf
      <4>1. CASE applied' = applied
        BY <4>1 DEF AppliedOf
      <4>2. CASE applied' = [applied EXCEPT ![Caller[c]] =
                                @ \cup {[call |-> c, round |-> round[c]]}]
        BY <2>2, <4>2, AppliedThere, CallerAssumption
      <4> QED BY <1>4, <4>1, <4>2 DEF DoCommit
    <3> QED BY <3>1, <3>2 DEF Abstract!vars, OutcomeOf, AppliedOf, CallsIn, Calm
  <2> QED BY <2>1, <2>2 DEF Calm
<1>5. ASSUME UNCHANGED <<pc, applied>> PROVE UNCHANGED Abstract!vars
  BY <1>1, <1>5 DEF Outcome
<1>6. ASSUME NEW c \in Calls, Advance(c) PROVE [Abstract!Next]_(Abstract!vars)
  <2>1. CASE Propose(c)
    BY <1>2, <2>1 DEF Propose
  <2>2. CASE \E r \in Rounds : StartRound(c, r)
    BY <1>2, <2>2 DEF StartRound
  <2>3. CASE SelfVote(c)
    <3>1. CASE Committed(c)
      BY <1>3, <2>3, <3>1 DEF SelfVote, Open
    <3>2. CASE pc' = [pc EXCEPT ![c] = "vote"] /\ UNCHANGED applied
      BY <1>2, <2>3, <3>2 DEF SelfVote
    <3> QED BY <2>3, <3>1, <3>2 DEF SelfVote
  <2>4. CASE Decide(c)
    BY <1>3, <2>4 DEF Decide, Open
  <2>5. CASE \E p \in Nodes : SendCommit(c, p)
    BY <1>5, <2>5 DEF SendCommit
  <2>6. CASE DoCommit(c)
    BY <1>4, <2>6
  <2> QED BY <1>6, <2>1, <2>2, <2>3, <2>4, <2>5, <2>6 DEF Advance
<1>7. ASSUME NEW c \in Calls, VoteTimeout(c) PROVE [Abstract!Next]_(Abstract!vars)
  <2>1. Open(c) /\ AttemptFails(c) /\ UNCHANGED applied
    BY <1>7 DEF VoteTimeout, Open
  <2>2. CASE c \in Failing
    <3>1. \A d \in Calm : Outcome(d)' = Outcome(d)
      BY <2>1, <2>2, AttemptFailsType DEF Outcome, Calm
    <3> QED BY <2>1, <3>1, Stutters
  <2>3. CASE c \in Calm
    BY <2>1, <2>3, GivesUp DEF Abstract!Next, Calm
  <2> QED BY <2>2, <2>3 DEF Calm
<1>8. ASSUME NEW m \in net, HandlePropose(m) \/ HandleVote(m) \/ Lose(m)
      PROVE  UNCHANGED Abstract!vars
  BY <1>5, <1>8 DEF HandlePropose, HandleVote, Lose, callVars
<1>9. ASSUME NEW n \in Nodes, NEW k \in Nodes, AliveChange(n, k)
      PROVE  UNCHANGED Abstract!vars
  BY <1>5, <1>9 DEF AliveChange, callVars
<1>10. CASE UNCHANGED vars
  BY <1>5, <1>10 DEF vars, callVars
<1> QED BY <1>6, <1>7, <1>8, <1>9, <1>10, Applies, CrashAborts, CallerAssumption
    DEF Next, TimelyNext, Handle

\* A call whose own commit handler cannot fail is decided once, on entering
\* doCommit or on giving up, and a node applies it, its caller's own last, only
\* when it is committed, wherever the process stops (consensus.go:64-149).
THEOREM AtomicCommitImplemented == Spec => ImplementsAtomicCommit
<1>1. Init => Abstract!Init
  <2> SUFFICES ASSUME Init PROVE Abstract!Init
    OBVIOUS
  <2>1. \A c \in Calls : Outcome(c) = "pending"
    BY DEF Init, Outcome
  <2> QED BY <2>1 DEF Init, Abstract!Init
<1>2. Init => CommitInv
  BY InitialTypes DEF Init, CommitInv, AppliedIsCommitted
<1> QED BY <1>1, <1>2, AppliedStep, StepRefines, PTL DEF Spec, ImplementsAtomicCommit, Abstract!Spec
=============================================================================
