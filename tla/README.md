# Verification of node_messager

node_messager is a ticket system for the branches (*sucursales*) of a company:
four nodes, one per branch, each with a SQLite file of its own, that talk over
TCP. There is no central server: a lock arbitrated by a master keeps two
branches from giving the same engineer two tickets, proposals with a majority
of votes carry every write, a heartbeat watches the peers, and an election
replaces a master that died.

This directory holds TLA+ models of that code, TLC configurations that check
them on small instances, and TLAPS proofs of what matters most for every value
of the constants. Paths below are relative to the repository.

- [Inventory](#inventory): the parts of the system
- [Modules](#modules): which module models what, and how
- [Runs](#runs): what is checked, on which instances, and why these are enough
- [Fairness and timing](#fairness-and-timing): what is assumed, and why
- [Proofs](#proofs): what holds for every value of the constants
- [Where the code falls short](#where-the-code-falls-short)
- [Not modelled](#not-modelled) and [Plan](#plan)

## Inventory

### How a node works

`cmd/main.go` opens the database, migrates and seeds it, raises the id counter,
builds the engines and starts the TCP server, the heartbeat and, on the node
that `nodes.json` names as `master_id`, a goroutine that claims mastership two
seconds later. Then the user works from a menu (`adapters/cli`).

A connection is read by one goroutine, but `pkg/hub` starts **one goroutine per
message**: messages of one sender are handled in any order and at the same
time. The dispatcher's switch (`internal/dispatcher`) hands each to an engine.
Outgoing messages go through a pool (`pkg/sender`) that keeps one connection
per peer. Nearly every caller ignores the error of a send, and nothing is
acknowledged or sent again below the level of a whole operation.

### Components

| Component | State | Operations | Talks to |
|---|---|---|---|
| Lock, `internal/mutex` | `holder`, `queue`, `grants` (a channel per waiting request) | `Acquire`, the release closure, `HandleLockRequest/Grant/Deny/Release` | the node it believes master (LOCK_*) |
| Consensus, `internal/consensus` | `rounds`: votes and a `done` channel per round | `Propose`, `doCommit`, `HandlePropose/Vote/Commit` | all peers believed alive; calls the commit handler |
| Election, `internal/election` | `running`, `okTimer` | `StartElection`, the timer callback, `ClaimMastership`, `HandleElection/ElectionOK/Coordinator` | lower peers (ELECTION), all (COORDINATOR); sets `State.masterID` |
| Heartbeat, `internal/heartbeat` | `missed`, `inFlight`, `pongChs`, per peer | `pingOne`, `declareDead`, `HandlePing/Pong` | peers (PING), master (NODE_DEAD); calls `StartElection` and `OnNodeDead` |
| Node state, `internal/nodestate` | `masterID`, `alive` | getters and setters under one mutex | read by everything above |
| Dispatcher, `internal/dispatcher` | none | one `Dispatch` | everything above |
| Tickets, `internal/service` | `idCounter`; rows live in the database | `RaiseTicket`, `CloseTicket`, `RedistributeTickets`, `AddDevice`, `distributeDevice` | lock, proposals, queries |
| Queries, `internal/service` | `queryWait`: a collector per query | `ListAll`, `HandleQuery`, `HandleQueryResponse` | peers believed alive |
| Commit handler, `cmd/main.go` | tables TICKETS, INGENIEROS, ... | one branch per operation | database |
| Database, `internal/db` | the file: schema version, tables | `migrate`, `Seed` | |
| Connection pool, `pkg/sender`, `pkg/tcpclient` | `conns`, a connection per peer; `done` of each | `get` (dials with the mutex held), `Send`, `readLoop` | the peer's server |
| Server and hub, `pkg/tcp_server`, `pkg/hub` | `broadcast`, a channel of 256 lines; a `readPump` per connection | accept, `readPump`, `Run` | the dispatcher, a goroutine per message |
| `pkg/msgstore`, `adapters/cli`, `config`, `logger` | a log of messages, menus | display | |

### What is hard, and what makes each part correct

- **Lock.** `acquireLocal` puts its entry into the queue and registers its
  channel under two separate critical sections. A timeout takes back neither the
  queue entry nor the holder at the master. A release goes to the node that is
  master *now*, and any node that is sent a LOCK_REQUEST arbitrates. Correct
  means: one client inside; at most one right to the lock in grants, channels
  and clients together; requests are served in the order of arrival; a send on
  a grant channel never blocks with the engine's mutex held.
- **Consensus.** The proposer votes after the broadcast, so votes of peers may
  be counted first; a vote may come after its round timed out; COMMIT is sent
  once and not acknowledged, to one peer after another, and the proposer applies
  it last, so peers may apply before it and, when its process stops, without it.
  Correct means: nothing is applied without a majority of all nodes for that very
  round; a call that gave up is applied by nobody; one that returned was applied
  by its own node.
- **Election.** The timer is set after ELECTION was sent and may outlive its
  election; its callback checks and declares victory in two steps; a
  COORDINATOR is believed whoever sends it. Correct means: the lowest node
  that is up becomes master for all, and `running` never stays set for good,
  for with it set a node ignores every later election.
- **Heartbeat.** PONGs carry no id, so a late one answers a newer ping; check
  and act of `declareDead` are separate. Correct means: one reaction per death,
  count and view agree, a node that stays down is noticed by all and its
  tickets are handed to the master, though every NODE_DEAD may be lost.
- **Tickets.** A raise is a read of all nodes and three proposals, the last two
  of which may fail silently; COMMITs arrive after the lock was given up;
  closing and redistributing take no lock. Correct means: an engineer has at
  most one open ticket, one that has a ticket is not offered, a raise makes one
  ticket however often it retries, and a ticket gets a second row only when its
  node was given up.
- **Queries.** Answers may arrive before the failed sends were taken off the
  expected number, and after the query ended. Correct means: complete unless it
  timed out, no wait for answers that cannot come, an end always.
- **Devices.** The master counts devices in two queries and assigns one without
  a lock, each ADD_DEVICE in a goroutine of its own. Correct means: nobody gets
  more devices than another by more than what is added at once, and a device a
  user adds is stored or its failure is known.
- **Transport.** A dial holds the pool's mutex; a failed send deletes whatever
  connection is in the pool by then; a reader that finds the hub's channel full
  waits, and with it the writer at the other node. Correct means: a message is
  handled at most once, and only if it was sent; nobody waits for ever; no
  connection is dialled twice at once.
- **Start.** The process may stop between any two statements. Correct means:
  the recorded version never runs ahead of the schema, and no id is drawn twice.

`PROJECT.json` lists every hazard at its line, with the properties that watch it.

## Modules

| Module | Models | State of the code it has |
|---|---|---|
| `FifoLock` | what the lock promises: a line of requests, the first may be inside | |
| `Mutex` | `internal/mutex` | `holder`, `queue`, `grants`, the buffered channel of each request, `masterID`, a client's place in `Acquire` |
| `MutexProofs` | proofs about `Mutex` | |
| `AtomicCommit` | what a proposal promises: decided once, applied only if committed, the caller told after its own node applied it | |
| `Consensus` | `internal/consensus` | `rounds`, `yes`, `done`, `alive`, a call's attempt and round |
| `ConsensusProofs` | proofs about `Consensus` | |
| `Election` | `internal/election`, the reaction of `internal/heartbeat` to deaths and returns, NODE_DEAD | `running`, `okTimer` (`armed`, `stale`), goroutines between two critical sections (`spawned`, `sent`, `expired`), `masterID`, `alive` |
| `Heartbeat` | `internal/heartbeat`, goroutine by goroutine | `missed`, `inFlight`, `pongChs`, `alive`, the place of each `pingOne` |
| `HeartbeatProofs` | proofs about `Heartbeat` | |
| `QueryCollector` | `ListAll`, `HandleQuery`, `HandleQueryResponse` | `queryWait`, `expected`, `results`, `done` |
| `QueryProofs` | proofs about `QueryCollector` | |
| `TicketService` | `RaiseTicket`, `CloseTicket` with the menu entry that calls it, `RedistributeTickets`, the commit handler | TICKETS and INGENIEROS of each node, COMMITs under way, where each user and redistribution is |
| `TicketProofs` | proofs about `TicketService` | |
| `NodeStartup` | `migrate`, `Seed`, `SetMinIDCounter`, `newID` | schema version, tables, rows, the seed rows not yet read, `idCounter` |
| `NodeProofs` | proofs about `NodeStartup` and `Election`, what a node does by itself and among the others; so these two modules share no name | |
| `DeviceService` | `AddDevice`, `HandleAddDevice`, `distributeDevice`, `AddIngeniero`, their part of the commit handler and the database | INGENIEROS and DISPOSITIVOS of all nodes, `idCounter` of each process, `masterID`, where each device is |
| `DeviceProofs` | proofs about `DeviceService` | |
| `Network` | what the transport promises: handed over once, handled at most once | |
| `Transport` | `pkg/sender`, `pkg/tcpclient`, `pkg/tcp_server`, `pkg/hub` | `conns` and the holder of `Pool.mu`, both ends and the buffers of each connection, `broadcast`, the goroutine of each `Send` |
| `TransportProofs` | proofs about `Transport` | |
| `MCMutex`, `MCConsensus`, `MCTicketService`, `MCNode`, `MCDeviceService`, `MCTransport` | values of constants, bounds and symmetry for TLC | |

`FifoLock` and `AtomicCommit` tie the modules together: `Mutex` and `Consensus`
are checked and proved to implement them, and `TicketService` uses a lock and proposals
that do what they promise (one client inside; applied by every node in its own time,
or never, by the proposer last, before the call returns). In the same way it uses a query that
returns the rows of those that answered, which is what `QueryCollector` shows
of `ListAll`. `Network` is the set of messages the other modules have for a
network, and `Transport` is checked and proved to implement it.

### Conventions

- One action is one critical section, or one step between two points where
  another goroutine can get in: a send, a receive, an unlock. Where code reads
  under a mutex, unlocks and acts, the model has two actions and a counter or a
  location in between: `AcquireLocalEnqueue` / `AcquireLocalRegister`,
  `OkTimerExpires` / `DeclareVictory`, `AskAlive` / `MarkDead` / `React`.
- The network is a set of messages where a message is unique (its uuid), a bag
  where two equal ones can be under way. Any message may be handled next: that
  is the goroutine per message of `hub.go:66`. Nothing is duplicated, because
  nothing is sent twice under one uuid.
- A uuid is a member of a small set and is drawn once.
- `\* Fault:` marks a definition that is no part of the model: a plausible
  mistake in the definition below it. Each property is known to fail under one.
- *Bound* marks a constant or a guard that is there for TLC only.

### Mutex

A client is a goroutine in `Acquire`. `ChooseWay` is the one read of
`IsMaster`; the local way is `AcquireLocalFree` or `AcquireLocalEnqueue`,
`AcquireLocalRegister`, then `AcquireLocalGranted` or `AcquireLocalTimeout`; the
remote way is `AcquireRemoteSend` and its two ends. `AttemptFails` is the retry
loop of `Acquire`. `ReleaseLocal` is shared by the master's own release and by
`HandleLockRelease`: it makes the head of the queue the holder and either fills
its channel or sends a LOCK_GRANT. `Lose`, `MasterChange` and `Restart` are the
environment. `Spec` has one master for ever, with losses and timeouts;
`FailoverSpec` adds changes of the master a node believes in, and restarts;
`TimelySpec` has neither losses nor timeouts and is fair.

### Consensus

`StartRound` is `propose` up to the broadcast, `SelfVote` the proposer's own
vote, which may already find the majority, `Decide` the receive on `done`,
`VoteTimeout` the other branch of the select. Both enter `doCommit`
(`Committed`): `SendCommit` sends to one peer, and when none is left `DoCommit`
runs the commit handler, whose error is the error of the attempt; `Failing` says
for which calls it may fail, and the properties say what holds of the others: a
call whose own handler failed has sent COMMIT and then tries again, so it may be
applied elsewhere under several rounds. PROPOSE is sent in one step: a send that
comes later is a message that takes longer, since nothing else happens in
between. `Crash` stops the process of a proposer at any point and starts it again:
its calls end where they are, `gone` or, in the middle of `doCommit`, `cut`. An alive
set is read when a round starts, so `AliveChange` is taken there only.

### Election

`spawned` counts goroutines about to call `StartElection` (the handler and the
heartbeat start them), `sent` those that sent ELECTION and have not set the
timer, `armed` is the timer `okTimer` refers to, `stale` one it no longer refers
to but that is still set, `expired` a callback that saw `running` and has not yet
declared victory. `leftover` marks a timer set after its election had been
answered. `SuspectLive` declares a node dead that is up. `hasty` is history: the nodes
one of whose timers ended an election to which an answer was under way.

`MCNode` puts `Election`, on four nodes, and `NodeStartup` into one run. The two share
neither a variable nor an action, so a behaviour of `NodeSpec` moves one and leaves
the other as it begins: the states of the two are added, where interleaving would
multiply them and show nothing more.

### Heartbeat

Pings of different peers share no state, so the module follows those of one
`target`, chosen at the start: the master or another node. A tick starts a
goroutine `pingOne`, whatever still runs; its select may take the timer when a
token is there too. `Election` has all of this as one action and adds the
changing masters, `Heartbeat` has the interleavings inside it.

### TicketService

`user[n]` is where the user of node n is in a raise or a close, `task[t]` a
redistribution. A query (`Ask`, `Answer`, `QueryTimeout`) reads every node at a
moment of its own. `CommitHandler` is the closure of `main.go`: INSERT OR IGNORE
at the row's node, UPDATE by id. A proposal needs a majority of nodes that are
up. COMMITs that cannot change a table of their receiver are left out. A
CLOSE_TICKET changes a row at the ticket's node and one at the engineer's, so it is
sent (`CloseTicket`) and applied by its proposer (`ApplyClose`) in two steps, between
which others may have applied it, and the proposer may stop or its handler fail. What
the other operations change is at one node: `Commit` sends them and applies them at
once, since either the proposer or the one receiver has a use for them. A handler that
fails at another node is `Lose`.

`doubtful` is history. It collects the engineers about whom a node acted on something
that was no longer, or not yet, so: who was shown to a raise as free while his mark or
his release was on its way (`ReadEarly`), whose ticket was closed when it was closed
already, to whom a ticket was reassigned without the lock (`Misused`), and whose change was
lost, with a message, a handler or a process (`Undone`, `MarkFails`, `Crash`). No guard
reads it. The properties about the lock say of all other engineers what the code
promises of all.

### DeviceService

Devices are numbered as users add them; `place[d]` follows one from the menu to
the table of the engineer's node, `at[d]` is the node that handles it.
`AddDevice` and `SendToMaster` are the two reads of `masterID`; the answer to
either may be out of date. `ReadEngineers` and `ReadDevices` are a node's answer
to the two queries of `distributeDevice`, `QueryFails` the error when the distributor
cannot read its own table (a peer that cannot does not answer, which is
`QueryTimeout`), `CountDevices` what lies between them, `CommitFails` a handler that fails,
`Choose` the choice and the id. Who comes first among the engineers with the
fewest devices depends on the order of the rows, which `Precedes` says as far as the
code fixes it. A node's rows are one table with the owner in each row.

### NodeStartup

A start goes through `migrate`, whose versions are recorded one statement after they
are applied, and through `Seed`, row by row; `ProcessStops` is possible between any two
statements. `left` is the rows `Seed` has not come to: each moves `maxCounter`, whether
INSERT OR IGNORE wrote it or found it there (`seed.go:57-88`). A query for the version
that fails is taken for version 0, as `Version` does. A node that serves
draws ids for rows of its own (`Insert`), which may or may not be written, and for
others (`DrawOther`); devices of its own get their ids also from the process of the
master, whose counter is another one (`InsertForeign`, counters from `Elsewhere`).

### Transport

One goroutine sends one message. `GetUnpooled` takes the mutex of the pool and
`Dial` or `DialFails` gives it back; `Write` needs room in the buffers, which are
those of the sender's kernel, the receiver's and the scanner together; a write to an
end that was closed is lost or fails, and one that fails ends in `Delete`. `Serve`
stands for `Accept` and the registration, `ReadPump` for one turn of the loop,
`Run` for one turn of the hub's: the handler of a request sends a reply. A line
longer than the scanner's megabyte ends the pump (`ReadPumpEnds`). `Break` is the
network, or the death of the receiver.

## Runs

| Run | Instance | Shows |
|---|---|---|
| `mutex_stable` | 3 nodes with a client each, 4 requests, 2 attempts | under one master, with losses, timeouts and retries: one client inside, one right to the lock, no waiter behind a free lock, requests served in the order of arrival (`ImplementsFifoLock`) |
| `mutex_failover` | 2 nodes with a client each, 3 requests, at most 2 messages under way | whatever node is thought master and whatever restarts: no request is twice in line, no send on a channel blocks, nothing but its own release or a death takes the lock from a client |
| `consensus` | 3 nodes, 2 concurrent calls, one of which may fail to apply, 2 rounds, at most 4 messages under way, processes that stop | applied only with a majority for the round that is applied; a late vote decides nothing; `ImplementsAtomicCommit` |
| `election_failover` | 3 nodes, a crash and a restart, or a wrong suspicion | every node ends with a master that is up, and none stays in an election |
| `node_parts` | 4 nodes, a crash of any of them | of the nodes that are up one that is not the lowest announces itself only after a timer of its own ended an election about to be answered; after one death all come to rest on a master that is up, on the lowest if no timer did so |
| | 4 starts of one node cut short anywhere, 3 ids drawn by the node or, for its devices, elsewhere | the schema is never behind its recorded version; the process that seeds draws new ids, but for devices another process gave theirs |
| `heartbeat` | 2 nodes ping a third, `maxMissed` 2, a crash, a restart | a goroutine that waits can be answered, one reaction per death, count and view agree, a death is noticed and redistributed |
| `tickets_reliable` | 3 nodes, 2 engineers, 2 users who raise and close, 3 tickets, 2 closes, COMMITs as late as they like | an engineer gets a second ticket, or is offered while he has one, only if he was shown as free while a change of his was on its way, or his ticket was closed twice |
| `tickets_failures` | the same with one ticket, failing proposals, lost COMMITs, timeouts, a crash, restarts, a redistribution | one ticket per raise; a ticket has at most one row more than there were redistributions for a node that has it |
| `devices` | 2 nodes, 3 engineers, one of them added later, 3 devices, 2 at once, a change of mind about the master | even distribution in spite of old counts; under one master every device that is not lost is stored, or its error known |
| `transport` | 2 nodes, 3 concurrent requests and their replies, one of them too long, 6 connections, 2 lines in each buffer, one fault | `ImplementsNetwork`; every send ends; connections multiply only by sends that failed |
| `query_one` | a query to at most 3 peers | complete in time, no useless wait, always an end |
| `tickets_unseen` | as `tickets_failures` | refutes `DeadTicketsReassigned`: see below |

Deadlock is not checked: each model may come to rest, when all users have
done all they do within the bounds.

**Why the bounds are enough.** Every safety property the runs check is also a theorem:
for all values of the constants, or for all that meet a condition the theorem states.
So the bounds matter for liveness, and for the traces. *Lock:* an error needs a request that was given
up, one that holds and one that waits; the fourth request gives one of the three
clients a retry. Three nodes give a master, a holder and a waiter on different
nodes. In `mutex_failover` two nodes are each the other's rival master; a message more
under way multiplies the states and adds only messages about other requests.
*Consensus:* three nodes are the least with a majority other than all; two
rounds give one call a retry, or each a round. *Election:* three nodes give a
dead master, the next one and one that steps down. A timer left of one election that
ends another takes four (the dead one, one that answers, one that gave up, one above it
that asks it again), which is what `nodes.json` has: `node_parts` has them, with a death and no return, 650 thousand states.
With a return there are more than ten million, so that liveness
through returns and suspicions is checked on three. The theorem `NeverStuck` covers
`RunningHasTimer` with any number of failures and messages of any delay. A behaviour has a crash or a
suspicion, not both: with both the election may settle on a dead node, as with two deaths. *Heartbeat:* with `maxMissed` 2 there is a count that is neither
zero nor full; one PONG under way besides the ping that waits is the late one.
*Tickets:* two engineers at two nodes, and a third node without any, are what
a local preference, a remote assignment and a majority need; two users who close may
select the same ticket, and the third id gives an engineer freed twice a second
ticket. *Devices:* two at once race with each other, the third
meets what they left; both nodes may distribute, to engineers of their own and of the
other, and the engineer that is added meets others that have devices.
`EvenSpread` was also run on four devices with two at once and on five one by one.
*Transport:* three goroutines let one dial, one wait for the mutex and one come when
the connection has broken; a Send dials at most
once, so six messages need no more than six connections. Both
directions at once, with buffers of one line, are `transport_duplex.cfg`. *Query:* three
peers let one fail, one answer early and one late; two queries at once, of two
peers each (`Calls = {q1, q2}`), pass as well. *Start:* four starts let each
of the migrations and the seed be cut short once.

### Further configurations

These are kept beside the runs; run them with
`tlc -config <name>.cfg <module>`.

| Configuration | Module | Outcome |
|---|---|---|
| `mutex_remote_wait` | MCMutex | passes: `RemoteWaiterServed`, a client of another node that waits is served when nothing is lost |
| `consensus_all_up` | MCConsensus | passes: `EveryNodeApplies`, with all nodes up and nothing late |
| `transport_duplex` | MCTransport | passes: `EverySendEnds`, six requests both ways with buffers of one line; if `Run` called the dispatcher itself (the fault `RunWaits`) two hubs could wait for each other, and it would fail. It takes three minutes, and the fault two |
| `mutex_local_wait` | MCMutex | refutes `LocalWaiterServed` |
| `mutex_two_masters` | MCMutex | refutes `MutualExclusion` when the master changes |
| `mutex_dead_holder` | MCMutex | refutes `HolderHasClient` |
| `election_leftover_timer` | Election | refutes `OnlyLowestAnnounces`, which is `OnlyHastyAnnounce` without its exception, on the four nodes of `node_parts` |
| `election_voter_dies` | Election | refutes `SettledOnLive` |
| `election_reclaim` | Election | refutes `SettledOnLowest` |
| `election_dead_master` | Election | refutes `DeadAreRedistributed` |
| `tickets_late_commit` | MCTicketService | refutes `NoDoubleAssignment` with late COMMITs |
| `tickets_stale_close` | MCTicketService | refutes `NoDoubleAssignment` with two users that close, though every COMMIT is in time |
| `tickets_lost_engineer` | MCTicketService | refutes `IdleAreFree` |
| `devices_two_counters` | MCDeviceService | refutes `AppliedIsStored` when two processes draw from equal counters and the master changes |
| `devices_query_timeout` | MCDeviceService | refutes `EvenSpread` when a query times out |
| `devices_dropped` | MCDeviceService | refutes `NothingDropped` when the master changes |
| `transport_orphan` | MCTransport | refutes `OneConnection` |
| `transport_slow_dial` | MCTransport | refutes `NoWaitForOthers` |
| `startup_reused_id` | MCNode | refutes `NoIdTwice` |
| `startup_added_column` | MCNode | refutes `MigrationsCanBeRepeated` |

## Fairness and timing

Safety runs assume nothing of time: any timer may expire at any moment and any
message may take for ever, but for these.

- `election_failover` and `node_parts` (`TimelySpec` of `Election`) take the constants of the
  code at their word: a round trip is shorter than `okTimeout` (3 s), what a
  dead node sent has been handled by the time it is declared dead (three pings,
  5 s apart), and what was announced before has been handled when the initial
  master claims mastership (2 s after its start). But for
  `SuspectLive`, which says that PINGs or their answers were late, only nodes that are
  down are declared dead. Without these the bully algorithm promises no agreement.
  A timer whose election was answered before it was set is under no such
  assumption: it may fire at any time, in an election of its node that has
  just begun.
- `tickets_stale_close` and `tickets_lost_engineer` (`TimelySpec` of `TicketService`) handle
  a COMMIT before the next query of its receiver, so that their traces owe nothing to
  late ones. The runs and the theorems do not.

Fairness is weak and on what a node that is up does on its own: goroutines of
the Go scheduler run, a ticker ticks, a timer that is set expires, a message
whose delivery did not fail is handled, since each has a goroutine of its own.
It is never on a crash, a restart, a loss, a suspicion, or the choice of a
user. In `Heartbeat` the two branches of a select are under one fairness
condition, so that neither is forced: `DeathIsNoticed` and
`DeathIsRedistributed` hold although the select may prefer either, and although
the send of NODE_DEAD may always fail, because the master itself pings every
node. In `QueryCollector` no answer is fair: `EveryCallReturns` rests on the
timer alone. In `DeviceService` a step of `distributeDevice` and the handling of a
message that is not lost are fair, whatever the proposal's outcome. In
`Transport` the goroutines of senders, of readers and of the hubs are fair, and so is
the end of a dial, which the kernel bounds; so neither a lock nor a channel is
ever assumed to become free. A break and a suspicion are never fair.

## Proofs

Eight modules hold the proofs. Each theorem is about every value of the
constants: any nodes, clients, calls, messages, buffers, attempts, crashes. Where a
theorem states a property of a run, the run shows it on a small instance and
would show a trace if the model changed; the theorem covers the rest.

| Module | Theorem | States | Inductive invariant |
|---|---|---|---|
| `MutexProofs` | `TypeCorrect`, `TokenUnique`, `Exclusion`, `QueueServed` | `Spec => []TypeOK`, `[]OneToken`, `[]MutualExclusion`, `[]NoIdleQueue` | `IInv` |
| | `FifoLockImplemented` | `Spec => ImplementsFifoLock` | `IInv`, `OneStage`, `ClientInv` |
| | `FailoverTypeCorrect`, `RequestInOnePlace`, `GrantsNeverBlock` | `FailoverSpec => []TypeOK`, `[]OnePlace`, `[]GrantNeverBlocks` | `OneStage` |
| | `HolderIsKept` | `FailoverSpec => HolderKept` | `ClientInv` |
| `ConsensusProofs` | `TypeCorrect`, `CommitsHaveQuorum` | `Spec => []TypeOK`, `[]CommitHasQuorum` | `IInv` |
| | `AtomicCommitImplemented` | `Spec => ImplementsAtomicCommit` | `CommitInv` |
| `NodeProofs` | `NeverStuck`, `TimelyNeverStuck`, `ElectionTypes` | of `Election`: `Spec` and `TimelySpec => []RunningHasTimer`, `Spec => []TypeOK` | `EngineInv`, `ElectionInv` |
| | `OthersWereHasty` | `Spec => []OnlyHastyAnnounce` | `VoteInv` |
| | `OneDeathSettles` | `TimelySpec => []RestAfterOneDeath` | `VoteInv`, `DeathInv` |
| | `SchemaIsRecorded`, `SeederIdsAreNew` | of `NodeStartup`: `StartupSpec => []SchemaMatchesVersion`, `[]SeederDrawsNewIds` | `SchemaInv`, `SeedInv` |
| `DeviceProofs` | `DeviceTypes`, `DevicesEven` | `Spec => []TypeOK`, `CompleteSpec => []EvenSpread` | `DeviceInv`, `SpreadInv` |
| `HeartbeatProofs` | `TypeCorrect`, `AlwaysReachable`, `ReactsOnce`, `ViewFollowsCount` | `Spec => []TypeOK`, `[]WaiterIsReachable`, `[]OneReaction`, `[]ViewMatchesCount` | `IInv` |
| `TicketProofs` | `TypeCorrect`, `RaisesOnce`, `CopiedByRedistribution` | `Spec => []TypeOK`, `[]OneTicketPerRaise`, `[]CopiesOnlyOfGivenUp` | `TypeInv`, `BornInv`, `CopyInv` |
| | `NoEngineerTwice`, `BusyEngineersMarked` | `Spec => []TwiceOnlyIfDoubtful`, `[]FreeOnlyIfDoubtful` | `AssignInv` |
| `QueryProofs` | `TypeCorrect`, `AnswersComplete`, `NeverWaitsInVain` | `Spec => []TypeOK`, `[]CompleteInTime`, `[]NoUselessWait` | `IInv` |
| `TransportProofs` | `TypeCorrect`, `NetworkImplemented`, `FewConnectionsOpen` | `Spec => []TypeOK`, `ImplementsNetwork`, `[]FewConnections` | `TypeInv`, `OnePlace`, `DialsAlone`, `FewForgotten` |

The assumptions are the named ASSUMEs of the module a proof is about: sets are
finite where they are counted (nodes, peers, redistributions), a value for
"nothing" (`Free`, `NoRound`, `None`, `NoGoroutine`) is not one of the others, every
client, call and engineer has a node, bounds are natural numbers, and sizes and
attempts at least one. Two say more of the program: `EngineersAssumption` of
`NodeStartup`, that a seed with any row has an engineer, which holds of
`seed.json` and without which `Seed` would run again on a database in use, since
it looks at INGENIEROS only (`seed.go:47-55`); and that the ids of nodes and
redistributions differ, as they name goroutines.

### Lock

`MutualExclusion` is not inductive: nothing in it keeps a second grant from
being on its way. `OneToken` says where the right to the lock can be: in a
LOCK_GRANT or LOCK_RELEASE under way, in the channel of a request, or with a
client; there is one of these at most and it belongs to the request the
master's engine has as holder. That is inductive together with `OneMaster`, which
says that only the initial master's engine ever holds, queues or is sent
requests and that local clients live there, and with `NoIdleQueue`. The
invariant is `IInv == TypeOK /\ OneMaster /\ NoIdleQueue /\ OneToken`.
The steps fall into those that move the right from one place to the next
(`MoveSteps`: a grant handled, a channel read, a release sent), that hand it
to the next in line (`ReleaseSteps`), that create the first one
(`TakeSteps`, from `FreeHasNoTokens`: a free lock has no right anywhere) and that
leave it alone (`QuietClientSteps`, `QuietNetSteps`). A timeout is a quiet step:
the grant that comes later is dropped or read by nobody, and stays the only one.

`FifoLockImplemented` maps the holder and the queue of the master's engine to the
line. That a request joins once needs `OneStage`, and that only its first
leaves needs `ClientInv`: a release under way is that of a client that is out.

With changing masters `IInv` is lost, and what remains is about one request:
it is on its way, in one queue at one place, or granted (`OneStage`); no other client
has it, and its release is sent when its client is past it (`ClientInv`). `OnePlace`,
`GrantNeverBlocks` and `HolderKept` follow, and none is inductive without what is
on its way.

### Consensus

`CommitHasQuorum` needs the count `yes` to be a number of different nodes. The
invariant adds that a uuid not drawn is nowhere (`FreshRounds`), that a round is of
one call (`RoundsApart`), that a peer's vote is on its way, or to come, or
counted, and only one of these (`OneVoteEach`), so that in an open round `yes` is the
number of peers counted and one more once the proposer voted (`VotesCounted`), and
whoever is in `doCommit` has a majority (`EnteredWithQuorum`). For
`AtomicCommitImplemented` a COMMIT, or a row applied, has to be of a call that
entered `doCommit`: that holds of the calls whose own handler does not fail, and is
what `CommitInv` says; the abstract value of a call is where its `Propose` is.
Decided is entering `doCommit`, applied by its own node is its end, and a process
that stops aborts all its calls before `doCommit` in one step.

### Election

Each step of the engine turns one of the things that will reset `running` into the
next: a StartElection that has yet to set its timer, the timer, its callback
(`EngineInv`). Nothing about the network is used, so `NeverStuck` holds for messages of
any delay and any number of failures; `TimelyNeverStuck` is the same of
`TimelySpec`, whose steps are among those of `Spec`.

`OnlyHastyAnnounce` is about what a node may conclude from silence. Until a node
comes back or is suspected wrongly (`Unharmed`), a node that is up is held alive by
all (`ViewsHold`), so whoever finds nobody lower alive is the lowest; and as long as a
node is in an election, each lower node that is up has its ELECTION under way or
an answer to the node is (`AnswersDue`). So a timer that expires when nothing is under
way finds the lowest node, and from then on that node stays the lowest. These are the
parts of `VoteInv`. A timer that expires when an answer is under way makes its node
hasty: that of the election, if a round trip takes longer than `okTimeout`, or, however
fast messages are, one left of an earlier election, which on four nodes does happen
(`election_leftover_timer.cfg`). The theorem is about `Spec`, where messages take any
time, and says that nothing else makes a node announce itself out of turn: no death in
the middle of an election, no order of views, answers and announcements.

Where the nodes come to rest is `SettledOnLive` and `SettledOnLowest`. Both are false
in general (`election_voter_dies`, `election_reclaim`), and `RestAfterOneDeath` says
when they hold: while at most one node has died, none has come back and none was
suspected wrongly, and for the second, none was hasty. Before somebody declares the
initial master dead nobody elects (`MasterQuiets`, `Unaware`); by then nothing it sent
is under way, so every announcement is that of another (`NewsOrdered`, `MasterSilent`).
From then on (`Vacancy`) there are two cases, with nodes that were hasty or without. Whoever
announces itself, rightly or not, tells all the others: either nobody has been told of
a new master, or everybody has or will be (`AllTold`), so that nobody is left with the
dead one. And somebody does announce itself, since no answer reaches the lowest of those that are up:
while it has been told of nobody it has the means to elect itself (`Heir`). If nobody was hasty it is the
only one to announce itself, and whoever has not followed has the announcement under
way (`Succession`). `DeathInv` puts these together; that the nodes do come to rest is
liveness, and TLC's.

The theorems about announcements assume that the initial master has the
lowest id, as `master_id` of `nodes.json` has, and bound neither crashes nor messages.

### Devices

`EvenSpread` compares what two engineers have. For every level l, engineer e above
it and engineer f of the seed not above it, `SpreadInv` bounds what e has
and what the devices under way may still bring him: whoever counts after e
passed l finds him above f and passes him over, so only devices that had counted
before, or had chosen him, are left (`Rivals`), and these were all under way
at once with the one that took him past l. The hypothesis is in `CompleteSpec`: no query
times out. `devices_query_timeout.cfg` shows that it cannot be dropped.

### Heartbeat

None of the three invariants is inductive: `inFlight` has to be shown to do its work. The
invariant is `TypeOK` and, for each node, `Alone` (at most one goroutine is past
the test of `inFlight`, and none of a node that is down), `Reachable`, and `Stage`,
which says what view, count and history are at each place of that one goroutine:
after `IsAlive` was true the peer is still held alive, since nobody else can have
marked it dead. Goroutines of other nodes touch nothing of a node (`OthersKeep`).

### Tickets

Types already need an argument: one variable takes the answers to every query, so
`TypeInv` says which answers each place of a user or a redistribution finds there.
`RaisesOnce` follows from what an attempt has done when it may be tried again:
nothing (`BornInv`). For `CopiedByRedistribution` the rows of an id, with those
that COMMITs and redistributions are about to make, are counted against the
redistributions run for a node that has the id: each reads a ticket once and
inserts it at one node (`CopyInv`).

`NoEngineerTwice` and `BusyEngineersMarked` hold of `Spec`, with every failure, any
number of users who close, late COMMITs and redistributions. `AssignInv` follows each
engineer who is not in doubt (`Sound`): he has one open ticket at most that nobody is
closing, in one row; while he has it his row says so, or the COMMIT that will is on its
way, or the raise that sends it has the lock still; and when a release of his is on its way,
or a query showed him free to the raise that has the lock, he has none. That every change of the tables
either keeps this or puts him in doubt is shown once for each kind of change: rows that
go, rows that come, a query's answer, a proposal's COMMITs, their handling and their loss
(`Shrinks`, `Grows`, `Looks`, `Sends`, `Applies`, `Drops`). It rests on `CopyInv`, by which
a ticket no redistribution has read is at one node. The exceptions are all needed:
`tickets_late_commit` and `tickets_stale_close` show an engineer who is in doubt and gets
two tickets.

### Query, start, transport

`QueryProofs`: `expected` is at any time the number of peers less the failed sends that
were taken off it, and the answers counted are those of different peers that were
reached (`ExpectedCounts`, `AskedAnswer`); so `done` is closed exactly when the last of
them has answered (`ClosedIsComplete`, `CompleteIsClosed`).

`NodeProofs`, of the start: `SchemaInv` says what each place of `migrate` has done. `SeedInv` says that
rows go in engineers first, so that a database without engineers is empty and
only such a one is seeded, and that `maxCounter` is not below any row that is
there while `Seed` runs.

`TransportProofs`: a message is in one buffer, at one place, or on one channel, or
dispatched, and only one of these (`OnePlace`), which makes each step one of
`Network` or a stutter. Who dials holds the mutex and has found nothing usable
(`DialsAlone`), and an open connection that the pool has forgotten was deleted by a
Send that failed (`FewForgotten`).

### What is only model-checked

- **Liveness** under fairness is out of reach of the proof system: `EventuallyLive`, `DeathIsNoticed`, `DeathIsRedistributed`, `EveryCallReturns`,
  `EveryDeviceStored`, `EverySendEnds`.
- What further configurations refute, of course, and the two that pass
  (`RemoteWaiterServed`, `EveryNodeApplies`), which are liveness too.

## Where the code falls short

What the models show of the code. Where a configuration is named TLC prints the
trace; the others follow from what an action does.

1. **Tickets of a dead node are never reassigned** (`tickets_unseen`).
   `RedistributeTickets` asks the nodes that are alive for the open tickets of the
   dead one (`ticket_service.go:304`). Its rows were at that node only.
2. A client of the master may wait in vain (`mutex_local_wait`). Between the
   queue entry and the registration of its channel (`mutex.go:107-114`) a release
   makes it the holder, finds no channel and sends a LOCK_GRANT over TCP to the
   node itself; handled before the registration, it is dropped. The client waits
   until its timeout while the engine holds the lock for it, for ever.
3. A change of master makes a second holder: the new one starts with a free lock
   (`mutex_two_masters`).
4. A request that was given up keeps its place in line, and its lock once it is
   granted: nobody releases it (`mutex_dead_holder`).
5. The majority is of all nodes, not of those alive, which a comment of
   `state.go:56` says: with two of four nodes nothing can be committed.
6. An ELECTION_OK handled before the timer is set leaves the timer behind, and it
   ends a later election for the wrong node (`election_leftover_timer`). Two nodes may then
   announce themselves, and which of them each of the others takes for the master depends on
   the order in which it handles the announcements; after one death it is at least one
   that is up (`OneDeathSettles`).
7. A node that answers OK and dies leaves the others with a dead master, since
   none takes it for the master (`election_voter_dies`). That takes a second
   death: after one they do settle on a node that is up (`OneDeathSettles`).
8. When the first master returns during an election, nodes may settle on
   different masters (`election_reclaim`).
9. The tickets of a dead master are redistributed by nobody
   (`election_dead_master`).
10. An engineer may get two tickets when the COMMIT that marks him is slower than
    the next raise's query (`tickets_late_commit`), or when two users close the
    same ticket and the second close frees him again (`tickets_stale_close`); and
    an engineer may stay marked without a ticket (`tickets_lost_engineer`). But for
    a redistribution and for what is lost, nothing else gives an engineer two
    (`NoEngineerTwice`).
11. A query that times out returns part of the rows and no error
    (`ticket_service.go:413-434`); `devices_query_timeout` shows what comes of it.
12. A seed that was cut short leaves the counter low (`startup_reused_id`), and a
    start that stops between ALTER TABLE and the version can never be repeated
    (`startup_added_column`).
13. Ids are unique within a process only: a new master whose counter meets that of
    the old one draws the same ids for another node's devices, and INSERT OR
    IGNORE drops the second without an error (`devices_two_counters`). For the same
    reason a node may draw the id of one of its own devices again, even in the
    process that seeded it: `SeederDrawsNewIds` excepts these.
14. `AddDevice` returns success when its message was written; a node that is not
    master by then drops it (`devices_dropped`).
15. When a node answers neither in time nor at all, its engineers or their devices are
    missing from the count, and the next device goes to someone who has many
    (`devices_query_timeout`).
16. A failed send removes the connection another goroutine has just made, which stays
    open for good (`transport_orphan`); and while one peer is dialled, sends to
    all others wait (`transport_slow_dial`).
17. `loadFromFile` reads lines of 64 KB at most while the store writes what the hub
    accepts, up to 1 MB (`msgstore/store.go:63`): after one long message the history
    of a later start ends before it. This was read, not checked.
18. Two redistributions for one node (the master's own declaration of its death and
    a NODE_DEAD) may both read the same open ticket and copy it, to two different
    nodes: nothing marks a ticket as taken (`ticket_service.go:301-354`). So
    `CopiesOnlyOfGivenUp` counts a row for each redistribution.

The first is listed as a finding in `PROJECT.json`, the others stay as
configurations.

## Not modelled

- **`AddUsuario`** and INSERT_USUARIO: a row in a table that only the menu reads.
- **Of the transport:** `Stop`, `CloseAll` and `Close`, which nothing calls before the
  process ends; the `send` channel of a hub's client with its `writePump`, on
  which nothing is ever put; what the hub saves in the message store. A sender that
  dies takes its goroutines with it, and no property is about them.
- **Message store, command line (but for the menu entry that closes), logger,
  configuration**: display and reading of files; nothing is decided by them.
- **SQLite**: an Exec is a transaction that happens or does not. A table that cannot be
  read fails the query of its own node, and is not in the answers another node gets: in
  `TicketService` the first is an attempt that fails before it has proposed anything
  (`AcquireFails`), and for a close or a redistribution one that is not begun. The two
  updates of a CLOSE_TICKET at a node happen both or not at all; in the code the second
  may fail alone, which leaves an engineer marked without a ticket, as
  `tickets_lost_engineer` does for another reason.
- **VOTE_NO**, which the code handles and nobody sends, and the cancellation of a
  context, which `main.go` never does.

## Plan

Done, in this order: lock, consensus, election, tickets, queries, start,
heartbeat, devices, transport; then the proofs, of every invariant and action
property the runs check, and of the three refinements.

Left:

- Two redistributions at once in a run. `TicketService` has them, and the theorems
  cover them; with two TLC does not finish (more than 13 million states without a
  single crash), so a run would need a coarser query.
