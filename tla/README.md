# Verification of yellowstone-jet

TLA+ models of the transaction-forwarding core of yellowstone-jet, the TLC runs
that check them on small instances, and TLAPS proofs of the results that hold
for every instance.  Source paths are relative to the repository.

## 1. The system

Jet accepts Solana transactions (JSON-RPC, or a stream from a jet gateway),
retries them until they land or expire, and forwards each one over QUIC to the
TPU port of the current and upcoming leaders.

```
 rpc / jet_gateway ──> TransactionRetryScheduler ──> TransactionFanout ──> QUIC gateway ──> validators
        ^                    ^    ^                       ^   |                ^   ^
   pubkey challenger         |    |                policies   responses        |   TPU addresses, stakes,
                    rooted tx state  block heights     leaders of the slot     |   upcoming leaders
                             ^    ^                       ^               identity sync group
                         geyser streams              ClusterTpuInfo
```

| component | state it keeps | operations | interacts with | what is hard | what makes it correct |
|---|---|---|---|---|---|
| QUIC gateway event loop (`apps/jet/src/quic_client/core.rs`) | queues per peer, attempts in flight, waiting list, worker handles, staked set, last activity, evictions under way | accept a transaction, install or give up a connection, reap a worker, evict, predict, change identity, react to address changes | connecting tasks, workers, drain tasklets, address watcher, identity updater | results of spawned tasks arrive in any order; eviction, retry and rescue share queues; an identity update interrupts all of it | each transaction is answered once; no peer has two workers; blocked attempts are woken; evictions free slots |
| connecting task, sender worker (same file) | one attempt; channel, own queue, cancel permit | dial; send, retry, drain, stop | the loop, the network | they end at any time with work left | what is left is rescued exactly once with its attempts |
| remote-peer address watcher (same file) | address per watched peer, changes not yet collected | register, forget, poll, notify | the loop, TPU info service | a change between two polls, a re-registration | a changed address is eventually reported |
| identity sync group and admin calls (`identity.rs`, `jet_intg.rs`, `rpc.rs`) | identity, members, barrier, mutex | pause, wait for all, publish, resume | gateway, jet-gateway listener | a member that fails or a call dropped in the middle | members never work under different identities; a paused member resumes |
| retry scheduler (`transactions.rs`) | pool, deadlines by block height, insertion order | add, retry tick, landed, collect expired | rooted transactions, block heights, fan-out, dead-letter queue | ticks, updates and new transactions interleave | a landed transaction is not resent; an expired one is reported once |
| transaction fan-out (`transactions.rs`) | in-flight set, policies | fan a transaction out to leaders, handle gateway responses | scheduler, gateway, leader source | several leaders answer for one transaction | no duplicate in flight, no transaction in flight for ever |
| rooted transaction state (`rooted_transaction_state.rs`) | slots, transaction to slot, watched signatures | slot status, transaction, watch, clean-up | geyser, scheduler | forks: one transaction in two slots | commitment of a watched transaction is reported |
| blockhash queue (`blockhash_queue.rs`) | block metadata by hash | insert, retain | geyser | out-of-order commitments, lag | latest block and validity answers are right |
| cluster TPU info (`cluster_tpu_info.rs`) | leader schedule, contact info, latest slot | slot update, schedule refresh | geyser, RPC, gateway, fan-out | schedule fetch blocks the slot loop | leaders answered are those of the schedule |
| geyser stream (`grpc_geyser.rs`) | subscription, per-slot buffers | subscribe, reconnect | all of the above | reconnect with gaps | slot updates in order |
| jet gateway client (`jet_gateway.rs`, `grpc_jet.rs`, `pubkey_challenger.rs`) | identity, session, one-time tokens, handler tasks, failure counters | authenticate, subscribe, receive, join, reconnect | transaction handler, identity group | an identity change at any point of a session, tasks that outlive their connection | a session is that of the present identity; a token is used once; tasks stay within their limit |
| Lewis event stream (`grpc_lewis.rs`) | bounded buffer, batch, attempts | emit, batch, flush, reconnect, drain | fan-out, process | a batch that fails in the middle | events in order, none twice |
| process supervision (`bin/jet.rs`) | task group, cancellation | first end stops all, deadline, abort | every task | a task that waits where cancellation is not seen | the process ends |
| TPU client driver (`crates/tpu-client/src/core.rs`) | as the QUIC gateway, with several peers multiplexed on one connection, versions, orphan connections and pending closures | as the QUIC gateway, plus orphan time-outs and a command channel | leader tracker, stake and TPU caches | shared connections, deferred closure | as the QUIC gateway; unused connections are closed |
| TPU sender (`crates/tpu-client/src/yellowstone_grpc/sender.rs`, `sender.rs`) | dependency tasks, overseer | create, send to a window of leaders, drop | driver, the services below | creation that fails half way, tasks that end alone, partial sends | what a call reports is true; the tasks stop together |
| leader schedule, slot tracking, TPU info (`crates/tpu-client/src/{slot.rs,rpc,yellowstone_grpc}`) | schedule double buffer, slot and its closed flag, contact info | refresh, look up, reconnect, patch | driver, senders, RPC node | window crosses leaders and epochs; RPC behind the stream | the leaders of the window are found; the slot never goes back |
| RPC front end, stakes, metrics, configuration, other binaries | - | - | - | I/O, formatting, wiring | - |

PROJECT.json lists every component with its status, and under "hazards" what in
this code is hard to test and the property that would catch it.

## 2. Modules

| module | models | builds on |
|---|---|---|
| `QuicGateway` | the QUIC gateway event loop with its connecting tasks, workers and drain tasklets | `TxDelivery` |
| `QuicGatewayProofs` | theorems about `QuicGateway` | `QuicGateway` |
| `AddrWatcher` | the remote-peer address watcher, with the gateway handlers that use it | - |
| `AddrWatcherProofs` | theorems about `AddrWatcher` | `AddrWatcher` |
| `CommitmentFeed` | abstract specification: what consumers of block metadata rely on | - |
| `GeyserSubscriber` | slot tracking, emission and reconnection of the geyser stream; implements `CommitmentFeed` | `CommitmentFeed` |
| `GeyserProofs` | theorems about `GeyserSubscriber`, the refinement included | `GeyserSubscriber` |
| `RootedTransactions` | the receiver of transactions and metadata and the state machine it drives, fed by a `CommitmentFeed` | `CommitmentFeed` |
| `BlockhashQueue` | the block heights the scheduler reads, fed by a `CommitmentFeed` | `CommitmentFeed` |
| `RetryScheduler` | the retry scheduler composed with the receiver and the queue | `RootedTransactions`, `BlockhashQueue` |
| `SchedulerProofs` | theorems about `RetryScheduler` and the two modules it composes | `RetryScheduler` |
| `ClusterTpuInfo` | the slot loop, the leader schedule and the contact info | - |
| `TransactionFanout` | the fan-out between scheduler and gateway, composed with the leader lookup | `ClusterTpuInfo` |
| `FanoutProofs` | theorems about `TransactionFanout` and `ClusterTpuInfo` | `TransactionFanout` |
| `TxDelivery` | abstract specification: what a submitter of transactions may rely on; implemented by `QuicGateway` and `TpuDriver` | - |
| `TpuDriver` | the event loop of the shared TPU client | `TxDelivery` |
| `TpuDriverProofs` | theorems about `TpuDriver` | `TpuDriver` |
| `TpuSender` | the sender in front of that driver and its background tasks | - |
| `TpuSenderProofs` | theorems about `TpuSender` | `TpuSender` |
| `JetProcess` | identity group, jet-gateway listener, token store, Lewis client and the supervision of the process | - |
| `JetProcessProofs` | theorems about `JetProcess` | `JetProcess` |
| `MC...` | constant values for TLC, one module per checked specification | the module named |

PROJECT.json maps every definition to the lines it models.  A definition whose
comment starts with "Mutant" is a plausible bug of the code that the property
named in PROJECT.json detects; it is not part of the specification.

### QuicGateway

The event loop is one task.  `stage` is its position: `evict` and `predict` at
the top of the loop, `select` at the `select!`, `respawn` and `barrier` inside
`update_identity`, `stopped`, `panicked`.  Each branch of the `select!` is one
action and models the whole handler: `AcceptTxToWorker` and `AcceptTxToQueue`
(`accept_tx`), `InstallWorker`, `ConnectFailed` and `ConnectTaskPanicked`
(`handle_connecting_result`), `HandleWorkerResult`, `UpdateIdentity`,
`HandleRemotePeerAddrChange`, `HandleTaskletResult`, `InletClosed`.
`SpawnConnecting` is `spawn_connecting`, which six handlers call; it takes the
values its caller has assigned so far.

The other actions are the steps of spawned tasks, which run on other threads:
`WorkerRecv`, `SendOk`, `SendFailed`, `WorkerCanceled`, `WorkerInletClosed`,
`WorkerConnectionClosed` for a worker, `DrainJoin` for the drain tasklet.
`worker[p][i]` is the worker of peer p under the i-th identity: a worker
outlives the identity that started it until the tasklet joins it.  The permit
of a `Notify` is the Boolean `cancel`.  A connecting task is a record in
`connecting`; it is parked (`waiting`) or on its way (`dialing`), and its
outcome is chosen when the loop handles it.  A send ends in `SendEnds`, if it
does: `send_tx` awaits `open_uni` and `write_all` without a timeout.

Abstracted: payloads; endpoints and their usage counts; the clock, reduced to
`GracePeriodElapses`; metrics.  A panic of the loop (`EvictionPanics`) is an end
of it.

`ImplementsDelivery` maps each transaction to its place: held while it is in a
queue or a live worker, answered when it has a response, abandoned when only a
drain tasklet has it, discarded when it is nowhere.  The epoch of `TxDelivery`
is the identity together with the end of the loop.  A step that put a
transaction into two queues, dropped it, or answered it twice would be no step
of `TxDelivery`.

### AddrWatcher

`cnc` is the unbounded command channel, `changes` with `notify` the shared set
and its permit.  `Notified` and `HandleRemotePeerAddrChange` are separate
because `notified()` first awaits the permit and then locks the set, and the
watcher may report in between.  `peers_to_watch_map` is one-shot: a reported
peer is no longer watched.  Peers may come back to a former address and the
gateway may drop all its workers; see "Observations" for what
`WatchedOrReported` and `StaleConnectionEnds` say of such behaviours.  The
addresses themselves and QUIC_PORT_OFFSET are numbers.

### CommitmentFeed, GeyserSubscriber, RootedTransactions, RetryScheduler

`GeyserSubscriber` reads slot statuses and block metadata of a stream and emits
a pair (slot, level) once both are there.  The emissions of one message are sent
one by one on a bounded channel while nothing else is read (`outbox`, `Send`).
`StreamOpens` starts with an empty tracking, `StreamEnds` happens between any
two messages, and what the cluster says meanwhile is lost (`Lost`).  When the
receiver of the transactions is gone, the first emission that meets it ends the
stream and the emissions after it are lost (`SendFails`).  Three assumptions
about the cluster are external to the repository: finality comes in slot order
and nothing new is said of a slot below a finalized one; the levels of a slot go
up, though some may be left out; and no level and no metadata is said twice,
also not on a later stream.  (`handle_slot_update` does not compare with what it
emitted before: a status said twice would be emitted twice.)

`CommitmentFeed` states what the consumers get: levels of a slot only increase,
nothing is said of a slot below one reported as finalized, levels may be
missing.  `RootedTransactions` takes its input from that specification
(`Feed!MayEmit`), and `ImplementsFeed` shows that the subscriber provides it.

`RootedTransactions` models `process_event` as a function from state and event
to state and notifications, folded over the buffered transactions, and the loop
that drives it.  `GrpcBlockMeta` is the update under the lock; its notifications
are then sent one by one (`effects`, `NotifyWatcher`), and the scheduler may
subscribe, unsubscribe and look up in between.  One signature may be delivered
for several slots.  `early` and `notified` are history variables used by
properties only.

`BlockhashQueue` has its own copy of the feed.  A block is named by its slot and has
a height (`BlockHeight`), which grows more slowly; the task keeps finalized blocks
by height and the others by slot, and ends when it lags.

`RetryScheduler` extends both.  The scheduler's task takes one select! branch at
a time, but `add_new_transaction` is three actions: `AddReads` takes the height
of the blockhash from the queue, `AddChecks` looks the commitment up and
`AddSubscribes` subscribes, since each takes a lock of its own and the other
tasks run in between.  `Tick(k)` collects expired transactions and `Resend`
handles the k entries of `insertion_order` that are older than `retry_rate`.
`sent` and `allowed` count sends; `allowed` is a history variable.  The
dead-letter queue is left out.

### ClusterTpuInfo, TransactionFanout

`updates` is the broadcast channel as its receiver sees it: when it is full the
oldest update is lost and `lagged` set, which `recv` takes as the end of the
task and `try_recv` only as the end of the drain.  `follow` is the position of
the loop: `RecvSlotUpdate`, `DrainSlotUpdates` (which stores the highest slot and
asks whether its leader is known) and `LeaderScheduleFetched`, during which
updates pile up.  An answer may leave leaders out, because their keys do not parse
(`Named`): their slots stay without a leader.  `missed`, `fetched` and `unnamed` of
`cluster` are history variables.

`TransactionFanout` reads it.  `FwdTx` marks the signature and spawns a task; the
task reads the slot (`TaskCounts`), later looks the leaders up at the slot that is
current by then (`TaskLooksUp`), and sends copies into the bounded channel
(`TaskSends`).  The gateway is what the fan-out sees of it: it takes copies and
answers for one or, with `TxDrop`, for several; it may also do neither, for ever,
since nothing is assumed of it.  A task may find no destination at all
(`SentToNobody`).  Extra destinations are configured or not (`extra_fwd`).  Policies
are a fixed relation `Denied`; extra destinations bypass them, as in the code.  The
deprecated fixed fan-out count is left out.

### TpuDriver

The handlers of the driver call each other, often several times in a row (one
`spawn_connecting` per peer of a connection), so the loop's state is one record
`drv` and each helper of the code an operator from record to record; an action
composes them in the order of the handler.  A connection belongs to an address
and has a version; a worker remembers the version it was installed with.
`pending` is the eviction of a connection, `evicting` of its peers, `orphans` the
connections without workers, oldest first.  The address watcher is modelled by
what it announces (`Moved`; `AddrWatcher` has the rest).  A worker that panics
leaves its peer in the table of its connection; the history variable `ghosts`
records it, and `IsGhost` tells such an entry from that of a worker.  A caller that stops
waiting for a barrier update after its command was accepted is
`RequestBarrierUpdate` without more: the permit travels with the command.

### TpuSender

A send is several steps, because it reads `closed`, the slot, the schedule and
the addresses one after the other while the tasks write them: `LoadClosed`,
`LoadSlot`, `Lookup`, `SendToLeader`, `SendReturns`.  A schedule is named by its
epoch and looked up by `ScheduleGet`; `UniqueLeaders` and
`TryPredictNextNLeaders` are the two ways the code walks it, compared with
`Window`, the leaders of every slot; `Lookahead` is `leader_prediction_lookahead`.
`Create` to `Created` are the steps of the creation with `CreationFails` in
between; its last step takes the first slot the stream delivers, which need not
be the newest and may never come (`AwaitsFirstSlot`).  The overseer is
`OverseerAborts`, `OverseerSelects` (the first handle is ready: the others are
aborted and left in `rest` in the order of `swap_remove`), `OverseerJoins` for each
of them, `OverseerReturns`, and `OverseerDropped`.  An aborted task finishes the
poll it is in, then its future is dropped and its guard marks the flags
(`TaskStops`, `MarkOnDrop`), and later its handle is ready (`TaskEnds`).

### JetProcess

An admin call is `Call`, `Acquire` (the mutex; the members are taken out of the
group), `PauseMember` for each, `CallerWaits`, `CallReturns`; `CallDropped` is the
RPC server dropping its future, and a member whose task has ended makes the call
panic.  Gateway and listener take their command when their loop gets to it and wait
at the call's barrier.  `gateway.identity` is the one new connections are made with:
the workers the gateway has let go of still drain under the former one, also past
the barrier, which `QuicGateway` models.  The listener's session is `Authenticated`,
`Connected`, `Receive`, `Handle`, `JoinTask`, `StreamEnds`, `CooledDown`,
`ConnectFails`; it exists under the expected identity only and is dropped with its
tasks when a command arrives (`SessionDropped`).  The token store belongs to the
service at the other end, whose code is in the repository: the answer to a challenge
must be signed by the challenged key (`CreateChallenge`, `VerifyAnswer`), and an
attempt that fails leaves its token unused, claimed, or thrown away as expired
(`TokenOfFailure`).  Lewis events are numbers.  `StopsProcess` and `Exits` are the
end of `run_jet`.

## 3. Runs

| run | expects | properties | what it shows |
|---|---|---|---|
| `gateway_safety` | pass | TypeOK, DialOrWorker, AttemptsUseCurrentIdentity, WaiterIsListed, EvictionIsSignalled, ImplementsDelivery, QueueStaysServed | retry, rescue, eviction, prediction and an identity update at any moment keep the bookkeeping consistent and neither lose nor duplicate transactions, save those the drain of an old identity discards; no queue is left without an attempt |
| `gateway_stranded_waiter` | violation | EveryTxAnswered | with two waiters for one slot the second one is never woken if the first fails, although no send and no barrier hangs |
| `watcher` | pass | ChangesAnnounced, WatchedOrReported, StaleConnectionEnds | no reported change is left without a permit or a collector; while peers move to fresh addresses, a connection to a left address ends |
| `geyser` | pass | BothReadIsEmitted, EmittedIsReal, ImplementsFeed | statuses and metadata in any order, skipped levels, breaks of the stream and a receiver that goes away give a CommitmentFeed |
| `rooted_safety` | pass | EveryLevelNotified, FinalizedStaysKnown | transactions before, between and after metadata, skipped levels, an abandoned slot, a transaction on both forks, subscriptions between the update and its notifications |
| `retry_scheduling` | pass | RecentBlockKnown, PooledIsTracked, SendsWithinRetries, LandedWhileWatchedLeaves, PooledLeaves | resubmissions, landings, expiry and retries interleave with a queue of heights that advances and lags, without untracking a transaction or sending it too often, and it leaves the pool |
| `fanout` | pass | ScheduleFollowsSlot, DeniedNotSent, SlotFollowed, InflightEnds | slots are followed through disorder, epoch changes and lag; policies hold for every slot read, and a transaction leaves the in-flight set unless the gateway owes an answer for ever or it was sent to nobody |
| `driver_safety` | pass | ConnectionsAccounted, AttemptsAccounted, OneBarrierInFlight | peers that share, leave and change addresses, broken connections, panics, evictions and two identity commands leave the driver's maps consistent |
| `driver_delivery` | pass | ImplementsDelivery, UnusedConnectionsClose | full queues, workers that share a broken connection, rescues and evictions: deliveries are those of TxDelivery, and connections nobody uses are closed |
| `tpu_sender` | pass | CallsAreSound, CachesConsistent, WindowCovered, CleanupBarrier, SlotNeverGoesBack, StopTogether | sends while the cluster crosses epochs, streams break, the RPC node lags and tasks fail |
| `sender_window` | violation | SendsToEachLeader | a window that starts inside a group misses the leader of its last group |
| `jet_process` | pass | IdentityConsistent, SessionSound, EventsInOrder, PausedResumes | identity changes, sessions, Lewis and the shutdown interleave with dropped calls, panics and signals |

The invariants of the last modules are conjunctions of named parts, each with a
comment and most with a mutant of their own: ConnectionsAccounted is NoOrphanWorker,
TableIsExact, UnusedIsOrphaned and PendingIsInUse; AttemptsAccounted is DialOrConnection,
WaiterIsListed and EvictionIsSignalled; CallsAreSound, CachesConsistent and
WindowCovered are the six parts above them in `TpuSender`; IdentityConsistent is
OneIdentity and IdentityAgrees; SessionSound is SessionIdentity, TokenSingleUse and
WithinLimit.  A module's type invariant is checked as a conjunct of one of its
properties; that of GeyserSubscriber is part of the invariant `GeyserProofs` proves.

### Bounds

- Gateway: two peers, one transaction each, one connection slot, two connection
  and two send attempts, channels of one, one identity update.  One slot for two
  peers makes every connection a conflict, two attempts give one retry and one
  exhaustion, a channel of one is full after one send.  With one transaction
  per peer no queue is full on arrival: that case is in `driver_delivery`, whose
  worker is the same code.  `gateway_stranded_waiter` has three peers for one
  slot.  The invariants of the dialling and
  eviction bookkeeping do not rest on these bounds: they are proved for all.
- Watcher: two peers, two addresses and a command channel of one: a move during
  a dial and one after the registration.  A registration waits while the channel
  holds `MaxCommands` commands; the deregistrations do not.
- Geyser: two slots, so that one can be finalized above the other, and three
  streams.
- Rooted: three slots with one abandoned between two finalized ones, a retention
  of two heights so that a finalized slot is dropped, two buffered transactions;
  one transaction is executed in the abandoned slot and in the one after it.
- Retry: one transaction with two submissions, two retries, blocks in slots 4 and 9
  at heights 2 and 5 with a retention of four heights and an age of one, so that a
  block is cleaned up and a deadline passes while entries of the former submission
  meet the second.  The feed may skip levels (`MaySkip = TRUE`).
- Fan-out: two transactions, epochs of two leader windows and slots of both epochs,
  neither first nor aligned; a channel of two updates that four updates overrun; a
  leader without contact info, another whose key may not parse, and an extra
  destination or none; each transaction is refused one leader.  `MCSpec` lets the
  cluster run through all four updates while nothing is forwarded and through two of
  them around transactions (`Apart`): the fan-out reads the slot and the schedule
  and changes neither.
- Driver: two peers at one address and a second address, one connection, two
  connection versions, and two faults out of moves, identity commands (two of which
  may be under way at once) and panics: each pair of them meets.  `driver_delivery`
  has no panics and no identity command, but three transactions, two of them for one
  peer and channels of one, and one move: a queue is full on arrival and two workers
  of one connection hold transactions.
- TPU sender: epochs of eight slots, a produced slot at the end of one and one in
  the next but one, a window of six slots that starts inside a leader's group and
  crosses the epoch, leaders that share an address and one without, a channel of
  one, one fault.
- Jet process: two admin calls, two identities one of which is expected, two
  connections, two transactions with room for one task, batches of two,
  four events for a buffer of two (so that it fills up), one
  fault (a dropped call, a panic or a signal).  The Lewis client shares nothing
  with the rest but the end of its task; `MCSpec` runs it before the listener
  connects and a call is made (`LewisApart`).

`CHECK_DEADLOCK FALSE` appears where the bounded environment runs out of inputs
or the process exits; the gateway, the driver, the scheduler and the watcher are
checked for deadlock.

### Fairness

- Gateway: weak fairness of the loop's own steps and of each worker (tokio runs
  what can run); strong fairness of the handling of a connecting result and of a
  finished worker, since `select!` polls its branches in random order; a
  connection attempt ends because `connecting_timeout` bounds it.  Nothing is
  assumed of the network, the submitters, the clock or the other members of an
  identity update: no timeout bounds a send, and a barrier may never open.
  EveryTxAnswered exempts the time of such a stall (`Stalled`), so that the
  counterexample of `gateway_stranded_waiter` has none.
- Watcher: its interval ticks for ever; the loop takes notifications; a worker
  with a cancel permit stops.
- Scheduler: its task runs, and its interval finds each entry old enough in the
  end.  Nothing is assumed of the receiver.
- Fan-out: its loop and tasks run, and the slot loop runs.  Nothing is assumed of
  the RPC node, whose answer may never come, nor of the gateway, which may take
  and answer nothing: it does not promise an answer (`gateway_stranded_waiter`,
  and the drain of an identity update).
- Driver: weak fairness of the loop, the workers and the timers; sends may never
  end.
- TPU sender: requests of the creation to the RPC node are answered or time out, an
  aborted task is dropped, the overseer is polled when a handle is ready.  Nothing
  is assumed of streams, the first slot included, or of the callers.
- Jet process: the steps of a call and of each member's command happen when they
  can, `run_jet` sees the first task that ends, and its deadline passes.  Nothing
  is assumed of the service, of Lewis or of the sessions.

## 4. Proofs

All theorems hold for every value of the constants that satisfies the ASSUME of
the module, so none of them rests on the bounds of section 3.  Every safety
property a run checks is stated by one of them, but for the two refinements of
`TxDelivery`.

`QuicGatewayProofs`, under `ConstantsAssumption` (finitely many peers, positive
limits):

- `TypeCorrect`: attempts never pass their limits, whatever path increments them.
- `BookkeepingConsistent`: the inductive invariant `IInv`.
- `NeverDialsAWorkersPeer` (the `assert!` of `install_worker` cannot fail),
  `ResultsUseCurrentIdentity` (the branch marked "THIS SHOULD NOT HAPPEN" is not
  reached), `NoLostWaiter`, `EvictionsAreSignalled`: its consequences.
- `QueuesStayServed`: the action property QueueStaysServed.  A queue has an attempt
  that will take it up, or is answered in the step that ends the attempt.  That a
  respawn reaches every peer it must needs that an attempt has a positive number
  and that no worker is installed meanwhile (`Redials`).

None of the four is inductive alone.  That an installed peer has no worker needs
that no attempt was spawned for a peer with a worker, which needs the checks of
`spawn_connecting` at each of its callers; that a waiter is listed must survive
an identity update that leaves entries of aborted attempts in the list, so the
invariant speaks of the entry of the attempt's own identity; that an eviction is
signalled needs that a peer being evicted is not dialled (`EvictedNotDialled`),
or a new worker would inherit the eviction without the permit; and the handles
are dropped when the loop stops (`StoppedHasNoHandles`).  The proof has one
lemma per helper (`SpawnDials`, `UnblockDials`, `CancelSignals`) and one step
per action.

`GeyserProofs`, under `GeyserAssumption` (slots are natural numbers):

- `EmissionsAreReal`, `NoLevelForgotten`: the two safety properties.
- `SubscriberImplementsFeed`: `Spec => Feed!Spec` with the identity on `level`.

The inductive invariant `FeedInv` adds that pending emissions belong to one slot
that is still alive, in increasing order above what was sent (`OutboxInOrder`: the
step `Send` is then an `Emit`); that the tracking is bounded by the cluster
(`TrackingIsReal`; a stream that a failed send ended has lost its outbox, so what
was read is due only while the stream is open); and that `split_off` forgets only
slots below a finalized one, of which nothing more is said (`TrackedWhileAlive`).

`AddrWatcherProofs`, under `ConstantsAssumption` of `AddrWatcher` (there is an
address; the channel has a capacity):

- `NoNotificationLost`: ChangesAnnounced.  `NoMoveMissed`: WatchedOrReported.
- `WatcherInvariant`: the inductive invariant `WatchInv`.

Whether a peer is watched depends on commands still in the channel, so the
invariant follows them: those of a peer alternate, so that a registration meets no
older entry (`CommandsAlternate`); the last one names the address the peer is
connected to (`LastCommandIsCurrent`); and once none is on the way, the map holds
that address, or the worker is cancelled, or the change is reported
(`WatchInForce`).  This holds until one of the two situations of "Observations"
arises, which is `disturbed`; `ChangesAnnounced` holds in any case.

`SchedulerProofs`, under `FeedAssumption`, `QueueAssumption` and
`SchedulerAssumption`:

- `EveryLevelIsNotified` and `FinalizedIsKnown`, about the receiver alone
  (`RootedSpec`), for transactions on any number of forks.
- `SchedulerInvariant`, `RecentBlocksAreKnown`, `PoolIsTracked`,
  `SendsAreWithinRetries`, `LandedLeaves`, about the composition.

The invariant of the receiver says that a signature is in the slot it is looked up
at (`Located`) and that the level of a slot was told for each of its signatures
that was watched in time (`LevelsTold`); `SlotInv` adds that a slot has the level
the feed gave it, and that its transactions are dropped only once it is old or has
lost to a finalized one, and that a signature delivered for one slot only is looked
up there (`Sole`).  That the
sends are within the retries needs the sum of what was sent and what is left
(`SendsAccounted`), as a resubmission resets the second.  That a landed
transaction leaves the pool must hold in the middle of `add_new_transaction`
too, hence `Pooling`: the pool and the transaction that passed its check.  The
receiver folds `process_event` over the buffered transactions; `BulkSteps` turns
the fold into a sequence of states and `BulkReplayed` carries the invariant
through it.

`FanoutProofs`, under `ClusterAssumption` and `FanoutAssumption`:

- `ScheduleIsFollowed` (ScheduleFollowsSlot), `NothingDeniedIsSent`
  (DeniedNotSent), `FanoutInvariant`.
- `SlotIsMonotone`: `latest_seen_slot` never goes back, the safety half of
  SlotFollowed.

The schedule is written in one step of the loop and the slot in another, so
`ClusterInv` carries both and the position of the loop between them; a latest slot
without a leader is one whose own fetch left that leader out.
DeniedNotSent needs that a task keeps permitted destinations only, from the
lookup to the last copy (`Permitted`); the lookup filters a sequence, and what
`Filtered` returns is a lemma.  `Filtered` is a recursive function, where the
library's `SelectSeq` would be usual, because the provers know nothing of that one.

`TpuDriverProofs`, under `DriverAssumption` (finitely many peers and addresses,
positive limits):

- `ConnectionsAreAccounted`, `AttemptsAreAccounted`, `OneBarrierIsInFlight`,
  `DriverInvariant`.

The handlers are compositions of helpers on the loop's record, so the invariant
is a predicate of such a record, `Good(s, id, gh, handled)`, that holds between
helpers as well as between handlers: workers and connection tables agree
(`Linked`, `Mapped`), a connection without workers is an orphan or among
`handled`, the connections the handler is about to deal with (`UnusedKnown`), an
eviction under way concerns a connection in use (`PendingUsed`), a peer in a table
has a worker on that connection or is one of `gh`, the panicked ones (`Worked`), a dialled
address has no connection and its peers have no worker (`Dials`), a parked attempt is listed
(`Waits`), an evicted peer is in a connection's table and its worker has
the signal (`Evictions`); `id` is the
identity, which only `update_identity` changes.  There is one lemma per helper
(`spawn_connecting`, `install_worker`, eviction, the drop of a connection) and one
per action.  `CommandInv` ties the barrier's permit to the command that carries
it, which is the last of the queue, and to the loop that waits (`Barriers`).

`TpuSenderProofs`, under `SenderAssumption`:

- `CallsStaySound`, `CachesStayConsistent`, `WindowIsCovered`, `SenderInvariant`.
- `CleanupIsBarrier` and `SlotIsMonotone` (SlotNeverGoesBack), action properties.

`SenderInv` is `LifeInv` (creation, overseer and tasks), `TrackerInv` (the slot
never passes the cluster's), `CacheInv` (the schedule buffer holds consecutive
epochs, the contact info is a snapshot), `MarkInv` (a task that was dropped has left
its mark) and `CallInv`: a send works with values it
read earlier, so what is queued and what is left to send are disjoint parts of the
window of the slot it read, whatever the tasks have written since.
`WindowIsCovered` is about the two walks through the schedule and is proved with
the arithmetic of leader groups.  `CleanupIsBarrier` needs that a handle the overseer
no longer waits for is that of a task that has ended (`HandlesAwaited`, through the
order in which `swap_remove` leaves the rest), and that ended tasks have marked their
flags, which is what stops the calls.

`JetProcessProofs`, under `ProcessAssumption`:

- `IdentityIsConsistent`, `SessionIsSound`, `EventsStayInOrder`,
  `IdentityInvariant`.

That all members end with one identity needs who is where in a call: the mutex
serialises calls and one call at most has the members (`CallsSerialised`), a queued
command is that of the call that has the members, under way or cut short
(`MemberSound`), nobody is counted twice at a barrier (`BarrierCounts`), and
members are under one identity unless a call that is not released has reached
some of them (`OneAssigned`, `MembersAgree`, `GroupAgrees`).
`SessionInv` adds that stored and claimed tokens were issued, whatever a failed
attempt leaves of its token (`FailureIssuesNoToken`); `LewisInv` that
what is sent, batched and queued is one increasing sequence.

Induction.  The provers cannot instantiate the induction theorems of the library.
Where a proof is about a sequence or a fold of any length it uses the least
counterexample instead (`LeastNumber`, `BoundedInduction`: a set of natural
numbers with an element has a least one), and the existence of the function a
fold recurses by (`FoldExists`).

Only model-checked: the liveness properties (StaleConnectionEnds, PooledLeaves,
SlotFollowed, InflightEnds, UnusedConnectionsClose, StopTogether, PausedResumes),
because fairness is out of the prover's reach; and
ImplementsDelivery of `QuicGateway` and of `TpuDriver`.

## 5. Where code and words differ

Two runs exhibit a disagreement each; PROJECT.json quotes the lines.

- `gateway_stranded_waiter`: only the end of a worker wakes a blocked attempt.  When
  the attempt that was woken fails, the slot is free and the next waiter sleeps on,
  with the transactions queued for it.  The shared driver has the same problem: the
  failure paths of `handle_connecting_result` (`crates/tpu-client/src/core.rs:2194-2286`)
  do not call `unblock_eviction_waiting_connection` (2392); with three addresses and
  one connection its second waiter is stranded likewise.
- `sender_window`: the documentation of `send_fanout_slots` promises each unique
  leader of the slot window; sampling every fourth slot from the current one steps
  over the last group when the slot is not the first of its own.
  `WindowMissesOnlyLastGroup` says that it is only that one.

### Observations

Read from the same code while modelling; they explain the shape of some
properties and of some constants, and have no run of their own.

- `has_connection_capacity` counts installed workers, not attempts in flight: the
  number of connections may exceed `max_concurrent_connections`.
- `update_identity` keeps `being_evicted_peers`.  A peer whose eviction was under
  way is refused by `spawn_connecting` from then on.  (`EvictedNotDialled` holds;
  it is this refusal.)
- A peer that is back at its old address when its change is handled keeps its
  worker and has no watch any more; after an identity update the old watch
  swallows the registration of the new connection.  Hence
  `WatchedOrReported` and `StaleConnectionEnds` exclude both (`disturbed`).
- `transactions` keeps one slot per signature: a transaction executed on two
  forks is known by the one that came last, and the clean-up of either slot
  forgets it.  `rooted_safety` has such a transaction; `FinalizedStaysKnown` says
  what is left to rely on (`Forked`).
- `handle_tx_commitment_update` compares with `==`: a feed that skips the level
  asked for, or a transaction that arrives when its slot is above that level
  already, does not stop the resending.  Hence `LandedWhileWatchedLeaves` speaks
  of transactions known at exactly the level asked for.
- `gc_deadline_map` subtracts the maximum age from a height that already
  includes it: a transaction stays for up to twice its age.
- The first answer for any destination takes a signature out of flight, so a
  retry may send a second copy while others are on their way.
- `get_leader_tpus` iterates over `0..=leader_forward_count`: a count of one
  gives two leaders.
- The eviction strategy of the gateway unwraps the last activity of every
  connected peer (`quic_client/core.rs:1063`).  A peer connected by prediction has
  none until it is sent to; planning an eviction then panics and ends the loop.
- `add_new_transaction` looks the commitment up and subscribes under two locks
  (`transactions.rs:361`, `:374`): a landing in between is not noticed and the
  transaction is resent until its retries or its age end.
  `LandedWhileWatchedLeaves` is therefore about transactions watched before they
  land.
- `fwd_tx` takes the in-flight mark before it knows any destination
  (`transactions.rs:741`).  When policies refuse every leader, or none is known,
  nothing is sent, nothing answers, and the mark stays: the signature is not
  forwarded again.  The `fanout` run has the case, which InflightEnds exempts
  by name (`SentToNobody`).
- `get_block_height_latest` asks for blocks of exactly one level: while the queue
  holds none that is just confirmed, the scheduler works with height 0, and the
  deadline of an unknown blockhash may be over at once.
- A lag of the slot updates ends the slot task, and the process, when `recv` meets
  it, but is passed over when the drain does.
- `sync_identity` takes its members out of the group.  A call that is dropped in
  the middle loses them: later calls succeed without reaching any member, and
  members already paused stay at the barrier (`PausedResumes` excludes that call).
  A listener at the barrier does not see the cancellation either.
- A Lewis stream that completes, or reaches `stream_timeout` (300 s by default),
  ends `run_lewis_client` with Ok, and the first task that ends stops the whole
  process.  `attempt` is never reset, so failures over the life of the process
  add up to `max_reconnect_attempts`; after that events are dropped.
- `IncrementalBackoff` computes `2u32.pow(retries)`, which overflows at the 32nd
  retry in a row (`util/mod.rs:155`).
- In the shared driver, `handle_worker_result` removes only the handle of a worker
  that panicked.  Its peer stays in the table of its connection (`LeftBehind`),
  which is therefore not closed as unused (until an identity update, or a new worker
  of that peer on it): `ConnectionsAccounted` names these connections (`IsGhost`).
  And the peer may be evicted with that connection while it is dialled at another
  address, where its new worker has no signal.  `EvictionIsSignalled` of `TpuDriver`
  excludes such peers.
- In the TPU client, leaders whose key does not parse stand in the schedule as
  the default key and are looked up like others; the stake service records an epoch
  before it fetches the stakes of it.  In Jet the slots of such leaders are left out
  of the schedule (`cluster_tpu_info.rs:423`), so the schedule is fetched again
  whenever the latest slot is one of them.
- No timeout bounds the first slot a TPU sender waits for at its creation
  (`slot_tracker.rs:231`), during which a task that has ended stops nobody; nor a
  send in either worker (`tx_send_timeout` of the gateway is not used).
- `verify_answer` checks the signature against the challenged key and issues the
  token for the key the request names, without comparing the two; the listener
  always names its own.

## 6. Not modelled, and what is left

- Stake information (`stake.rs` of both crates): periodic fetches that replace a
  map.  Eviction, its reader, is checked for arbitrary stakes.
- Formats: transaction decoding, payloads, challenges and their signatures,
  configuration, feature flags, metrics, Prometheus servers, RPC retry helpers.
  They keep no state that outlives a call.
- The relay-only scheduler (one comparison per transaction), the deprecated
  fixed fan-out count, the dead-letter queue, `lite-jet` and the development
  binaries.
- QUIC itself, and time: every timer is a nondeterministic step.

Theorems next: the refinements of `TxDelivery` by `QuicGateway` and `TpuDriver`,
with an invariant that says in how many places a transaction can be (queues,
workers, rescued lists and responses as disjoint sets).
