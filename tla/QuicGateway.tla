---------------------------- MODULE QuicGateway ----------------------------
(***************************************************************************)
(* The QUIC gateway of jet (apps/jet/src/quic_client/core.rs):             *)
(* TokioQuicGatewayRuntime, the event loop that owns the connections to    *)
(* the remote validators, together with the tasks it spawns:               *)
(*                                                                         *)
(*   - one ConnectingTask per peer it is dialling;                         *)
(*   - one QuicTxSenderWorker per established connection;                  *)
(*   - the tasklet that drains the workers of an abandoned identity.       *)
(*                                                                         *)
(* The event loop is one task: `stage` says where it stands in its loop,   *)
(* and each handler of its select! is one action.  The spawned tasks run   *)
(* on other threads, so their actions interleave with the loop's.          *)
(*                                                                         *)
(* Data is abstracted: a transaction is its identity, a peer is a key, an  *)
(* identity is a generation number, and the clock is reduced to what the   *)
(* eviction strategy asks of it: whether a peer was used within the grace  *)
(* period.                                                                 *)
(***************************************************************************)
EXTENDS Naturals, Sequences, FiniteSets

CONSTANTS
  Peers,                  \* remote validators
  Txs,                    \* transactions submitted to the gateway
  RemotePeer,             \* tx.remote_peer: the peer each transaction is for
  Stake,                  \* what ValidatorStakeInfoService answers per peer
  MaxConcurrentConnections,  \* config.max_concurrent_connections
  MaxConnectionAttempts,  \* config.max_connection_attempts
  MaxSendAttempt,         \* config.max_send_attempt
  ChannelCapacity,        \* config.transaction_sender_worker_channel_capacity
  Predictable,            \* peers UpcomingLeaderPredictor may announce
  ConnectOutcomes,        \* outcomes of a connection attempt that may happen
  MaxIdentity             \* bound: number of identity updates explored

ASSUME ConstantsAssumption ==
  /\ IsFiniteSet(Peers)
  /\ RemotePeer \in [Txs -> Peers]
  /\ Stake \in [Peers -> Nat]
  /\ MaxConcurrentConnections \in Nat \ {0}
  /\ MaxConnectionAttempts \in Nat \ {0}
  /\ MaxSendAttempt \in Nat \ {0}
  /\ ChannelCapacity \in Nat \ {0}
  /\ Predictable \subseteq Peers
  /\ ConnectOutcomes \subseteq {"ok", "connection_error", "other_error", "join_error"}
  /\ MaxIdentity \in Nat

VARIABLES
  stage,          \* where the event loop stands
  identity,       \* generation of the client identity in use
  tx_queues,      \* per peer, transactions waiting for a connection
  connecting,     \* connecting_remote_peers, connecting_meta and their tasks
  connecting_blocked_by_eviction_list,  \* FIFO of attempts waiting for a slot
  tx_worker_handle_map,                 \* peers with a worker handle
  worker,         \* per peer and identity, the worker spawned (if not joined)
  active_staked_sorted_remote_peer,     \* peers the eviction plan ranges over
  last_peer_activity,  \* per peer: "none" (no entry), "recent" or "idle"
  being_evicted_peers, \* peers with an eviction under way
  respawn,        \* attempts saved by an identity update, 0 when there is none
  submitted,      \* transactions accepted from tx_inlet
  response        \* per transaction, the answers put on response_outlet

vars == <<stage, identity, tx_queues, connecting,
          connecting_blocked_by_eviction_list, tx_worker_handle_map, worker,
          active_staked_sorted_remote_peer, last_peer_activity,
          being_evicted_peers, respawn, submitted, response>>

Identities == 0..MaxIdentity

\* Variables that only the eviction machinery and the identity switch touch.
evictionVars == <<being_evicted_peers, active_staked_sorted_remote_peer>>

(***************************************************************************)
(* Records                                                                 *)
(***************************************************************************)

\* An element of tx_queues or of a worker's own queue: (transaction, attempt).
Entry == [tx : Txs, attempt : 1..MaxSendAttempt]

\* A connection attempt.  "waiting" is parked on its Notify in
\* ConnectingTask::run; "dialing" is past it.
Connecting == [st : {"none", "waiting", "dialing"},
               attempt : 0..MaxConnectionAttempts,
               identity : Identities]

NoConnecting == [st |-> "none", attempt |-> 0, identity |-> 0]

\* WaitingEviction: the attempt whose Notify is parked in the list.
Waiting == [peer : Peers, identity : Identities]

\* A worker task: its mpsc receiver, its own queue, the permit of its
\* cancel_notify, and, once it is done, whether it met VersionMismatch.
Worker == [st : {"none", "running", "done"},
           rx : Seq(Txs),
           queue : Seq(Entry),
           cancel : BOOLEAN,
           fatal : BOOLEAN]

NoWorker == [st |-> "none", rx |-> <<>>, queue |-> <<>>,
             cancel |-> FALSE, fatal |-> FALSE]

Outcomes == {"TxSent", "TxFailed", "RateLimited", "RemotePeerUnreachable",
             "DropByGateway", "RemotePeerBeingEvicted"}

Stages == {"evict", "predict", "select", "barrier", "respawn", "stopped", "panicked"}

TypeOK ==
  /\ stage \in Stages
  /\ identity \in Identities
  /\ tx_queues \in [Peers -> Seq(Entry)]
  /\ connecting \in [Peers -> Connecting]
  /\ connecting_blocked_by_eviction_list \in Seq(Waiting)
  /\ tx_worker_handle_map \in SUBSET Peers
  /\ worker \in [Peers -> [Identities -> Worker]]
  /\ active_staked_sorted_remote_peer \in SUBSET Peers
  /\ last_peer_activity \in [Peers -> {"none", "recent", "idle"}]
  /\ being_evicted_peers \in SUBSET Peers
  /\ respawn \in [Peers -> 0..MaxConnectionAttempts]
  /\ submitted \in SUBSET Txs
  /\ response \in [Txs -> Seq(Outcomes)]

Init ==
  /\ stage = "evict"
  /\ identity = 0
  /\ tx_queues = [p \in Peers |-> <<>>]
  /\ connecting = [p \in Peers |-> NoConnecting]
  /\ connecting_blocked_by_eviction_list = <<>>
  /\ tx_worker_handle_map = {}
  /\ worker = [p \in Peers |-> [i \in Identities |-> NoWorker]]
  /\ active_staked_sorted_remote_peer = {}
  /\ last_peer_activity = [p \in Peers |-> "none"]
  /\ being_evicted_peers = {}
  /\ respawn = [p \in Peers |-> 0]
  /\ submitted = {}
  /\ response = [t \in Txs |-> <<>>]

-----------------------------------------------------------------------------
(***************************************************************************)
(* Helpers of the event loop                                               *)
(***************************************************************************)

IsConnecting(p) == connecting[p].st # "none"

TxsOf(queue) == {queue[i].tx : i \in DOMAIN queue}

\* Append answer `o` for every transaction of S (TxDrop carries a whole queue).
Answer(S, o) == [t \in Txs |-> IF t \in S THEN Append(response[t], o) ELSE response[t]]

FirstAttempt(t) == [tx |-> t, attempt |-> 1]

\* drop_peer_queued_tx: forget the queue of p, answering all it held.
DropPeerQueuedTx(p, queue, reason) ==
  /\ tx_queues' = [tx_queues EXCEPT ![p] = <<>>]
  /\ response' = Answer(TxsOf(queue), reason)

KeepQueue(p, queue) ==
  /\ tx_queues' = [tx_queues EXCEPT ![p] = queue]
  /\ UNCHANGED response

\* Mutant: notify_waiters, which only wakes a worker that is waiting right now.
CancelledIfIdle(S) ==
  [p \in Peers |->
     IF p \in S /\ worker[p][identity].queue = <<>>
       THEN [worker[p] EXCEPT ![identity].cancel = TRUE] ELSE worker[p]]

\* cancel_notify.notify_one() on the workers of S: each gets a permit.
Cancelled(S) ==
  [p \in Peers |->
     IF p \in S THEN [worker[p] EXCEPT ![identity].cancel = TRUE] ELSE worker[p]]

HasConnectionCapacity(handles) == Cardinality(handles) < MaxConcurrentConnections

\* The checks of spawn_connecting beyond "already connecting".
MaySpawn(p, evicting, handles) == p \notin evicting /\ p \notin handles

(***************************************************************************)
(* spawn_connecting(p, attempt).  The caller passes the values that its    *)
(* own assignments gave to the fields read here: p's queue, the waiting    *)
(* list, the handles, the evictions under way and the attempts in flight.  *)
(***************************************************************************)
SpawnConnecting(p, attempt, queue, list, handles, evicting, conns) ==
  LET free == conns[p].st = "none"
      spawns == free /\ MaySpawn(p, evicting, handles)
      blocked == spawns /\ ~HasConnectionCapacity(handles)
  IN /\ connecting' =
          IF spawns
            THEN [conns EXCEPT ![p] =
                    [st |-> IF blocked THEN "waiting" ELSE "dialing",
                     attempt |-> attempt, identity |-> identity]]
            ELSE conns
     /\ connecting_blocked_by_eviction_list' =
          IF blocked THEN Append(list, [peer |-> p, identity |-> identity]) ELSE list
     /\ IF free /\ p \in evicting
          THEN DropPeerQueuedTx(p, queue, "RemotePeerBeingEvicted")
          ELSE KeepQueue(p, queue)

-----------------------------------------------------------------------------
(***************************************************************************)
(* Top of the loop: do_eviction_if_required                                *)
(***************************************************************************)

EvictionCountRequired ==
  LET waiting == Len(connecting_blocked_by_eviction_list)
      ongoing == Cardinality(being_evicted_peers)
  IN IF waiting > ongoing THEN waiting - ongoing ELSE 0

\* The peers StakeBasedEvictionStrategy may choose from, and those of them
\* that have been idle for the grace period.
Candidates == active_staked_sorted_remote_peer \ being_evicted_peers

IdleCandidates == {p \in Candidates : last_peer_activity[p] = "idle"}

\* The ways to take the n lowest-staked members of S (equal stakes come in
\* hash order, so any of them may come first).
LowestStaked(S, n) ==
  {T \in SUBSET S :
     /\ Cardinality(T) = IF n < Cardinality(S) THEN n ELSE Cardinality(S)
     /\ \A x \in T, y \in S \ T : Stake[x] <= Stake[y]}

\* plan_eviction: idle peers if there is one, any peer otherwise.
PlanEviction(n) ==
  IF IdleCandidates # {} THEN LowestStaked(IdleCandidates, n)
                         ELSE LowestStaked(Candidates, n)

\* The strategy walks the candidates by stake until it has n idle ones, and
\* unwraps the last activity of each one it meets.  It may meet p before n
\* others (ties in hash order), or it may stop before p.
Unrecorded == {p \in Candidates : last_peer_activity[p] = "none"}

MayMeetUnrecorded(n) ==
  \E p \in Unrecorded :
    Cardinality({q \in IdleCandidates : Stake[q] < Stake[p]}) < n

MayMissUnrecorded(n) ==
  \A p \in Unrecorded :
    Cardinality({q \in IdleCandidates : Stake[q] <= Stake[p]}) >= n

NoEvictionRequired ==
  /\ stage = "evict"
  /\ EvictionCountRequired = 0
  /\ stage' = "predict"
  /\ UNCHANGED <<identity, tx_queues, connecting, connecting_blocked_by_eviction_list,
                 tx_worker_handle_map, worker, evictionVars, last_peer_activity,
                 respawn, submitted, response>>

\* Cancel the planned workers; a planned peer without a handle is skipped.
DoEviction ==
  /\ stage = "evict"
  /\ EvictionCountRequired > 0
  /\ MayMissUnrecorded(EvictionCountRequired)
  /\ \E plan \in PlanEviction(EvictionCountRequired) :
       LET evicted == plan \cap tx_worker_handle_map
       IN /\ worker' = Cancelled(evicted)
          /\ being_evicted_peers' = being_evicted_peers \cup evicted
  /\ stage' = "predict"
  /\ UNCHANGED <<identity, tx_queues, connecting, connecting_blocked_by_eviction_list,
                 tx_worker_handle_map, active_staked_sorted_remote_peer,
                 last_peer_activity, respawn, submitted, response>>

\* expect("missing last activity") in plan_eviction.
EvictionPanics ==
  /\ stage = "evict"
  /\ EvictionCountRequired > 0
  /\ MayMeetUnrecorded(EvictionCountRequired)
  /\ stage' = "panicked"
  /\ UNCHANGED <<identity, tx_queues, connecting, connecting_blocked_by_eviction_list,
                 tx_worker_handle_map, worker, evictionVars, last_peer_activity,
                 respawn, submitted, response>>

(***************************************************************************)
(* Top of the loop: try_predict_upcoming_leaders_if_necessary.  One step   *)
(* per announced leader; the predictor may announce any number of them.    *)
(***************************************************************************)
PredictLeader(p) ==
  /\ stage = "predict"
  /\ p \in Predictable
  /\ ~IsConnecting(p)
  /\ p \notin tx_worker_handle_map
  /\ SpawnConnecting(p, MaxConnectionAttempts, tx_queues[p],
                     connecting_blocked_by_eviction_list,
                     tx_worker_handle_map, being_evicted_peers, connecting)
  /\ UNCHANGED <<stage, identity, tx_worker_handle_map, worker, evictionVars,
                 last_peer_activity, respawn, submitted>>

PredictionDone ==
  /\ stage = "predict"
  /\ stage' = "select"
  /\ UNCHANGED <<identity, tx_queues, connecting, connecting_blocked_by_eviction_list,
                 tx_worker_handle_map, worker, evictionVars, last_peer_activity,
                 respawn, submitted, response>>

-----------------------------------------------------------------------------
(***************************************************************************)
(* select!: a transaction arrives                                          *)
(***************************************************************************)

\* accept_tx, the peer has a worker: try_send to its channel.  The receiver
\* outlives the worker (it is handed back in TxSenderWorkerCompleted), so the
\* channel is never Closed here and a finished worker still takes messages.
AcceptTxToWorker(t) ==
  LET p == RemotePeer[t]
      rx == worker[p][identity].rx
  IN /\ stage = "select"
     /\ t \notin submitted
     /\ p \in tx_worker_handle_map
     /\ submitted' = submitted \cup {t}
     /\ last_peer_activity' = [last_peer_activity EXCEPT ![p] = "recent"]
     /\ IF Len(rx) < ChannelCapacity
          THEN /\ worker' = [worker EXCEPT ![p][identity].rx = Append(rx, t)]
               /\ UNCHANGED response
          ELSE /\ response' = Answer({t}, "RateLimited")
               /\ UNCHANGED worker
     /\ stage' = "evict"
     /\ UNCHANGED <<identity, tx_queues, connecting, connecting_blocked_by_eviction_list,
                    tx_worker_handle_map, evictionVars, respawn>>

\* accept_tx, the peer has no worker: queue the transaction and connect.
AcceptTxToQueue(t) ==
  LET p == RemotePeer[t]
      queue == Append(tx_queues[p], FirstAttempt(t))
  IN /\ stage = "select"
     /\ t \notin submitted
     /\ p \notin tx_worker_handle_map
     /\ submitted' = submitted \cup {t}
     /\ last_peer_activity' = [last_peer_activity EXCEPT ![p] = "recent"]
     /\ SpawnConnecting(p, 1, queue, connecting_blocked_by_eviction_list,
                        tx_worker_handle_map, being_evicted_peers, connecting)
     /\ stage' = "evict"
     /\ UNCHANGED <<identity, tx_worker_handle_map, worker, evictionVars, respawn>>

-----------------------------------------------------------------------------
(***************************************************************************)
(* select!: a connection attempt finished (handle_connecting_result)       *)
(***************************************************************************)

\* Mutant: the attempt of p stays in connecting_remote_peers.
StillConnecting(p) == connecting

\* The attempt of p is removed from connecting_meta and connecting_remote_peers.
Joined(p) == [connecting EXCEPT ![p] = NoConnecting]

\* The identity changed while dialling: dial again.
AbandonsAttempt(p) == connecting[p].identity # identity

\* The worker install_worker spawns, holding the transactions queued so far.
FreshWorker(queue) == [st |-> "running", rx |-> <<>>, queue |-> queue,
                       cancel |-> FALSE, fatal |-> FALSE]

\* Ok(conn): register the stake and install a worker with the queue of p.
\* install_worker asserts that p had no worker.
InstallWorker(p) ==
  /\ stage = "select"
  /\ connecting[p].st = "dialing"
  /\ "ok" \in ConnectOutcomes
  /\ ~AbandonsAttempt(p)
  /\ connecting' = Joined(p)
  /\ active_staked_sorted_remote_peer' = active_staked_sorted_remote_peer \cup {p}
  /\ worker' = [worker EXCEPT ![p][identity] = FreshWorker(tx_queues[p])]
  /\ tx_queues' = [tx_queues EXCEPT ![p] = <<>>]
  /\ tx_worker_handle_map' = tx_worker_handle_map \cup {p}
  /\ stage' = IF p \in tx_worker_handle_map THEN "panicked" ELSE "evict"
  /\ UNCHANGED <<identity, connecting_blocked_by_eviction_list, last_peer_activity,
                 being_evicted_peers, respawn, submitted, response>>

\* A failed attempt (or one made under an abandoned identity): dial again, or
\* give the peer up as unreachable.
ConnectFailed(p, outcome) ==
  LET retries == outcome = "connection_error"
                   /\ connecting[p].attempt < MaxConnectionAttempts
      attempt == IF AbandonsAttempt(p) THEN connecting[p].attempt
                                       ELSE connecting[p].attempt + 1
  IN /\ stage = "select"
     /\ connecting[p].st = "dialing"
     /\ outcome \in ConnectOutcomes \ {"join_error"}
     /\ \/ AbandonsAttempt(p)
        \/ outcome \in {"connection_error", "other_error"}
     /\ IF AbandonsAttempt(p) \/ retries
          THEN SpawnConnecting(p, attempt, tx_queues[p],
                               connecting_blocked_by_eviction_list,
                               tx_worker_handle_map, being_evicted_peers, Joined(p))
          ELSE /\ connecting' = Joined(p)
               /\ DropPeerQueuedTx(p, tx_queues[p], "RemotePeerUnreachable")
               /\ UNCHANGED connecting_blocked_by_eviction_list
     /\ stage' = "evict"
     /\ UNCHANGED <<identity, tx_worker_handle_map, worker, evictionVars,
                    last_peer_activity, respawn, submitted>>

\* The task panicked: its metadata goes, the queue of p stays.
ConnectTaskPanicked(p) ==
  /\ stage = "select"
  /\ connecting[p].st = "dialing"
  /\ "join_error" \in ConnectOutcomes
  /\ connecting' = Joined(p)
  /\ stage' = "evict"
  /\ UNCHANGED <<identity, tx_queues, connecting_blocked_by_eviction_list,
                 tx_worker_handle_map, worker, evictionVars, last_peer_activity,
                 respawn, submitted, response>>

-----------------------------------------------------------------------------
(***************************************************************************)
(* select!: a worker finished (handle_worker_result)                       *)
(***************************************************************************)

\* unblock_eviction_waiting_connection pops k waiters: it stops at the first
\* one whose peer is still connecting, or when the list is empty.
UnblocksUpTo(k) ==
  LET list == connecting_blocked_by_eviction_list
  IN /\ k \in 0..Len(list)
     /\ \A i \in 1..k : IsConnecting(list[i].peer) => i = k
     /\ k < Len(list) => k > 0 /\ IsConnecting(list[k].peer)

\* Mutant: the waiters are popped, and nobody calls notify_one.
PoppedOnly(k) == connecting

\* Each popped waiter is notified: this frees the task that owns the Notify,
\* which is gone when the waiter was queued under an earlier identity.
Notified(k) ==
  [p \in Peers |->
     IF /\ connecting[p].st = "waiting"
        /\ \E i \in 1..k : connecting_blocked_by_eviction_list[i]
                             = [peer |-> p, identity |-> connecting[p].identity]
       THEN [connecting[p] EXCEPT !.st = "dialing"]
       ELSE connecting[p]]

AfterUnblocking(k) ==
  SubSeq(connecting_blocked_by_eviction_list, k + 1,
         Len(connecting_blocked_by_eviction_list))

\* Mutant: what was left in the channel is not rescued.
RescuedQueueOnly(w) == w.queue

\* The transactions of a finished worker, in the order they are rescued: what
\* was left in its channel first, then its own queue with the attempts spent.
Rescued(w) == [i \in 1..Len(w.rx) |-> FirstAttempt(w.rx[i])] \o w.queue

\* The branches are taken in this order: VersionMismatch (unreachable), then
\* evicted, then reconnect if there is something to send.
HandleWorkerResult(p) ==
  LET w == worker[p][identity]
      queue == tx_queues[p] \o Rescued(w)
      evicted == p \in being_evicted_peers
      reconnects == ~w.fatal /\ ~evicted /\ queue # <<>>
  IN /\ stage = "select"
     /\ w.st = "done"
     /\ worker' = [worker EXCEPT ![p][identity] = NoWorker]
     /\ tx_worker_handle_map' = tx_worker_handle_map \ {p}
     /\ active_staked_sorted_remote_peer' = active_staked_sorted_remote_peer \ {p}
     /\ being_evicted_peers' = being_evicted_peers \ {p}
     /\ last_peer_activity' = [last_peer_activity EXCEPT ![p] =
                                 IF reconnects THEN "recent" ELSE "none"]
     /\ \E k \in 0..Len(connecting_blocked_by_eviction_list) :
          /\ UnblocksUpTo(k)
          /\ IF reconnects
               THEN SpawnConnecting(p, 1, queue, AfterUnblocking(k),
                                    tx_worker_handle_map', being_evicted_peers',
                                    Notified(k))
               ELSE /\ DropPeerQueuedTx(p, queue,
                         IF w.fatal THEN "RemotePeerUnreachable" ELSE "DropByGateway")
                    /\ connecting' = Notified(k)
                    /\ connecting_blocked_by_eviction_list' = AfterUnblocking(k)
     /\ stage' = "evict"
     /\ UNCHANGED <<identity, respawn, submitted>>

-----------------------------------------------------------------------------
(***************************************************************************)
(* select!: identity updates, address changes, end of input                *)
(***************************************************************************)

\* Mutant: the attempts in flight are not aborted.
KeptConnecting == connecting

\* connecting_tasks.abort_all() and detach_all(), connecting_remote_peers.clear().
AbortedConnecting == [p \in Peers |-> NoConnecting]

\* Mutant: a parked attempt, which has no connection yet, is not remembered.
RememberedIfDialing(p) ==
  IF connecting[p].st = "dialing" THEN connecting[p].attempt ELSE 0

\* The attempt p had reached in connecting_meta, 0 when it was not dialled.
Remembered(p) == connecting[p].attempt

\* update_identity and update_identity_sync: the workers and the attempts of
\* the old identity are let go, the peers being dialled are remembered.  The
\* workers stay alive until they drain (schedule_graceful_drop_all_worker).
UpdateIdentity(next) ==
  /\ stage = "select"
  /\ identity < MaxIdentity
  /\ identity' = identity + 1
  /\ tx_worker_handle_map' = {}
  /\ respawn' = [p \in Peers |-> Remembered(p)]
  /\ connecting' = AbortedConnecting
  /\ stage' = next
  /\ UNCHANGED <<tx_queues, connecting_blocked_by_eviction_list, worker,
                 evictionVars, last_peer_activity, submitted, response>>

\* barrier.wait() returns: every member of the sync group reached it.
BarrierReleased ==
  /\ stage = "barrier"
  /\ stage' = "respawn"
  /\ UNCHANGED <<identity, tx_queues, connecting, connecting_blocked_by_eviction_list,
                 tx_worker_handle_map, worker, evictionVars, last_peer_activity,
                 respawn, submitted, response>>

\* Dial a remembered peer again, with the attempt number it had reached.
Respawn(p) ==
  /\ stage = "respawn"
  /\ respawn[p] > 0
  /\ SpawnConnecting(p, respawn[p], tx_queues[p], connecting_blocked_by_eviction_list,
                     tx_worker_handle_map, being_evicted_peers, connecting)
  /\ respawn' = [respawn EXCEPT ![p] = 0]
  /\ UNCHANGED <<stage, identity, tx_worker_handle_map, worker, evictionVars,
                 last_peer_activity, submitted>>

RespawnDone ==
  /\ stage = "respawn"
  /\ \A p \in Peers : respawn[p] = 0
  /\ stage' = "evict"
  /\ UNCHANGED <<identity, tx_queues, connecting, connecting_blocked_by_eviction_list,
                 tx_worker_handle_map, worker, evictionVars, last_peer_activity,
                 respawn, submitted, response>>

\* handle_remote_peer_addr_change: cancel the workers of the changed peers
\* whose address is another one now, or gone.  Which ones is the watcher's and
\* the address service's answer, here any set of peers with a worker.
HandleRemotePeerAddrChange(changed) ==
  /\ stage = "select"
  /\ worker' = Cancelled(changed)
  /\ stage' = "evict"
  /\ UNCHANGED <<identity, tx_queues, connecting, connecting_blocked_by_eviction_list,
                 tx_worker_handle_map, evictionVars, last_peer_activity, respawn,
                 submitted, response>>

\* handle_tasklet_result: the workers of a former identity are all joined.  This
\* only starts another iteration of the loop.
HandleTaskletResult ==
  /\ stage = "select"
  /\ \E i \in Identities :
       i < identity /\ \A p \in Peers : worker[p][i].st = "none"
  /\ stage' = "evict"
  /\ UNCHANGED <<identity, tx_queues, connecting, connecting_blocked_by_eviction_list,
                 tx_worker_handle_map, worker, evictionVars, last_peer_activity,
                 respawn, submitted, response>>

\* tx_inlet is closed: let the workers drain and leave.
InletClosed ==
  /\ stage = "select"
  /\ tx_worker_handle_map' = {}
  /\ stage' = "stopped"
  /\ UNCHANGED <<identity, tx_queues, connecting, connecting_blocked_by_eviction_list,
                 worker, evictionVars, last_peer_activity, respawn, submitted, response>>

-----------------------------------------------------------------------------
(***************************************************************************)
(* QuicTxSenderWorker::run: send what is in its queue, and only then look  *)
(* at the channel, the connection and the cancel permit.                   *)
(***************************************************************************)

\* The event loop's panic drops the JoinSet, which aborts the workers.
WorkerRuns(p, i) == stage # "panicked" /\ worker[p][i].st = "running"

WorkerIdle(p, i) == WorkerRuns(p, i) /\ worker[p][i].queue = <<>>

\* The handle, and with it the sending half of the channel, is gone.
InletDropped(p, i) == i # identity \/ p \notin tx_worker_handle_map

workerFrame == <<stage, identity, tx_queues, connecting,
                 connecting_blocked_by_eviction_list, tx_worker_handle_map,
                 evictionVars, last_peer_activity, respawn, submitted>>

\* process_tx, the stream was written.
SendOk(p, i) ==
  LET queue == worker[p][i].queue
  IN /\ WorkerRuns(p, i)
     /\ queue # <<>>
     /\ worker' = [worker EXCEPT ![p][i].queue = Tail(queue)]
     /\ response' = Answer({Head(queue).tx}, "TxSent")
     /\ UNCHANGED workerFrame

\* Mutant: one attempt too many.
GivesUpLate(entry) == entry.attempt > MaxSendAttempt

GivesUp(entry) == entry.attempt >= MaxSendAttempt

\* process_tx, the write failed: give the transaction up at the last attempt,
\* else put it back at the end.  A stopped or closed stream keeps the worker
\* going; a lost connection (or a rejected 0-RTT) ends it.
SendFailed(p, i, error) ==
  LET w == worker[p][i]
      entry == Head(w.queue)
  IN /\ WorkerRuns(p, i)
     /\ w.queue # <<>>
     /\ worker' = [worker EXCEPT ![p][i] =
          [w EXCEPT !.queue = IF GivesUp(entry) THEN Tail(@)
                              ELSE Append(Tail(@), [entry EXCEPT !.attempt = @ + 1]),
                    !.st = IF error = "stream" THEN @ ELSE "done",
                    !.fatal = (error = "version_mismatch")]]
     /\ response' = IF GivesUp(entry) THEN Answer({entry.tx}, "TxFailed") ELSE response
     /\ UNCHANGED workerFrame

\* incoming_rx.recv() yields a transaction.
WorkerRecv(p, i) ==
  LET w == worker[p][i]
  IN /\ WorkerIdle(p, i)
     /\ w.rx # <<>>
     /\ worker' = [worker EXCEPT ![p][i] =
          [w EXCEPT !.rx = Tail(@), !.queue = <<FirstAttempt(Head(w.rx))>>]]
     /\ UNCHANGED <<workerFrame, response>>

\* incoming_rx.recv() yields None: no sender and nothing left.
WorkerInletClosed(p, i) ==
  /\ WorkerIdle(p, i)
  /\ worker[p][i].rx = <<>>
  /\ InletDropped(p, i)
  /\ worker' = [worker EXCEPT ![p][i].st = "done"]
  /\ UNCHANGED <<workerFrame, response>>

\* connection.closed(): the remote side or a timeout ended the connection.
WorkerConnectionClosed(p, i, error) ==
  /\ WorkerIdle(p, i)
  /\ worker' = [worker EXCEPT ![p][i] =
       [worker[p][i] EXCEPT !.st = "done", !.fatal = (error = "version_mismatch")]]
  /\ UNCHANGED <<workerFrame, response>>

\* cancel_notify.notified().
WorkerCanceled(p, i) ==
  /\ WorkerIdle(p, i)
  /\ worker[p][i].cancel
  /\ worker' = [worker EXCEPT ![p][i] =
       [worker[p][i] EXCEPT !.st = "done", !.cancel = FALSE]]
  /\ UNCHANGED <<workerFrame, response>>

\* The drain tasklet joins a worker it was given; what the worker still held
\* is dropped with its result.
DrainJoin(p, i) ==
  /\ stage # "panicked"
  /\ i # identity \/ stage = "stopped"
  /\ worker[p][i].st = "done"
  /\ worker' = [worker EXCEPT ![p][i] = NoWorker]
  /\ UNCHANGED <<workerFrame, response>>

-----------------------------------------------------------------------------
\* The grace period of the eviction strategy elapses for p.
GracePeriodElapses(p) ==
  /\ stage \notin {"stopped", "panicked"}
  /\ last_peer_activity[p] = "recent"
  /\ last_peer_activity' = [last_peer_activity EXCEPT ![p] = "idle"]
  /\ UNCHANGED <<stage, identity, tx_queues, connecting,
                 connecting_blocked_by_eviction_list, tx_worker_handle_map, worker,
                 evictionVars, respawn, submitted, response>>

\* The event loop has returned and its workers are gone, or it has panicked.
Ended ==
  /\ \/ stage = "panicked"
     \/ /\ stage = "stopped"
        /\ \A p \in Peers, i \in Identities : worker[p][i].st = "none"
  /\ UNCHANGED vars

ConnectErrors == {"connection_error", "other_error"}

HandleConnectingResult(p) ==
  \/ InstallWorker(p)
  \/ \E outcome \in ConnectErrors : ConnectFailed(p, outcome)
  \/ ConnectTaskPanicked(p)

LoopTop ==
  \/ NoEvictionRequired
  \/ DoEviction
  \/ EvictionPanics
  \/ PredictionDone
  \/ RespawnDone
  \/ \E p \in Peers : Respawn(p)

\* open_uni and write_all of send_tx return; no timeout bounds them.
SendEnds(p, i) ==
  \/ SendOk(p, i)
  \/ \E error \in {"stream", "connection_lost", "version_mismatch"} : SendFailed(p, i, error)

WorkerStep(p, i) ==
  \/ WorkerRecv(p, i)
  \/ WorkerInletClosed(p, i)
  \/ WorkerCanceled(p, i)

Next ==
  \/ LoopTop
  \/ \E p \in Peers : PredictLeader(p)
  \/ \E t \in Txs : AcceptTxToWorker(t) \/ AcceptTxToQueue(t)
  \/ \E p \in Peers : HandleConnectingResult(p)
  \/ \E p \in Peers : HandleWorkerResult(p)
  \/ \E next \in {"respawn", "barrier"} : UpdateIdentity(next)
  \/ BarrierReleased
  \/ \E changed \in SUBSET tx_worker_handle_map : HandleRemotePeerAddrChange(changed)
  \/ HandleTaskletResult
  \/ InletClosed
  \/ \E p \in Peers, i \in Identities : SendEnds(p, i) \/ WorkerStep(p, i)
  \/ \E p \in Peers, i \in Identities, error \in {"connection_lost", "version_mismatch"} :
       WorkerConnectionClosed(p, i, error)
  \/ \E p \in Peers, i \in Identities : DrainJoin(p, i)
  \/ \E p \in Peers : GracePeriodElapses(p)
  \/ Ended

Spec == Init /\ [][Next]_vars

(***************************************************************************)
(* Fairness.  The loop's own steps and each spawned task are run by tokio  *)
(* as long as they can run (weak).  select! polls its branches in random   *)
(* order, so a result that is ready again and again is eventually taken    *)
(* (strong: other handlers disable it for the rest of the iteration).  A   *)
(* connection attempt ends because connecting_timeout bounds it.  Nothing  *)
(* is assumed of the network, the submitters, the clock or the other       *)
(* members of an identity update: a send may never end, a barrier may      *)
(* never open.                                                             *)
(***************************************************************************)
Fairness ==
  /\ WF_vars(LoopTop)
  /\ \A p \in Peers : SF_vars(HandleConnectingResult(p)) /\ SF_vars(HandleWorkerResult(p))
  /\ \A p \in Peers, i \in Identities : WF_vars(WorkerStep(p, i) \/ DrainJoin(p, i))

FairSpec == Spec /\ Fairness

-----------------------------------------------------------------------------
(***************************************************************************)
(* Properties                                                              *)
(***************************************************************************)

\* The positions at which transaction t is held: the loop's queues, and the
\* channels and queues of all workers, the drained ones included.
QueuePlaces(t) ==
  UNION {{<<p, n>> : n \in {m \in DOMAIN tx_queues[p] : tx_queues[p][m].tx = t}}
         : p \in Peers}

WorkerPlaces(t, p, i) ==
  {<<"rx", p, i, n>> : n \in {m \in DOMAIN worker[p][i].rx : worker[p][i].rx[m] = t}}
  \cup {<<"queue", p, i, n>> : n \in {m \in DOMAIN worker[p][i].queue :
                                        worker[p][i].queue[m].tx = t}}

\* The workers of a former identity, or of a loop that has ended, are drained.
Abandoned(i) == i # identity \/ stage = "stopped"

\* The refinement mapping: what the submitter knows of t.
Status(t) ==
  LET placesIn(I) == UNION {WorkerPlaces(t, p, i) : p \in Peers, i \in I}
      kept == Cardinality(QueuePlaces(t))
              + Cardinality(placesIn({i \in Identities : ~Abandoned(i)}))
      drained == Cardinality(placesIn({i \in Identities : Abandoned(i)}))
  IN IF t \notin submitted THEN "new"
     ELSE CASE kept + drained + Len(response[t]) = 0 -> "discarded"
            [] kept + drained + Len(response[t]) > 1 -> "duplicated"
            [] kept = 1 -> "held"
            [] drained = 1 -> "abandoned"
            [] OTHER -> "answered"

Delivery ==
  INSTANCE TxDelivery WITH
    Txs <- Txs,
    status <- [t \in Txs |-> Status(t)],
    epoch <- <<identity, stage = "stopped">>

\* The gateway implements TxDelivery.  Rescue, eviction, reconnection and
\* identity switches move transactions between five kinds of queue, and none
\* of them duplicates one or answers for it twice: a transaction is held at one
\* place, or answered once (and then never sent again).  It disappears without
\* an answer in one way only: with a worker joined by the drain tasklet of an
\* abandoned identity or of a closed inlet.  In particular handle_worker_result
\* rescues all that a failed, cancelled or evicted worker still held.
ImplementsDelivery == Delivery!Spec

\* assert!(tx_worker_handle_map.insert(..).is_none()) in install_worker: no
\* peer is dialled while it has a worker.
DialOrWorker == \A p \in Peers : IsConnecting(p) => p \notin tx_worker_handle_map

\* "THIS SHOULD NOT HAPPEN SINCE ON IDENTITY CHANGE WE ABORT ALL CONNECTING
\* TASKS" in handle_connecting_result: no result of an attempt made with a
\* former identity reaches the loop.
AttemptsUseCurrentIdentity ==
  \A p \in Peers : IsConnecting(p) => ~AbandonsAttempt(p)

\* No lost wake-up: an attempt parked on its Notify is in the list that
\* handle_worker_result takes the next waiter from, even after an identity
\* switch left waiters of aborted attempts in it.
WaiterIsListed ==
  \A p \in Peers : connecting[p].st = "waiting" =>
    \E i \in DOMAIN connecting_blocked_by_eviction_list :
      connecting_blocked_by_eviction_list[i]
        = [peer |-> p, identity |-> connecting[p].identity]

\* An eviction counted against the waiting list makes progress: the worker has
\* a cancel permit it will find, or has ended and is about to be joined.
EvictionIsSignalled ==
  \A p \in being_evicted_peers \cap tx_worker_handle_map :
    worker[p][identity].cancel \/ worker[p][identity].st = "done"

\* A peer whose eviction is under way, or was under way at the last identity
\* switch, is not dialled (spawn_connecting refuses it): the eviction of a
\* former connection never counts against a new one.
EvictedNotDialled == \A p \in being_evicted_peers : ~IsConnecting(p)

\* The handles are dropped when the loop leaves.
StoppedHasNoHandles == stage = "stopped" => tx_worker_handle_map = {}

\* Somebody will take up what is queued for p: an attempt is in flight (or parked
\* with its waiter listed), or the identity update under way makes one again.
Served(p) ==
  \/ tx_queues[p] = <<>>
  \/ IsConnecting(p)
  \/ respawn[p] > 0
  \/ stage \in {"stopped", "panicked"}

\* Transactions queued for a peer are never left behind: whichever handler ends
\* an attempt or a worker, drops a connection or switches the identity, it also
\* answers the queue or dials again.  One path breaks this: the task of an
\* attempt panics (the JoinError branch of handle_connecting_result forgets the
\* attempt and keeps the queue).  That the attempt gets its turn is another
\* question, see EveryTxAnswered.
QueueStaysServed ==
  [][\A p \in Peers : Served(p) => Served(p)' \/ ConnectTaskPanicked(p)]_vars

\* The inductive invariant behind the safety properties of the dialling and
\* eviction bookkeeping.
IInv ==
  /\ TypeOK
  /\ DialOrWorker
  /\ AttemptsUseCurrentIdentity
  /\ WaiterIsListed
  /\ EvictedNotDialled
  /\ EvictionIsSignalled
  /\ StoppedHasNoHandles

\* A worker is inside send_tx.
Sending(p, i) == WorkerRuns(p, i) /\ worker[p][i].queue # <<>>

\* A send that does not end, or a barrier another member does not reach, can
\* hold up everything that waits for the worker or for the loop.
Stalled ==
  \/ \E p \in Peers, i \in Identities : Sending(p, i)
  \/ stage = "barrier"

\* Every accepted transaction is answered in the end: a worker that fails over
\* and over uses up the attempts, an unreachable peer uses up the connection
\* attempts, a blocked attempt gets the slot of an evicted worker.  Exempt are a
\* gateway that was told to stop or that died, and the time of a stall.
EveryTxAnswered ==
  \A t \in Txs :
    t \in submitted ~> \/ response[t] # <<>>
                       \/ stage \in {"stopped", "panicked"}
                       \/ []Stalled

=============================================================================
