----------------------------- MODULE TpuDriver -----------------------------
(***************************************************************************)
(* TpuSenderDriver, the event loop of the shared TPU client                *)
(* (crates/tpu-client/src/core.rs), with its connecting tasks, workers and *)
(* drain tasklets.  It differs from the gateway of jet (QuicGateway) in    *)
(* what it counts: a connection belongs to a socket address and is shared  *)
(* by all the peers announced there.  Connections therefore have a life of *)
(* their own: they carry a version, are evicted when their last worker     *)
(* leaves, or become orphans that a timer closes.                          *)
(*                                                                         *)
(* The loop is one task and its handlers call each other, often several    *)
(* times in a row (one spawn_connecting per multiplexed peer).  The state  *)
(* of the loop is therefore one record, `drv`, and a helper of the code is *)
(* an operator from record to record.  The worker tasks run on their own;  *)
(* they are in the record as well since the handlers create and join them. *)
(***************************************************************************)
EXTENDS Naturals, Sequences, FiniteSets, SequencesExt

CONSTANTS
  Peers,                    \* remote validators
  Addrs,                    \* their TPU socket addresses
  NoAddr,                   \* get_quic_dest_addr answers None
  InitAddr,                 \* the address of each peer at the start
  Txs,                      \* transactions submitted to the driver
  RemotePeer,               \* tx.remote_peer
  Oversized,                \* transactions beyond transaction_data_size_limit
  Stake,                    \* ValidatorStakeInfoService, 0 when unknown
  MaxConcurrentConnection,  \* config.max_concurrent_connection
  MaxConnectionAttempts,    \* config.max_connection_attempts
  MaxSendAttempt,           \* config.max_send_attempt
  ChannelCapacity,          \* config.transaction_sender_worker_channel_capacity
  Predictable,              \* leaders the predictor may announce; {} is no lookahead
  WorkersMayPanic,          \* whether a worker task (a user callback) may panic
  MaxIdentity,              \* bound: identity updates requested
  MaxVersion,               \* bound: connections established
  MaxFaults                 \* bound: moves, identity updates and panics together

ASSUME DriverAssumption ==
  /\ IsFiniteSet(Peers) /\ IsFiniteSet(Addrs) /\ NoAddr \notin Addrs
  /\ InitAddr \in [Peers -> Addrs \cup {NoAddr}]
  /\ RemotePeer \in [Txs -> Peers] /\ Oversized \subseteq Txs
  /\ Stake \in [Peers -> Nat]
  /\ MaxConcurrentConnection \in Nat \ {0} /\ MaxConnectionAttempts \in Nat \ {0}
  /\ MaxSendAttempt \in Nat \ {0} /\ ChannelCapacity \in Nat \ {0}
  /\ Predictable \subseteq Peers /\ WorkersMayPanic \in BOOLEAN
  /\ MaxIdentity \in Nat /\ MaxVersion \in Nat /\ MaxFaults \in Nat

VARIABLES
  stage,      \* where the event loop stands
  drv,        \* the fields of TpuSenderDriver and its worker tasks
  respawn,    \* connecting_meta saved by update_identity while it waits
  tpu_addr,   \* LeaderTpuInfoService: the address each peer announces now
  faults,     \* number of moves, identity updates and panics so far
  ghosts,     \* history: <<address, version, peer>> of workers that panicked
  cnc,        \* the command channel
  in_flight,  \* identity_update_in_flight of TpuSenderIdentityUpdater
  submitted   \* transactions taken from tx_inlet

vars == <<stage, drv, respawn, tpu_addr, faults, ghosts, cnc, in_flight,
          submitted>>

envVars == <<tpu_addr, faults, ghosts>>
cmdVars == <<respawn, cnc, in_flight>>

Identities == 0..MaxIdentity

Entry == [tx : Txs, attempt : 1..MaxSendAttempt]

\* ConnectingMeta of the task that dials an address, for all its peers.
Connecting == [st : {"none", "waiting", "dialing"}, peers : Seq(Peers),
               attempt : 0..MaxConnectionAttempts, identity : Identities]

NoConnecting == [st |-> "none", peers |-> <<>>, attempt |-> 0, identity |-> 0]

\* ActiveConnection.  A connection that broke stays in the map.
Connection == [st : {"none", "open", "lost", "mismatch"}, version : 0..MaxVersion,
               peers : SUBSET Peers]

NoConnection == [st |-> "none", version |-> 0, peers |-> {}]

\* TxWorkerSenderHandle.
Handle == [addr : Addrs \cup {NoAddr}, version : 0..MaxVersion]

NoHandle == [addr |-> NoAddr, version |-> 0]

\* The connection and the peer of a worker that panicked.
Ghost == (Addrs \cup {NoAddr}) \X (0..MaxVersion) \X Peers

\* QuicTxSenderWorker: its receiver, its own queue, the permit of its
\* cancel_notify, and whether it ended with VersionMismatch.
Worker == [st : {"none", "running", "done", "panicked"}, rx : Seq(Txs),
           queue : Seq(Entry), cancel : BOOLEAN, fatal : BOOLEAN]

NoWorker == [st |-> "none", rx |-> <<>>, queue |-> <<>>, cancel |-> FALSE, fatal |-> FALSE]

Outcomes == {"TxSent", "TxFailed", "RateLimited", "RemotePeerUnreachable",
             "RemotePeerBeingEvicted", "InvalidPacketSize", "DriverIdentityChanged"}

\* A connection together with its version: ConnectionEviction, OrphanConnectionInfo.
Versioned == Addrs \X (1..MaxVersion)

Driver ==
  [identity : Identities,
   tx_queues : [Peers -> Seq(Entry)],
   left : [Peers -> [Identities -> Seq(Entry)]],  \* tx_queues given to a drain tasklet
   connecting : [Addrs -> Connecting],
   blocked : Seq(Addrs),           \* connecting_blocked_by_eviction_list
   handle : [Peers -> Handle],     \* tx_worker_handle_map
   worker : [Peers -> [Identities -> Worker]],
   conns : [Addrs -> Connection],  \* connection_map
   version : 0..MaxVersion,        \* connection_version
   pending : SUBSET Versioned,     \* pending_connection_eviction_set
   evicting : SUBSET Peers,        \* being_evicted_peers
   orphans : Seq(Versioned),       \* orphan_connection_set, oldest first
   recent : SUBSET Peers,          \* last_peer_activity within the grace period
   response : [Txs -> Seq(Outcomes)]]

TypeOK ==
  /\ stage \in {"evict", "predict", "select", "barrier", "stopped"}
  /\ drv \in Driver
  /\ respawn \in [Addrs -> Connecting]
  /\ tpu_addr \in [Peers -> Addrs \cup {NoAddr}]
  /\ faults \in 0..MaxFaults
  /\ ghosts \in SUBSET Ghost
  /\ cnc \in Seq({"update", "barrier"})
  /\ in_flight \in BOOLEAN
  /\ submitted \in SUBSET Txs

Init ==
  /\ stage = "evict"
  /\ drv = [identity |-> 0,
            tx_queues |-> [p \in Peers |-> <<>>],
            left |-> [p \in Peers |-> [i \in Identities |-> <<>>]],
            connecting |-> [a \in Addrs |-> NoConnecting],
            blocked |-> <<>>,
            handle |-> [p \in Peers |-> NoHandle],
            worker |-> [p \in Peers |-> [i \in Identities |-> NoWorker]],
            conns |-> [a \in Addrs |-> NoConnection],
            version |-> 0,
            pending |-> {}, evicting |-> {}, orphans |-> <<>>, recent |-> {},
            response |-> [t \in Txs |-> <<>>]]
  /\ respawn = [a \in Addrs |-> NoConnecting]
  /\ tpu_addr = InitAddr
  /\ faults = 0
  /\ ghosts = {}
  /\ cnc = <<>>
  /\ in_flight = FALSE
  /\ submitted = {}

\* Bounded: the peer moves, the identity is updated or a worker panics.
FaultHappens == faults < MaxFaults /\ faults' = faults + 1

-----------------------------------------------------------------------------
(***************************************************************************)
(* Helpers of the loop: what they read, and record to record               *)
(***************************************************************************)

TxsOf(queue) == {queue[i].tx : i \in DOMAIN queue}

FirstAttempt(t) == [tx |-> t, attempt |-> 1]

Connected(s) == {a \in Addrs : s.conns[a].st # "none"}

\* connecting_remote_peers.
ConnectingPeers(s) == UNION {ToSet(s.connecting[a].peers) : a \in Addrs}

HasWorker(s, p) == s.handle[p] # NoHandle

\* contains_socket_addr of the pending evictions.
PendingAddrs(s) == {e[1] : e \in s.pending}

\* The handle's version is the one of the connection now at its address.
OnCurrentConnection(s, p) ==
  HasWorker(s, p) /\ s.conns[s.handle[p].addr].version = s.handle[p].version

\* The callback is called with outcome o for every transaction of T.
Answer(s, T, o) ==
  [s EXCEPT !.response = [t \in Txs |-> IF t \in T THEN Append(@[t], o) ELSE @[t]]]

\* drop_peer_queued_tx.
DropPeerQueuedTx(s, p, o) ==
  [Answer(s, TxsOf(s.tx_queues[p]), o) EXCEPT !.tx_queues[p] = <<>>]

UnreachablePeer(s, p) == DropPeerQueuedTx(s, p, "RemotePeerUnreachable")

QueueIsFull(s, p) == Len(s.tx_queues[p]) >= ChannelCapacity

\* queue_tx_or_drop.
QueueTxOrDrop(s, p, entry) ==
  IF QueueIsFull(s, p)
    THEN Answer(s, {entry.tx}, "RateLimited")
    ELSE [s EXCEPT !.tx_queues[p] = Append(@, entry)]

HasConnectionCapacity(s) == Cardinality(Connected(s)) < MaxConcurrentConnection

\* Mutant: notify_waiters, which only wakes a worker that is waiting right now.
CancelIfIdle(s, P) ==
  [s EXCEPT !.worker = [p \in Peers |->
     IF p \in P /\ HasWorker(s, p) /\ @[p][s.identity].queue = <<>>
       THEN [@[p] EXCEPT ![s.identity].cancel = TRUE] ELSE @[p]]]

\* cancel_notify.notify_one() for the workers of P.
Cancel(s, P) ==
  [s EXCEPT !.worker = [p \in Peers |->
     IF p \in P /\ HasWorker(s, p) THEN [@[p] EXCEPT ![s.identity].cancel = TRUE]
                                   ELSE @[p]]]

\* install_worker on the connection at a.
InstallWorker(s, p, a) ==
  IF HasWorker(s, p) THEN s
  ELSE IF s.conns[a].st = "none" THEN UnreachablePeer(s, p)
  ELSE LET version == s.conns[a].version
       IN [s EXCEPT !.worker[p][s.identity] =
                      [NoWorker EXCEPT !.st = "running", !.queue = s.tx_queues[p]],
                    !.tx_queues[p] = <<>>,
                    !.handle[p] = [addr |-> a, version |-> version],
                    !.conns[a].peers = @ \cup {p},
                    !.orphans = RemoveFirst(@, <<a, version>>)]

\* The part of spawn_connecting that starts a task, or joins the one that
\* dials the address already.
Dial(s, p, a, attempt) ==
  IF s.connecting[a].st # "none"
    THEN [s EXCEPT !.connecting[a].peers = Append(@, p)]
    ELSE [s EXCEPT
            !.connecting[a] = [st |-> IF HasConnectionCapacity(s) THEN "dialing"
                                                                  ELSE "waiting",
                               peers |-> <<p>>, attempt |-> attempt,
                               identity |-> s.identity],
            !.blocked = IF HasConnectionCapacity(s) THEN @ ELSE Append(@, a)]

\* Mutant: an existing connection is not looked for.
SpawnIgnoringConnections(s, p, attempt) ==
  LET a == tpu_addr[p]
  IN IF p \in ConnectingPeers(s) \/ p \in s.evicting \/ HasWorker(s, p) THEN s
     ELSE IF a = NoAddr THEN UnreachablePeer(s, p)
     ELSE Dial(s, p, a, attempt)

\* spawn_connecting.
SpawnConnecting(s, p, attempt) ==
  LET a == tpu_addr[p]
  IN IF p \in ConnectingPeers(s) \/ p \in s.evicting \/ HasWorker(s, p) THEN s
     ELSE IF a = NoAddr THEN UnreachablePeer(s, p)
     ELSE IF a \in PendingAddrs(s) THEN s
     ELSE IF a \in Connected(s) THEN InstallWorker(s, p, a)
     ELSE Dial(s, p, a, attempt)

\* spawn_connecting for one peer after the other.
SpawnAll(s, peers, attempt) ==
  LET spawn(r, p) == SpawnConnecting(r, p, attempt) IN FoldLeft(spawn, s, peers)

\* unblock_eviction_waiting_connection: notify the first waiter.
Unblock(s) ==
  IF s.blocked = <<>> THEN s
  ELSE [s EXCEPT !.blocked = Tail(@), !.connecting[Head(s.blocked)].st = "dialing"]

\* Mutant: the eviction is not taken out of the pending set.
CloseKeepingPending(s, a) ==
  Unblock([s EXCEPT !.conns[a] = NoConnection])

\* The connection leaves the map and the pending set; a waiter gets its place.
CloseConnection(s, a) ==
  Unblock([s EXCEPT !.conns[a] = NoConnection, !.pending = @ \ {<<a, s.conns[a].version>>}])

\* Mutant: a connection without workers is simply kept.
NotOrphaned(s, a) == s

\* orphan_connection_set.insert, ignored for a version that is there.
Orphaned(s, a) ==
  LET e == <<a, s.conns[a].version>>
  IN IF e \in ToSet(s.orphans) THEN s ELSE [s EXCEPT !.orphans = Append(@, e)]

\* Mutant: an evicted connection is closed when its first worker leaves.
RemoveFirstWorker(s, p) ==
  LET a == s.handle[p].addr
      without == [s EXCEPT !.conns[a].peers = @ \ {p}]
  IN IF ~OnCurrentConnection(s, p) THEN s
     ELSE IF <<a, s.handle[p].version>> \in s.pending THEN CloseConnection(without, a)
     ELSE IF without.conns[a].peers # {} THEN without
     ELSE Orphaned(without, a)

\* remove_worker_from_active_connection, with the version check of its caller.
RemoveWorkerFromActiveConnection(s, p) ==
  LET a == s.handle[p].addr
      without == [s EXCEPT !.conns[a].peers = @ \ {p}]
  IN IF ~OnCurrentConnection(s, p) THEN s
     ELSE IF without.conns[a].peers # {} THEN without
     ELSE IF <<a, s.handle[p].version>> \in s.pending THEN CloseConnection(without, a)
     ELSE Orphaned(without, a)

-----------------------------------------------------------------------------
(***************************************************************************)
(* Top of the loop: do_eviction_if_required                                *)
(***************************************************************************)

EvictionCountRequired ==
  LET waiting == Len(drv.blocked)
      ongoing == Cardinality(drv.pending)
  IN IF waiting > ongoing THEN waiting - ongoing ELSE 0

\* total_stake of the peers multiplexed on the connection at a.
GroupStake(a) ==
  LET add(total, p) == total + Stake[p]
  IN FoldLeft(add, 0, SetToSeq(drv.conns[a].peers))

\* The ways to take the n groups of S with the least stake (ties in hash order).
LowestStaked(S, n) ==
  {T \in SUBSET S :
     /\ Cardinality(T) = IF n < Cardinality(S) THEN n ELSE Cardinality(S)
     /\ \A a \in T, b \in S \ T : GroupStake(a) <= GroupStake(b)}

PeersAt(T) == UNION {drv.conns[a].peers : a \in T}

NotEvicting == {a \in Connected(drv) : drv.conns[a].peers \cap drv.evicting = {}}

IdleGroups == {a \in NotEvicting : drv.conns[a].peers \cap drv.recent = {}}

\* plan_eviction_with_addr_map: idle groups, or any group if those have no
\* peer; and the fallback of do_eviction_if_required when nothing is pending.
\* A connection without peers counts as a group, the least staked one.
Plans(n) ==
  LET anyGroup == {PeersAt(T) : T \in LowestStaked(NotEvicting, n)}
      fallback == IF drv.pending = {}
                    THEN {PeersAt(T) : T \in LowestStaked(Connected(drv), 1)}
                    ELSE {{}}
      orElse(plans, others) == (plans \ {{}}) \cup (IF {} \in plans THEN others ELSE {})
  IN orElse({PeersAt(T) : T \in LowestStaked(IdleGroups, n)}, orElse(anyGroup, fallback))

\* Evict the peers of the plan that have a worker, and with each of them all
\* the peers that share its connection, which is then pending.
Evict(s, plan) ==
  LET chosen == {p \in plan : HasWorker(s, p)}
      at == {s.handle[p].addr : p \in {q \in chosen : OnCurrentConnection(s, q)}}
      all == chosen \cup UNION {s.conns[a].peers : a \in at}
  IN Cancel([s EXCEPT !.evicting = @ \cup all,
                      !.pending = @ \cup {<<a, s.conns[a].version>> : a \in at}], all)

DoEviction ==
  /\ stage = "evict"
  /\ EvictionCountRequired > 0
  /\ \E plan \in Plans(EvictionCountRequired) : drv' = Evict(drv, plan)
  /\ stage' = "predict"
  /\ UNCHANGED <<envVars, cmdVars, submitted>>

\* do_eviction_if_required is done, or had nothing to do.
EvictionDone == stage = "predict" \/ (stage = "evict" /\ EvictionCountRequired = 0)

\* try_predict_upcoming_leaders_if_necessary, when its deadline has passed.
\* A leader that has a worker or is being dialled is skipped (SpawnConnecting).
TryPredictUpcomingLeaders(upcoming) ==
  /\ EvictionDone
  /\ drv' = SpawnAll(drv, upcoming, 1)
  /\ stage' = "select"
  /\ UNCHANGED <<envVars, cmdVars, submitted>>

\* The loop waits in its select!, having predicted nothing or all it could.
AtSelect == stage = "select" \/ EvictionDone

\* A handler is done: the loop starts over.
LoopAgain == stage' = "evict"

\* The timer of the next prediction fires.
PredictionTimer ==
  /\ stage \in {"predict", "select"}
  /\ Predictable # {}
  /\ LoopAgain
  /\ UNCHANGED <<drv, envVars, cmdVars, submitted>>

-----------------------------------------------------------------------------
(***************************************************************************)
(* select!: transactions                                                   *)
(***************************************************************************)

\* The body of accept_tx, after the entry of last_peer_activity.
Accepted(s, t, p) ==
  LET w == s.worker[p][s.identity]
      queued == QueueTxOrDrop(s, p, FirstAttempt(t))
  IN IF t \in Oversized THEN Answer(s, {t}, "InvalidPacketSize")
     ELSE IF HasWorker(s, p) /\ w.st = "panicked" THEN queued  \* TrySendError::Closed
     ELSE IF HasWorker(s, p) /\ Len(w.rx) < ChannelCapacity
            THEN [s EXCEPT !.worker[p][s.identity].rx = Append(@, t)]
     ELSE IF HasWorker(s, p) THEN Answer(s, {t}, "RateLimited")
     ELSE IF QueueIsFull(s, p) THEN queued
     ELSE SpawnConnecting(queued, p, 1)

AcceptTx(t) ==
  /\ AtSelect
  /\ t \notin submitted
  /\ submitted' = submitted \cup {t}
  /\ drv' = Accepted([drv EXCEPT !.recent = @ \cup {RemotePeer[t]}], t, RemotePeer[t])
  /\ LoopAgain
  /\ UNCHANGED <<envVars, cmdVars>>

(***************************************************************************)
(* select!: results of connecting tasks                                    *)
(***************************************************************************)

AllUnreachable(s, peers) == FoldLeft(UnreachablePeer, s, peers)

\* The connection enters the map with the next version, and each peer that
\* waited for it gets a worker.
Established(s, a, peers) ==
  LET install(r, p) == InstallWorker(r, p, a)
  IN FoldLeft(install,
              [s EXCEPT !.conns[a] = [st |-> "open", version |-> s.version + 1, peers |-> {}],
                        !.version = @ + 1], peers)

\* A peer that moved meanwhile starts again with its first attempt.
Reattempt(s, a, attempt, peers) ==
  LET again(r, p) ==
        IF tpu_addr[p] = NoAddr THEN UnreachablePeer(r, p)
        ELSE SpawnConnecting(r, p, IF tpu_addr[p] # a THEN 1 ELSE attempt + 1)
  IN FoldLeft(again, s, peers)

\* handle_connecting_result.  "other_error" stands for every outcome that is
\* not retried, a panic of the task included.
HandleConnectingResult(a, outcome) ==
  LET c == drv.connecting[a]
      s == [drv EXCEPT !.connecting[a] = NoConnecting]
      retried == outcome = "connection_error" /\ c.attempt < MaxConnectionAttempts
  IN /\ AtSelect
     /\ c.st = "dialing"
     /\ outcome = "ok" => drv.version < MaxVersion
     /\ drv' = IF c.identity # drv.identity THEN SpawnAll(s, c.peers, c.attempt)
               ELSE IF outcome = "ok" THEN Established(s, a, c.peers)
               ELSE IF retried THEN Reattempt(s, a, c.attempt, c.peers)
               ELSE AllUnreachable(s, c.peers)
     /\ LoopAgain
     /\ UNCHANGED <<envVars, cmdVars, submitted>>

(***************************************************************************)
(* select!: results of workers                                             *)
(***************************************************************************)

\* Mutant: what is left in the channel of a finished worker is forgotten.
RescueQueueOnly(s, p, w) ==
  LET put(r, entry) == QueueTxOrDrop(r, p, entry) IN FoldLeft(put, s, w.queue)

\* What a finished worker still held goes back to the queue of its peer.
Rescue(s, p, w) ==
  LET put(r, entry) == QueueTxOrDrop(r, p, entry)
      received == [i \in DOMAIN w.rx |-> FirstAttempt(w.rx[i])]
  IN FoldLeft(put, s, received \o w.queue)

\* handle_worker_result of a worker that returned.
HandleWorkerResult(p) ==
  LET w == drv.worker[p][drv.identity]
      removed == RemoveWorkerFromActiveConnection(drv, p)
      freed == [removed EXCEPT !.evicting = @ \ {p}, !.handle[p] = NoHandle,
                               !.worker[p][drv.identity] = NoWorker,
                               !.recent = @ \ {p}]
      s == Rescue(freed, p, w)
  IN /\ AtSelect
     /\ w.st = "done"
     /\ drv' = IF w.fatal THEN UnreachablePeer(s, p)
               ELSE IF p \in drv.evicting
                 THEN DropPeerQueuedTx(s, p, "RemotePeerBeingEvicted")
               ELSE IF s.tx_queues[p] # <<>>
                 THEN SpawnConnecting([s EXCEPT !.recent = @ \cup {p}], p, 1)
               ELSE s
     /\ LoopAgain
     /\ UNCHANGED <<envVars, cmdVars, submitted>>

\* handle_worker_result of a worker that panicked: only its handle goes, the
\* connection keeps the peer in its table.
HandleWorkerPanicked(p) ==
  /\ AtSelect
  /\ drv.worker[p][drv.identity].st = "panicked"
  /\ drv' = UnreachablePeer([drv EXCEPT !.handle[p] = NoHandle,
                                        !.worker[p][drv.identity] = NoWorker], p)
  /\ ghosts' = ghosts \cup {<<drv.handle[p].addr, drv.handle[p].version, p>>}
  /\ LoopAgain
  /\ UNCHANGED <<tpu_addr, faults, cmdVars, submitted>>

(***************************************************************************)
(* select!: orphans and address changes                                    *)
(***************************************************************************)

\* One expired entry of try_evict_orphan_connections.
ExpireOrphan(s, e) ==
  LET c == s.conns[e[1]]
  IN IF c.version = e[2] /\ c.peers = {}
       THEN Unblock([s EXCEPT !.conns[e[1]] = NoConnection])
       ELSE s

\* The timer fires and the k oldest orphans have outlived their time.
TryEvictOrphanConnections(k) ==
  /\ AtSelect
  /\ drv' = FoldLeft(ExpireOrphan,
                     [drv EXCEPT !.orphans = SubSeq(@, k + 1, Len(@))],
                     SubSeq(drv.orphans, 1, k))
  /\ LoopAgain
  /\ UNCHANGED <<envVars, cmdVars, submitted>>

\* Peers with a worker on an address they no longer announce.
Moved == {p \in Peers : HasWorker(drv, p) /\ tpu_addr[p] # drv.handle[p].addr}

\* handle_remote_peer_addr_change for the peers the watcher reports (those
\* that are back at their address are skipped).  A peer without an address
\* takes its connection down when the last worker leaves it.
HandleRemotePeerAddrChange(changed) ==
  LET gone == {p \in changed : tpu_addr[p] = NoAddr}
  IN /\ AtSelect
     /\ drv' = Cancel([drv EXCEPT !.pending =
                         @ \cup {<<drv.handle[p].addr, drv.handle[p].version>> : p \in gone}],
                      changed)
     /\ LoopAgain
     /\ UNCHANGED <<envVars, cmdVars, submitted>>

(***************************************************************************)
(* select!: identity updates and the end of the input                      *)
(***************************************************************************)

\* schedule_graceful_drop_all_worker: the workers run on without handles, the
\* tasklet owns the queues.  A queue whose peer has no worker is never looked
\* at again.
DropAllWorkers(s) ==
  [s EXCEPT !.handle = [p \in Peers |-> NoHandle],
            !.left = [p \in Peers |-> [@[p] EXCEPT ![s.identity] =
                        IF s.worker[p][s.identity].st = "none" THEN <<>>
                                                              ELSE s.tx_queues[p]]],
            !.tx_queues = [p \in Peers |-> <<>>]]

\* Mutant: step 6 of update_identity is missing.
IdentityChangedKeepingWaiters(s) ==
  [DropAllWorkers(s) EXCEPT
     !.identity = @ + 1, !.connecting = [a \in Addrs |-> NoConnecting],
     !.conns = [a \in Addrs |-> NoConnection],
     !.pending = {}, !.evicting = {}, !.orphans = <<>>]

\* update_identity up to its barrier.
IdentityChanged(s) ==
  [DropAllWorkers(s) EXCEPT
     !.identity = @ + 1, !.connecting = [a \in Addrs |-> NoConnecting],
     !.conns = [a \in Addrs |-> NoConnection],
     !.blocked = <<>>, !.pending = {}, !.evicting = {}, !.orphans = <<>>]

\* update_identity after its barrier: dial again what was being dialled.
Respawned(s, saved, order) ==
  LET again(r, a) == SpawnAll(r, saved[a].peers, saved[a].attempt)
  IN FoldLeft(again, s, order)

DialOrders(saved) == SetToSeqs({a \in Addrs : saved[a].st # "none"})

\* Mutant: a plain update does not ask whether a barrier update is under way.
RequestUpdateAnyTime ==
  /\ stage # "stopped"
  /\ drv.identity + Len(cnc) < MaxIdentity
  /\ FaultHappens
  /\ cnc' = Append(cnc, "update")
  /\ UNCHANGED <<stage, drv, respawn, tpu_addr, ghosts, in_flight, submitted>>

\* TpuSenderIdentityUpdater::update_identity sends its command, unless a
\* barrier update is under way.
RequestUpdate ==
  /\ stage # "stopped"
  /\ drv.identity + Len(cnc) < MaxIdentity
  /\ FaultHappens
  /\ ~in_flight
  /\ cnc' = Append(cnc, "update")
  /\ UNCHANGED <<stage, drv, respawn, tpu_addr, ghosts, in_flight, submitted>>

\* Mutant: the permit stays with the caller, who may stop waiting.
RequestBarrierUpdateByCaller ==
  /\ stage # "stopped"
  /\ drv.identity + Len(cnc) < MaxIdentity
  /\ FaultHappens
  /\ ~in_flight
  /\ cnc' = Append(cnc, "barrier")
  /\ in_flight' \in BOOLEAN
  /\ UNCHANGED <<stage, drv, respawn, tpu_addr, ghosts, submitted>>

\* update_identity_with_confirmation_barrier acquires the permit and sends.
\* Whether its caller waits for the answer makes no difference to the driver.
RequestBarrierUpdate ==
  /\ stage # "stopped"
  /\ drv.identity + Len(cnc) < MaxIdentity
  /\ FaultHappens
  /\ ~in_flight
  /\ cnc' = Append(cnc, "barrier")
  /\ in_flight' = TRUE
  /\ UNCHANGED <<stage, drv, respawn, tpu_addr, ghosts, submitted>>

\* handle_cnc, plain command: nothing is awaited in between.
UpdateIdentity ==
  /\ AtSelect
  /\ cnc # <<>> /\ Head(cnc) = "update"
  /\ cnc' = Tail(cnc)
  /\ \E order \in DialOrders(drv.connecting) :
       drv' = Respawned(IdentityChanged(drv), drv.connecting, order)
  /\ LoopAgain
  /\ UNCHANGED <<respawn, envVars, in_flight, submitted>>

\* handle_cnc, barrier command: the loop stops at the barrier.
UpdateIdentityToBarrier ==
  /\ AtSelect
  /\ cnc # <<>> /\ Head(cnc) = "barrier"
  /\ cnc' = Tail(cnc)
  /\ drv' = IdentityChanged(drv)
  /\ respawn' = drv.connecting
  /\ stage' = "barrier"
  /\ UNCHANGED <<envVars, in_flight, submitted>>

\* All participants are at the barrier; the permit is dropped.
BarrierReleased ==
  /\ stage = "barrier"
  /\ \E order \in DialOrders(respawn) : drv' = Respawned(drv, respawn, order)
  /\ respawn' = [a \in Addrs |-> NoConnecting]
  /\ in_flight' = FALSE
  /\ LoopAgain
  /\ UNCHANGED <<envVars, cnc, submitted>>

\* The input is closed: the loop only joins its tasklets from now on; the rest
\* of its state is not looked at again (and is cleared here).
InletClosed ==
  /\ AtSelect
  /\ drv' = [DropAllWorkers(drv) EXCEPT
               !.connecting = [a \in Addrs |-> NoConnecting], !.blocked = <<>>,
               !.conns = [a \in Addrs |-> NoConnection], !.version = 0,
               !.pending = {}, !.evicting = {}, !.orphans = <<>>, !.recent = {}]
  /\ stage' = "stopped"
  /\ cnc' = <<>>
  /\ in_flight' = FALSE
  /\ tpu_addr' = InitAddr
  /\ ghosts' = {}
  /\ UNCHANGED <<respawn, faults, submitted>>

-----------------------------------------------------------------------------
(***************************************************************************)
(* QuicTxSenderWorker::run of peer p under identity i                      *)
(***************************************************************************)

workerFrame == <<stage, envVars, cmdVars, submitted>>

\* The worker belongs to a tasklet (of a former identity, or of the end).
Drained(i) == i # drv.identity \/ stage = "stopped"

\* The connection of the worker is in state st.  A drained worker holds the
\* last reference to a connection the loop has forgotten: anything may be.
ConnectionIs(p, i, st) ==
  IF Drained(i) THEN TRUE ELSE drv.conns[drv.handle[p].addr].st = st

Runs(p, i) == drv.worker[p][i].st = "running"

Idle(p, i) == Runs(p, i) /\ drv.worker[p][i].queue = <<>>

WorkerBecomes(p, i, w) == drv' = [drv EXCEPT !.worker[p][i] = w]

SendOk(p, i) ==
  LET w == drv.worker[p][i]
  IN /\ Runs(p, i) /\ w.queue # <<>>
     /\ ConnectionIs(p, i, "open")
     /\ drv' = [Answer(drv, {Head(w.queue).tx}, "TxSent")
                  EXCEPT !.worker[p][i].queue = Tail(@)]
     /\ UNCHANGED workerFrame

\* The state of the connection in which a write fails with the error.  A
\* rejected 0-RTT ends the worker as well, on a connection that lives.
WriteErrors == [stream |-> "open", zero_rtt |-> "open", lost |-> "lost", mismatch |-> "mismatch"]

\* Mutant: one attempt too many.
GivesUpLate(entry) == entry.attempt > MaxSendAttempt

GivesUp(entry) == entry.attempt >= MaxSendAttempt

\* process_tx of a write that failed: the last attempt is answered, another
\* one goes to the back of the queue.
SendFailed(p, i, error) ==
  LET w == drv.worker[p][i]
      entry == Head(w.queue)
      last == GivesUp(entry)
      next == [w EXCEPT !.queue = IF last THEN Tail(@)
                                  ELSE Append(Tail(@), [entry EXCEPT !.attempt = @ + 1]),
                        !.st = IF error = "stream" THEN "running" ELSE "done",
                        !.fatal = (error = "mismatch" /\ ~Drained(i))]
  IN /\ Runs(p, i) /\ w.queue # <<>>
     /\ ConnectionIs(p, i, WriteErrors[error])
     /\ drv' = [(IF last THEN Answer(drv, {entry.tx}, "TxFailed") ELSE drv)
                  EXCEPT !.worker[p][i] = next]
     /\ UNCHANGED workerFrame

WorkerRecv(p, i) ==
  LET w == drv.worker[p][i]
  IN /\ Idle(p, i) /\ w.rx # <<>>
     /\ WorkerBecomes(p, i, [w EXCEPT !.rx = Tail(@), !.queue = <<FirstAttempt(Head(w.rx))>>])
     /\ UNCHANGED workerFrame

\* The sender is gone and the channel empty; or the worker was idle for
\* MAX_IDLE_DURATION, whatever has just arrived.
WorkerReturns(p, i) ==
  /\ Idle(p, i)
  /\ WorkerBecomes(p, i, [drv.worker[p][i] EXCEPT !.st = "done"])
  /\ UNCHANGED workerFrame

WorkerSeesClose(p, i, error) ==
  /\ Idle(p, i)
  /\ ConnectionIs(p, i, error)
  /\ WorkerBecomes(p, i, [drv.worker[p][i] EXCEPT !.st = "done",
                                                  !.fatal = (error = "mismatch" /\ ~Drained(i))])
  /\ UNCHANGED workerFrame

WorkerCanceled(p, i) ==
  /\ Idle(p, i)
  /\ drv.worker[p][i].cancel
  /\ WorkerBecomes(p, i, [drv.worker[p][i] EXCEPT !.st = "done", !.cancel = FALSE])
  /\ UNCHANGED workerFrame

\* What a task that panics held is gone with it.
WorkerPanics(p, i) ==
  /\ WorkersMayPanic
  /\ Runs(p, i)
  /\ FaultHappens
  /\ WorkerBecomes(p, i, [NoWorker EXCEPT !.st = "panicked"])
  /\ UNCHANGED <<stage, tpu_addr, ghosts, cmdVars, submitted>>

\* The tasklet joins a worker and answers for all it still held.
DrainJoin(p, i) ==
  LET w == drv.worker[p][i]
      held == TxsOf(drv.left[p][i]) \cup ToSet(w.rx) \cup TxsOf(w.queue)
  IN /\ Drained(i)
     /\ w.st \in {"done", "panicked"}
     /\ drv' = [Answer(drv, held, "DriverIdentityChanged")
                  EXCEPT !.worker[p][i] = NoWorker, !.left[p][i] = <<>>]
     /\ UNCHANGED workerFrame

-----------------------------------------------------------------------------
(***************************************************************************)
(* Network, clock and address service                                      *)
(***************************************************************************)

ConnectionDies(a, error) ==
  /\ stage # "stopped"
  /\ drv.conns[a].st = "open"
  /\ drv' = [drv EXCEPT !.conns[a].st = error]
  /\ UNCHANGED <<stage, envVars, cmdVars, submitted>>

GracePeriodElapses(p) ==
  /\ stage # "stopped"
  /\ p \in drv.recent
  /\ drv' = [drv EXCEPT !.recent = @ \ {p}]
  /\ UNCHANGED <<stage, envVars, cmdVars, submitted>>

PeerMoves(p, a) ==
  /\ stage # "stopped"
  /\ FaultHappens
  /\ a # tpu_addr[p]
  /\ tpu_addr' = [tpu_addr EXCEPT ![p] = a]
  /\ UNCHANGED <<stage, drv, ghosts, cmdVars, submitted>>

\* The loop has returned and all workers are joined.
Ended ==
  /\ stage = "stopped"
  /\ \A p \in Peers, i \in Identities : drv.worker[p][i].st = "none"
  /\ UNCHANGED vars

ConnectingEnds(a) ==
  \E outcome \in {"ok", "connection_error", "other_error"} : HandleConnectingResult(a, outcome)

WorkerJoined(p) == HandleWorkerResult(p) \/ HandleWorkerPanicked(p)

OrphanTimer == \E k \in 1..Len(drv.orphans) : TryEvictOrphanConnections(k)

\* open_uni and write_all of send_tx return; no timeout bounds them.
SendEnds(p, i) ==
  \/ SendOk(p, i)
  \/ \E error \in DOMAIN WriteErrors : SendFailed(p, i, error)

WorkerStep(p, i) ==
  \/ WorkerRecv(p, i)
  \/ WorkerReturns(p, i)
  \/ WorkerCanceled(p, i)

Next ==
  \/ DoEviction
  \/ \E upcoming \in SetToAllKPermutations(Predictable) \ {<<>>} :
       TryPredictUpcomingLeaders(upcoming)
  \/ PredictionTimer
  \/ \E t \in Txs : AcceptTx(t)
  \/ \E a \in Addrs : ConnectingEnds(a)
  \/ \E p \in Peers : WorkerJoined(p)
  \/ OrphanTimer
  \/ \E changed \in SUBSET Moved \ {{}} : HandleRemotePeerAddrChange(changed)
  \/ RequestUpdate \/ RequestBarrierUpdate
  \/ UpdateIdentity \/ UpdateIdentityToBarrier \/ BarrierReleased
  \/ InletClosed
  \/ \E p \in Peers, i \in Identities :
       \/ SendEnds(p, i) \/ WorkerStep(p, i)
       \/ \E error \in {"lost", "mismatch"} : WorkerSeesClose(p, i, error)
       \/ WorkerPanics(p, i)
       \/ DrainJoin(p, i)
  \/ \E a \in Addrs, error \in {"lost", "mismatch"} : ConnectionDies(a, error)
  \/ \E p \in Peers : GracePeriodElapses(p)
  \/ \E p \in Peers, a \in Addrs \cup {NoAddr} : PeerMoves(p, a)
  \/ Ended

Spec == Init /\ [][Next]_vars

(***************************************************************************)
(* Fairness, weak throughout.  tokio runs what can run: the top of the     *)
(* loop, the workers, the branches of select! that are ready.              *)
(* connecting_timeout bounds an attempt, MAX_IDLE_DURATION an idle worker, *)
(* the ttl timer an orphan.  Nothing is assumed of the network, of the     *)
(* submitters, of the watcher or of the other participants of a barrier:   *)
(* no timeout bounds a send, so that it may never end (SendEnds).          *)
(***************************************************************************)
Fairness ==
  /\ WF_vars(DoEviction)
  /\ \A a \in Addrs : WF_vars(ConnectingEnds(a))
  /\ \A p \in Peers : WF_vars(WorkerJoined(p))
  /\ WF_vars(OrphanTimer)
  /\ \A p \in Peers, i \in Identities : WF_vars(WorkerStep(p, i))

FairSpec == Spec /\ Fairness

-----------------------------------------------------------------------------
(***************************************************************************)
(* Properties                                                              *)
(***************************************************************************)

\* A worker uses the connection that is in the map at its address, under the
\* same version, and the connection knows of it.  The code compares versions
\* "to `assert!` that we didn't create any orphan worker or orphan connection":
\* the branches of a mismatch are never taken.
NoOrphanWorker ==
  \A p \in Peers : HasWorker(drv, p) =>
    OnCurrentConnection(drv, p) /\ p \in drv.conns[drv.handle[p].addr].peers

\* The worker of p uses the connection at a.
Uses(p, a) == drv.handle[p] = [addr |-> a, version |-> drv.conns[a].version]

\* p stands in the table of the connection at a only because its worker panicked:
\* the join-error branch of handle_worker_result does not take it out.  Nothing
\* will, except an identity update, or a new worker of p on that connection.
IsGhost(p, a) ==
  p \in drv.conns[a].peers /\ <<a, drv.conns[a].version, p>> \in ghosts

\* The table of a connection names its workers, and ghosts.
TableIsExact ==
  \A a \in Addrs : \A p \in drv.conns[a].peers : Uses(p, a) \/ IsGhost(p, a)

\* A connection in the map that no worker uses will be closed by the orphan
\* timer (and until then counts against max_concurrent_connection), unless a
\* ghost keeps it.
UnusedIsOrphaned ==
  \A a \in Connected(drv) :
    \/ \E p \in Peers : Uses(p, a) \/ IsGhost(p, a)
    \/ <<a, drv.conns[a].version>> \in ToSet(drv.orphans)

\* A pending eviction is of a connection that exists and that a worker uses,
\* whose end will close it, unless a ghost is in the way.  A stale one would
\* hold back the eviction a blocked attempt waits for, and lock its address.
PendingIsInUse ==
  \A e \in drv.pending :
    /\ drv.conns[e[1]].version = e[2]
    /\ \E p \in Peers : Uses(p, e[1]) \/ IsGhost(p, e[1])

\* The driver's tables agree, through shared connections, evictions, moved
\* peers, expiring orphans and identity updates: no worker without its
\* connection, no connection that nobody will close, no eviction nobody ends;
\* but for the connections on which a worker has panicked, which are named.
ConnectionsAccounted ==
  TypeOK /\ NoOrphanWorker /\ TableIsExact /\ UnusedIsOrphaned /\ PendingIsInUse

\* An address is not dialled while it has a connection (the result would
\* replace the connection under its workers), nor a peer while it has a worker.
DialOrConnection ==
  /\ \A a \in Addrs : drv.connecting[a].st # "none" => a \notin Connected(drv)
  /\ \A p \in ConnectingPeers(drv) : ~HasWorker(drv, p)

\* No lost wake-up: the blocked attempts are those in the list, each once,
\* also after evictions, expired orphans and identity updates.
WaiterIsListed ==
  /\ IsInjective(drv.blocked)
  /\ ToSet(drv.blocked) = {a \in Addrs : drv.connecting[a].st = "waiting"}

\* A worker that panicked left its peer in the table of another connection.
LeftBehind(s, p) == \E a \in Addrs : p \in s.conns[a].peers /\ s.handle[p].addr # a

\* Every worker of a peer under eviction has been told to stop, the ones that
\* merely share the connection included: the eviction makes progress.  (A peer
\* that a panic left behind may be evicted there while it is being dialled.)
EvictionIsSignalled ==
  \A p \in drv.evicting : HasWorker(drv, p) /\ ~LeftBehind(drv, p) =>
    drv.worker[p][drv.identity].cancel \/ drv.worker[p][drv.identity].st # "running"

\* No attempt collides with a connection, and none that waits for a slot is
\* forgotten: neither the waiter nor the signal of the eviction it waits for.
AttemptsAccounted == DialOrConnection /\ WaiterIsListed /\ EvictionIsSignalled

\* The permit of update_identity_with_confirmation_barrier is held exactly while
\* its command is queued or waited for, whatever became of its caller; and no
\* command of either kind is queued behind it, so that the loop finds none when it
\* pauses at the barrier.  (Plain updates whose callers left may precede it.)
OneBarrierInFlight ==
  /\ in_flight <=> stage = "barrier" \/ \E k \in DOMAIN cnc : cnc[k] = "barrier"
  /\ stage = "barrier" => cnc = <<>>
  /\ \A k \in DOMAIN cnc : cnc[k] = "barrier" => k = Len(cnc)

\* Where transaction t is held: by the loop and the workers it knows, and by
\* the workers and queues of a tasklet.
Positions(queue, t) == {n \in DOMAIN queue : queue[n].tx = t}

WorkerPlaces(t, p, i) ==
  {<<"rx", p, i, n>> : n \in {m \in DOMAIN drv.worker[p][i].rx : drv.worker[p][i].rx[m] = t}}
  \cup {<<"own", p, i, n>> : n \in Positions(drv.worker[p][i].queue, t)}

Kept(t) ==
  UNION {{<<"queue", p, n>> : n \in Positions(drv.tx_queues[p], t)} : p \in Peers}
  \cup UNION {WorkerPlaces(t, p, i) : p \in Peers, i \in {j \in Identities : ~Drained(j)}}

InDrain(t) ==
  UNION {{<<"left", p, i, n>> : n \in Positions(drv.left[p][i], t)} \cup WorkerPlaces(t, p, i)
         : p \in Peers, i \in {j \in Identities : Drained(j)}}

\* The refinement mapping: what the submitter knows of t.
Status(t) ==
  LET kept == Cardinality(Kept(t))
      drained == Cardinality(InDrain(t))
      answers == Len(drv.response[t])
  IN IF t \notin submitted THEN "new"
     ELSE CASE kept + drained + answers = 0 -> "discarded"
            [] kept + drained + answers > 1 -> "duplicated"
            [] kept = 1 -> "held"
            [] drained = 1 -> "abandoned"
            [] OTHER -> "answered"

Delivery ==
  INSTANCE TxDelivery WITH
    Txs <- Txs,
    status <- [t \in Txs |-> Status(t)],
    epoch <- <<drv.identity, stage = "stopped", faults>>

\* The driver implements TxDelivery: multiplexed workers, rescues, evictions,
\* shared connections that break and full queues neither duplicate nor lose a
\* transaction, nor answer for it twice; it is given up only when the identity it
\* was queued under is, when the input closes or when a worker panics with it.
ImplementsDelivery == Delivery!Spec

\* A worker is inside send_tx.
Sending(p, i) == Runs(p, i) /\ drv.worker[p][i].queue # <<>>

Stalled == \E p \in Peers, i \in Identities : Sending(p, i)

\* Connections do not leak: once nothing is submitted any more each is closed,
\* through the idle timeout of its workers and the orphan timer, or an eviction,
\* unless a send never ends.
UnusedConnectionsClose ==
  Connected(drv) # {} ~> Connected(drv) = {} \/ []Stalled

=============================================================================
