------------------------- MODULE QuicGatewayProofs -------------------------
(***************************************************************************)
(* Proofs about QuicGateway, for any number of peers, transactions,        *)
(* attempts and identity updates, and any channel capacity.                *)
(***************************************************************************)
EXTENDS QuicGateway, SequenceTheorems, TLAPS

USE ConstantsAssumption

(***************************************************************************)
(* Type correctness                                                        *)
(***************************************************************************)

\* The constant records have their types.
LEMMA RecordTypes ==
  /\ NoConnecting \in Connecting
  /\ NoWorker \in Worker
  /\ \A t \in Txs : FirstAttempt(t) \in Entry
BY DEF NoConnecting, Connecting, NoWorker, Worker, FirstAttempt, Entry, Identities

\* Answering transactions keeps the type of `response`.
LEMMA AnswerType ==
  ASSUME TypeOK, NEW S, NEW o \in Outcomes
  PROVE  Answer(S, o) \in [Txs -> Seq(Outcomes)]
BY DEF TypeOK, Answer

LEMMA DropType ==
  ASSUME TypeOK, NEW p \in Peers, NEW queue, NEW reason \in Outcomes,
         DropPeerQueuedTx(p, queue, reason)
  PROVE  /\ tx_queues' \in [Peers -> Seq(Entry)]
         /\ response' \in [Txs -> Seq(Outcomes)]
<1>1. response' \in [Txs -> Seq(Outcomes)]
  BY AnswerType DEF DropPeerQueuedTx
<1>2. tx_queues' \in [Peers -> Seq(Entry)]
  BY DEF DropPeerQueuedTx, TypeOK
<1>3. QED BY <1>1, <1>2

LEMMA KeepType ==
  ASSUME TypeOK, NEW p \in Peers, NEW queue \in Seq(Entry), KeepQueue(p, queue)
  PROVE  /\ tx_queues' \in [Peers -> Seq(Entry)]
         /\ response' \in [Txs -> Seq(Outcomes)]
BY DEF KeepQueue, TypeOK

\* spawn_connecting keeps the types of all it assigns.
LEMMA SpawnType ==
  ASSUME TypeOK, NEW p \in Peers, NEW attempt \in 0..MaxConnectionAttempts,
         NEW queue \in Seq(Entry), NEW list \in Seq(Waiting),
         NEW handles, NEW evicting, NEW conns \in [Peers -> Connecting],
         SpawnConnecting(p, attempt, queue, list, handles, evicting, conns)
  PROVE  /\ tx_queues' \in [Peers -> Seq(Entry)]
         /\ response' \in [Txs -> Seq(Outcomes)]
         /\ connecting' \in [Peers -> Connecting]
         /\ connecting_blocked_by_eviction_list' \in Seq(Waiting)
<1> DEFINE free == conns[p].st = "none"
           spawns == free /\ p \notin evicting /\ p \notin handles
           blocked == spawns /\ ~HasConnectionCapacity(handles)
<1>1. /\ tx_queues' \in [Peers -> Seq(Entry)]
      /\ response' \in [Txs -> Seq(Outcomes)]
  <2>1. CASE free /\ p \in evicting
    <3>1. DropPeerQueuedTx(p, queue, "RemotePeerBeingEvicted")
      BY <2>1 DEF SpawnConnecting, MaySpawn
    <3>2. QED BY <3>1, DropType DEF Outcomes
  <2>2. CASE ~(free /\ p \in evicting)
    <3>1. KeepQueue(p, queue)
      BY <2>2 DEF SpawnConnecting, MaySpawn
    <3>2. QED BY <3>1, KeepType
  <2>3. QED BY <2>1, <2>2
<1>2. connecting' \in [Peers -> Connecting]
  <2>1. [st |-> IF blocked THEN "waiting" ELSE "dialing",
         attempt |-> attempt, identity |-> identity] \in Connecting
    BY DEF TypeOK, Connecting
  <2>2. QED BY <2>1 DEF SpawnConnecting, MaySpawn
<1>3. connecting_blocked_by_eviction_list' \in Seq(Waiting)
  <2>1. [peer |-> p, identity |-> identity] \in Waiting
    BY DEF TypeOK, Waiting
  <2>2. QED BY <2>1 DEF SpawnConnecting, MaySpawn
<1>4. QED BY <1>1, <1>2, <1>3

\* What handle_worker_result puts back in the queue is made of entries.
LEMMA RescuedType ==
  ASSUME NEW w \in Worker
  PROVE  Rescued(w) \in Seq(Entry)
<1> DEFINE first == [i \in 1..Len(w.rx) |-> FirstAttempt(w.rx[i])]
<1>1. w.rx \in Seq(Txs) /\ w.queue \in Seq(Entry)
  BY DEF Worker
<1>2. \A i \in 1..Len(w.rx) : FirstAttempt(w.rx[i]) \in Entry
  BY <1>1, RecordTypes
<1>3. Len(w.rx) \in Nat
  BY <1>1
<1>4. first \in Seq(Entry)
  BY <1>2, <1>3, IsASeq
<1>5. QED BY <1>1, <1>4 DEF Rescued

\* Popping waiters leaves a list of waiters, and notifying a task leaves a task.
LEMMA UnblockType ==
  ASSUME TypeOK, NEW k \in 0..Len(connecting_blocked_by_eviction_list)
  PROVE  /\ AfterUnblocking(k) \in Seq(Waiting)
         /\ Notified(k) \in [Peers -> Connecting]
<1>1. AfterUnblocking(k) \in Seq(Waiting)
  BY SubSeqProperties DEF TypeOK, AfterUnblocking
<1>2. ASSUME NEW p \in Peers
      PROVE  [connecting[p] EXCEPT !.st = "dialing"] \in Connecting
  <2>1. connecting[p] \in Connecting
    BY DEF TypeOK
  <2>2. QED BY <2>1 DEF Connecting
<1>3. Notified(k) \in [Peers -> Connecting]
  BY <1>2 DEF TypeOK, Notified
<1>4. QED BY <1>1, <1>3

\* Replacing one worker by a worker keeps the type of `worker`.
LEMMA WorkerUpdateType ==
  ASSUME TypeOK, NEW p \in Peers, NEW i \in Identities, NEW w \in Worker
  PROVE  [worker EXCEPT ![p][i] = w] \in [Peers -> [Identities -> Worker]]
BY DEF TypeOK

\* Setting the cancel permit of the workers of a set of peers does too.
LEMMA CancelType ==
  ASSUME TypeOK, NEW S
  PROVE  Cancelled(S) \in [Peers -> [Identities -> Worker]]
<1>1. ASSUME NEW p \in Peers
      PROVE  [worker[p][identity] EXCEPT !.cancel = TRUE] \in Worker
  <2>1. worker[p][identity] \in Worker
    BY DEF TypeOK
  <2>2. QED BY <2>1 DEF Worker
<1>2. \A p \in Peers :
        [worker[p] EXCEPT ![identity].cancel = TRUE] \in [Identities -> Worker]
  BY <1>1 DEF TypeOK
<1>3. QED BY <1>2 DEF TypeOK, Cancelled

LEMMA JoinedType ==
  ASSUME TypeOK, NEW p \in Peers
  PROVE  Joined(p) \in [Peers -> Connecting]
BY RecordTypes DEF TypeOK, Joined

\* One more attempt for an entry that has some left.
LEMMA NextAttemptType ==
  ASSUME NEW entry \in Entry, ~GivesUp(entry)
  PROVE  [entry EXCEPT !.attempt = entry.attempt + 1] \in Entry
<1>1. entry.attempt + 1 \in 1..MaxSendAttempt
  BY DEF Entry, GivesUp
<1>2. QED BY <1>1 DEF Entry

\* The worker's own steps keep the type invariant.
LEMMA WorkerStepType ==
  ASSUME TypeOK, NEW p \in Peers, NEW i \in Identities,
         SendEnds(p, i) \/ WorkerStep(p, i)
  PROVE  TypeOK'
<1> DEFINE w == worker[p][i]
<1>0. /\ w \in Worker
      /\ w.rx \in Seq(Txs)
      /\ w.queue \in Seq(Entry)
  BY DEF TypeOK, Worker
<1>1. CASE SendOk(p, i)
  <2>1. Tail(w.queue) \in Seq(Entry) /\ w.queue # <<>>
    BY <1>0, <1>1 DEF SendOk
  <2>2. [w EXCEPT !.queue = Tail(w.queue)] \in Worker
    BY <1>0, <2>1 DEF Worker
  <2>3. worker' = [worker EXCEPT ![p][i] = [w EXCEPT !.queue = Tail(w.queue)]]
    BY <1>1 DEF SendOk, TypeOK
  <2>4. worker' \in [Peers -> [Identities -> Worker]]
    BY <2>2, <2>3, WorkerUpdateType
  <2>5. response' \in [Txs -> Seq(Outcomes)]
    BY <1>1, AnswerType DEF SendOk, Outcomes
  <2>6. QED BY <1>1, <2>4, <2>5 DEF SendOk, workerFrame, evictionVars, TypeOK
<1>2. ASSUME NEW error \in {"stream", "connection_lost", "version_mismatch"},
             SendFailed(p, i, error)
      PROVE  TypeOK'
  <2> DEFINE entry == Head(w.queue)
             gives_up == GivesUp(entry)
             queue == IF gives_up THEN Tail(w.queue)
                      ELSE Append(Tail(w.queue), [entry EXCEPT !.attempt = @ + 1])
             st == IF error = "stream" THEN w.st ELSE "done"
             fatal == (error = "version_mismatch")
             new == [w EXCEPT !.queue = queue, !.st = st, !.fatal = fatal]
  <2>1. entry \in Entry /\ Tail(w.queue) \in Seq(Entry)
    BY <1>0, <1>2 DEF SendFailed
  <2>2. ~gives_up => [entry EXCEPT !.attempt = @ + 1] \in Entry
    BY <2>1, NextAttemptType
  <2>3. queue \in Seq(Entry)
    BY <2>1, <2>2
  <2>4. new \in Worker
    <3>1. st \in {"none", "running", "done"} /\ fatal \in BOOLEAN
      BY <1>0 DEF Worker
    <3> HIDE DEF queue, st, fatal
    <3>2. QED BY <1>0, <2>3, <3>1 DEF Worker
  <2>5. worker' = [worker EXCEPT ![p][i] = new]
    BY <1>2 DEF SendFailed
  <2>6. worker' \in [Peers -> [Identities -> Worker]]
    BY <2>4, <2>5, WorkerUpdateType
  <2>7. response' \in [Txs -> Seq(Outcomes)]
    <3>1. Answer({entry.tx}, "TxFailed") \in [Txs -> Seq(Outcomes)]
      BY AnswerType DEF Outcomes
    <3>2. QED BY <3>1, <1>2 DEF SendFailed, TypeOK
  <2>8. QED BY <1>2, <2>6, <2>7 DEF SendFailed, workerFrame, evictionVars, TypeOK
<1>3. CASE WorkerRecv(p, i)
  <2> DEFINE new == [w EXCEPT !.rx = Tail(@), !.queue = <<FirstAttempt(Head(w.rx))>>]
  <2>1. Head(w.rx) \in Txs /\ Tail(w.rx) \in Seq(Txs)
    BY <1>0, <1>3 DEF WorkerRecv
  <2>2. <<FirstAttempt(Head(w.rx))>> \in Seq(Entry)
    BY <2>1, RecordTypes
  <2>3. new \in Worker
    BY <1>0, <2>1, <2>2 DEF Worker
  <2>4. worker' = [worker EXCEPT ![p][i] = new]
    BY <1>3 DEF WorkerRecv
  <2>5. worker' \in [Peers -> [Identities -> Worker]]
    BY <2>3, <2>4, WorkerUpdateType
  <2>6. QED BY <1>3, <2>5 DEF WorkerRecv, workerFrame, evictionVars, TypeOK
<1>4. CASE WorkerInletClosed(p, i)
  <2>1. [w EXCEPT !.st = "done"] \in Worker
    BY <1>0 DEF Worker
  <2>2. worker' = [worker EXCEPT ![p][i] = [w EXCEPT !.st = "done"]]
    BY <1>4 DEF WorkerInletClosed, TypeOK
  <2>3. worker' \in [Peers -> [Identities -> Worker]]
    BY <2>1, <2>2, WorkerUpdateType
  <2>4. QED BY <1>4, <2>3 DEF WorkerInletClosed, workerFrame, evictionVars, TypeOK
<1>5. CASE WorkerCanceled(p, i)
  <2>1. [w EXCEPT !.st = "done", !.cancel = FALSE] \in Worker
    BY <1>0 DEF Worker
  <2>2. worker' \in [Peers -> [Identities -> Worker]]
    BY <1>5, <2>1, WorkerUpdateType DEF WorkerCanceled
  <2>3. QED BY <1>5, <2>2 DEF WorkerCanceled, workerFrame, evictionVars, TypeOK
<1>6. QED BY <1>1, <1>2, <1>3, <1>4, <1>5 DEF SendEnds, WorkerStep

LEMMA HandleWorkerResultType ==
  ASSUME TypeOK, NEW p \in Peers, HandleWorkerResult(p)
  PROVE  TypeOK'
<1> DEFINE w == worker[p][identity]
           queue == tx_queues[p] \o Rescued(w)
           evicted == p \in being_evicted_peers
           reconnects == ~w.fatal /\ ~evicted /\ queue # <<>>
<1>1. PICK k \in 0..Len(connecting_blocked_by_eviction_list) :
        IF reconnects
          THEN SpawnConnecting(p, 1, queue, AfterUnblocking(k),
                               tx_worker_handle_map', being_evicted_peers', Notified(k))
          ELSE /\ DropPeerQueuedTx(p, queue,
                    IF w.fatal THEN "RemotePeerUnreachable" ELSE "DropByGateway")
               /\ connecting' = Notified(k)
               /\ connecting_blocked_by_eviction_list' = AfterUnblocking(k)
  BY DEF HandleWorkerResult
<1>2. queue \in Seq(Entry)
  <2>1. w \in Worker /\ tx_queues[p] \in Seq(Entry)
    BY DEF TypeOK
  <2>2. QED BY <2>1, RescuedType
<1>3. /\ tx_queues' \in [Peers -> Seq(Entry)]
      /\ response' \in [Txs -> Seq(Outcomes)]
      /\ connecting' \in [Peers -> Connecting]
      /\ connecting_blocked_by_eviction_list' \in Seq(Waiting)
  <2> HIDE DEF queue
  <2>1. CASE reconnects
    <3>1. 1 \in 0..MaxConnectionAttempts
      OBVIOUS
    <3>2. QED BY <1>1, <1>2, <2>1, <3>1, UnblockType, SpawnType
  <2>2. CASE ~reconnects
    <3>1. (IF w.fatal THEN "RemotePeerUnreachable" ELSE "DropByGateway") \in Outcomes
      BY DEF Outcomes
    <3>2. QED BY <1>1, <2>2, <3>1, UnblockType, DropType
  <2>3. QED BY <2>1, <2>2
<1>4. worker' \in [Peers -> [Identities -> Worker]]
  BY RecordTypes, WorkerUpdateType DEF HandleWorkerResult, TypeOK
<1>5. QED BY <1>3, <1>4 DEF HandleWorkerResult, TypeOK, Stages

\* handle_connecting_result keeps the type invariant.
LEMMA HandleConnectingResultType ==
  ASSUME TypeOK, NEW p \in Peers, HandleConnectingResult(p)
  PROVE  TypeOK'
<1>0. connecting[p] \in Connecting /\ tx_queues[p] \in Seq(Entry)
  BY DEF TypeOK
<1>1. CASE InstallWorker(p)
  <2>1. FreshWorker(tx_queues[p]) \in Worker
    BY <1>0 DEF FreshWorker, Worker
  <2>2. worker' \in [Peers -> [Identities -> Worker]]
    BY <1>1, <2>1, WorkerUpdateType DEF InstallWorker, TypeOK
  <2>3. QED BY <1>1, <2>2, JoinedType DEF InstallWorker, TypeOK, Stages
<1>2. ASSUME NEW outcome \in ConnectErrors, ConnectFailed(p, outcome)
      PROVE  TypeOK'
  <2> DEFINE retries == outcome = "connection_error"
                          /\ connecting[p].attempt < MaxConnectionAttempts
             attempt == IF AbandonsAttempt(p) THEN connecting[p].attempt
                                              ELSE connecting[p].attempt + 1
  <2>1. /\ tx_queues' \in [Peers -> Seq(Entry)]
        /\ response' \in [Txs -> Seq(Outcomes)]
        /\ connecting' \in [Peers -> Connecting]
        /\ connecting_blocked_by_eviction_list' \in Seq(Waiting)
    <3>1. CASE AbandonsAttempt(p) \/ retries
      <4>1. attempt \in 0..MaxConnectionAttempts
        BY <1>0, <3>1 DEF Connecting
      <4>2. SpawnConnecting(p, attempt, tx_queues[p], connecting_blocked_by_eviction_list,
                            tx_worker_handle_map, being_evicted_peers, Joined(p))
        BY <1>2, <3>1 DEF ConnectFailed
      <4>3. connecting_blocked_by_eviction_list \in Seq(Waiting)
        BY DEF TypeOK
      <4>4. QED BY <1>0, <4>1, <4>2, <4>3, JoinedType, SpawnType
    <3>2. CASE ~(AbandonsAttempt(p) \/ retries)
      <4>1. DropPeerQueuedTx(p, tx_queues[p], "RemotePeerUnreachable")
        BY <1>2, <3>2 DEF ConnectFailed
      <4>2. connecting' = Joined(p) /\ UNCHANGED connecting_blocked_by_eviction_list
        BY <1>2, <3>2 DEF ConnectFailed
      <4>3. "RemotePeerUnreachable" \in Outcomes
        BY DEF Outcomes
      <4>4. QED BY <4>1, <4>2, <4>3, DropType, JoinedType DEF TypeOK
    <3>3. QED BY <3>1, <3>2
  <2>2. QED BY <1>2, <2>1 DEF ConnectFailed, evictionVars, TypeOK, Stages
<1>3. CASE ConnectTaskPanicked(p)
  BY <1>3, JoinedType DEF ConnectTaskPanicked, evictionVars, TypeOK, Stages
<1>4. QED BY <1>1, <1>2, <1>3 DEF HandleConnectingResult

LEMMA InitType == Init => TypeOK
<1> SUFFICES ASSUME Init PROVE TypeOK
  OBVIOUS
<1>1. [i \in Identities |-> NoWorker] \in [Identities -> Worker]
  BY RecordTypes
<1>2. worker \in [Peers -> [Identities -> Worker]]
  BY <1>1 DEF Init
<1>3. connecting \in [Peers -> Connecting]
  BY RecordTypes DEF Init
<1>4. /\ tx_queues \in [Peers -> Seq(Entry)]
      /\ response \in [Txs -> Seq(Outcomes)]
  BY DEF Init
<1>5. /\ respawn \in [Peers -> 0..MaxConnectionAttempts]
      /\ last_peer_activity \in [Peers -> {"none", "recent", "idle"}]
      /\ identity \in Identities
  BY DEF Init, Identities
<1>6. connecting_blocked_by_eviction_list \in Seq(Waiting)
  BY DEF Init
<1>7. /\ stage \in Stages
      /\ tx_worker_handle_map \in SUBSET Peers
      /\ active_staked_sorted_remote_peer \in SUBSET Peers
      /\ being_evicted_peers \in SUBSET Peers
      /\ submitted \in SUBSET Txs
  BY DEF Init, Stages
<1>8. QED BY <1>2, <1>3, <1>4, <1>5, <1>6, <1>7 DEF TypeOK

LEMMA NextType == TypeOK /\ [Next]_vars => TypeOK'
<1> SUFFICES ASSUME TypeOK, [Next]_vars PROVE TypeOK'
  OBVIOUS
<1>1. CASE LoopTop
  <2>1. CASE NoEvictionRequired \/ EvictionPanics \/ PredictionDone \/ RespawnDone
    BY <2>1 DEF NoEvictionRequired, EvictionPanics, PredictionDone, RespawnDone,
                evictionVars, TypeOK, Stages
  <2>2. CASE DoEviction
    <3>1. worker' \in [Peers -> [Identities -> Worker]]
      BY <2>2, CancelType DEF DoEviction
    <3>2. being_evicted_peers' \in SUBSET Peers
      BY <2>2 DEF DoEviction, TypeOK
    <3>3. QED BY <2>2, <3>1, <3>2 DEF DoEviction, TypeOK, Stages
  <2>3. ASSUME NEW p \in Peers, Respawn(p) PROVE TypeOK'
    <3>1. /\ respawn[p] \in 0..MaxConnectionAttempts
          /\ tx_queues[p] \in Seq(Entry)
          /\ connecting_blocked_by_eviction_list \in Seq(Waiting)
          /\ connecting \in [Peers -> Connecting]
      BY DEF TypeOK
    <3>2. SpawnConnecting(p, respawn[p], tx_queues[p], connecting_blocked_by_eviction_list,
                          tx_worker_handle_map, being_evicted_peers, connecting)
      BY <2>3 DEF Respawn
    <3>3. /\ tx_queues' \in [Peers -> Seq(Entry)]
          /\ response' \in [Txs -> Seq(Outcomes)]
          /\ connecting' \in [Peers -> Connecting]
          /\ connecting_blocked_by_eviction_list' \in Seq(Waiting)
      BY <3>1, <3>2, SpawnType
    <3>4. respawn' \in [Peers -> 0..MaxConnectionAttempts]
      BY <2>3 DEF Respawn, TypeOK
    <3>5. QED BY <2>3, <3>3, <3>4 DEF Respawn, evictionVars, TypeOK
  <2>4. QED BY <1>1, <2>1, <2>2, <2>3 DEF LoopTop
<1>2. ASSUME NEW p \in Peers, PredictLeader(p) PROVE TypeOK'
  <2>1. /\ MaxConnectionAttempts \in 0..MaxConnectionAttempts
        /\ tx_queues[p] \in Seq(Entry)
        /\ connecting_blocked_by_eviction_list \in Seq(Waiting)
        /\ connecting \in [Peers -> Connecting]
    BY DEF TypeOK
  <2>2. SpawnConnecting(p, MaxConnectionAttempts, tx_queues[p],
                        connecting_blocked_by_eviction_list,
                        tx_worker_handle_map, being_evicted_peers, connecting)
    BY <1>2 DEF PredictLeader
  <2>3. /\ tx_queues' \in [Peers -> Seq(Entry)]
        /\ response' \in [Txs -> Seq(Outcomes)]
        /\ connecting' \in [Peers -> Connecting]
        /\ connecting_blocked_by_eviction_list' \in Seq(Waiting)
    BY <2>1, <2>2, SpawnType
  <2>4. QED BY <1>2, <2>3 DEF PredictLeader, evictionVars, TypeOK
<1>3. ASSUME NEW t \in Txs, AcceptTxToWorker(t) PROVE TypeOK'
  <2> DEFINE p == RemotePeer[t]
             w == worker[p][identity]
  <2>1. p \in Peers /\ w \in Worker /\ w.rx \in Seq(Txs)
    BY DEF TypeOK, Worker
  <2>2. [w EXCEPT !.rx = Append(w.rx, t)] \in Worker
    <3> HIDE DEF w
    <3>1. Append(w.rx, t) \in Seq(Txs)
      BY <2>1
    <3>2. QED BY <2>1, <3>1 DEF Worker
  <2>3. [worker EXCEPT ![p][identity].rx = Append(w.rx, t)]
          = [worker EXCEPT ![p][identity] = [w EXCEPT !.rx = Append(w.rx, t)]]
    BY <2>1 DEF TypeOK
  <2>4. worker' \in [Peers -> [Identities -> Worker]]
    <3>1. CASE Len(w.rx) < ChannelCapacity
      <4>1. worker' = [worker EXCEPT ![p][identity] = [w EXCEPT !.rx = Append(w.rx, t)]]
        BY <1>3, <2>3, <3>1 DEF AcceptTxToWorker
      <4>2. identity \in Identities
        BY DEF TypeOK
      <4>3. QED BY <2>1, <2>2, <4>1, <4>2, WorkerUpdateType
    <3>2. CASE ~(Len(w.rx) < ChannelCapacity)
      BY <1>3, <3>2 DEF AcceptTxToWorker, TypeOK
    <3>3. QED BY <3>1, <3>2
  <2>5. response' \in [Txs -> Seq(Outcomes)]
    BY <1>3, AnswerType DEF AcceptTxToWorker, TypeOK, Outcomes
  <2>6. QED BY <1>3, <2>1, <2>4, <2>5 DEF AcceptTxToWorker, evictionVars, TypeOK, Stages
<1>4. ASSUME NEW t \in Txs, AcceptTxToQueue(t) PROVE TypeOK'
  <2> DEFINE p == RemotePeer[t]
             queue == Append(tx_queues[p], FirstAttempt(t))
  <2>1. /\ p \in Peers
        /\ queue \in Seq(Entry)
        /\ 1 \in 0..MaxConnectionAttempts
        /\ connecting_blocked_by_eviction_list \in Seq(Waiting)
        /\ connecting \in [Peers -> Connecting]
    BY RecordTypes DEF TypeOK
  <2>2. SpawnConnecting(p, 1, queue, connecting_blocked_by_eviction_list,
                        tx_worker_handle_map, being_evicted_peers, connecting)
    BY <1>4 DEF AcceptTxToQueue
  <2>3. /\ tx_queues' \in [Peers -> Seq(Entry)]
        /\ response' \in [Txs -> Seq(Outcomes)]
        /\ connecting' \in [Peers -> Connecting]
        /\ connecting_blocked_by_eviction_list' \in Seq(Waiting)
    BY <2>1, <2>2, SpawnType
  <2>4. QED BY <1>4, <2>1, <2>3 DEF AcceptTxToQueue, evictionVars, TypeOK, Stages
<1>5. ASSUME NEW p \in Peers, HandleConnectingResult(p) PROVE TypeOK'
  BY <1>5, HandleConnectingResultType
<1>6. ASSUME NEW p \in Peers, HandleWorkerResult(p) PROVE TypeOK'
  BY <1>6, HandleWorkerResultType
<1>7. ASSUME NEW next \in {"respawn", "barrier"}, UpdateIdentity(next) PROVE TypeOK'
  <2>1. connecting' \in [Peers -> Connecting]
    BY <1>7, RecordTypes DEF UpdateIdentity, AbortedConnecting
  <2>2. respawn' \in [Peers -> 0..MaxConnectionAttempts]
    BY <1>7 DEF UpdateIdentity, Remembered, TypeOK, Connecting
  <2>3. identity' \in Identities
    BY <1>7 DEF UpdateIdentity, AbortedConnecting, TypeOK, Identities
  <2>4. QED BY <1>7, <2>1, <2>2, <2>3 DEF UpdateIdentity, AbortedConnecting, evictionVars, TypeOK, Stages
<1>8. CASE BarrierReleased \/ HandleTaskletResult \/ InletClosed
  BY <1>8 DEF BarrierReleased, HandleTaskletResult, InletClosed, evictionVars, TypeOK, Stages
<1>9. ASSUME NEW changed \in SUBSET tx_worker_handle_map,
             HandleRemotePeerAddrChange(changed)
      PROVE  TypeOK'
  <2>1. worker' \in [Peers -> [Identities -> Worker]]
    BY <1>9, CancelType DEF HandleRemotePeerAddrChange
  <2>2. QED BY <1>9, <2>1 DEF HandleRemotePeerAddrChange, evictionVars, TypeOK, Stages
<1>10. ASSUME NEW p \in Peers, NEW i \in Identities, SendEnds(p, i) \/ WorkerStep(p, i)
       PROVE  TypeOK'
  BY <1>10, WorkerStepType
<1>11. ASSUME NEW p \in Peers, NEW i \in Identities,
              NEW error \in {"connection_lost", "version_mismatch"},
              WorkerConnectionClosed(p, i, error)
       PROVE  TypeOK'
  <2> DEFINE w == worker[p][i]
             fatal == (error = "version_mismatch")
  <2>1. w \in Worker /\ fatal \in BOOLEAN
    BY DEF TypeOK
  <2>2. worker' = [worker EXCEPT ![p][i] = [w EXCEPT !.st = "done", !.fatal = fatal]]
    BY <1>11 DEF WorkerConnectionClosed
  <2>3. [w EXCEPT !.st = "done", !.fatal = fatal] \in Worker
    <3> HIDE DEF fatal, w
    <3>1. QED BY <2>1 DEF Worker
  <2>4. worker' \in [Peers -> [Identities -> Worker]]
    BY <2>2, <2>3, WorkerUpdateType
  <2>5. QED BY <1>11, <2>4 DEF WorkerConnectionClosed, workerFrame, evictionVars, TypeOK
<1>12. ASSUME NEW p \in Peers, NEW i \in Identities, DrainJoin(p, i) PROVE TypeOK'
  <2>1. worker' \in [Peers -> [Identities -> Worker]]
    BY <1>12, RecordTypes, WorkerUpdateType DEF DrainJoin
  <2>2. QED BY <1>12, <2>1 DEF DrainJoin, workerFrame, evictionVars, TypeOK
<1>13. ASSUME NEW p \in Peers, GracePeriodElapses(p) PROVE TypeOK'
  BY <1>13 DEF GracePeriodElapses, evictionVars, TypeOK
<1>14. CASE UNCHANGED vars
  BY <1>14 DEF vars, TypeOK
<1>15. CASE Ended
  BY <1>15, <1>14 DEF Ended
<1>16. QED
  BY <1>1, <1>2, <1>3, <1>4, <1>5, <1>6, <1>7, <1>8, <1>9, <1>10, <1>11, <1>12,
     <1>13, <1>14, <1>15 DEF Next

\* Every variable of the event loop and of its tasks keeps its type; among them
\* the attempt counters, which never exceed max_send_attempt and
\* max_connection_attempts.
THEOREM TypeCorrect == Spec => []TypeOK
BY InitType, NextType, PTL DEF Spec

(***************************************************************************)
(* Dialling and eviction                                                   *)
(*                                                                         *)
(* Dials says of a table of connection attempts what the four invariants   *)
(* about `connecting` say together; as an operator it can be used of the   *)
(* intermediate values that handle_worker_result passes to                 *)
(* spawn_connecting.                                                       *)
(***************************************************************************)
Dials(conns, list, handles, evicting) ==
  \A q \in Peers : conns[q].st # "none" =>
    /\ q \notin handles
    /\ q \notin evicting
    /\ conns[q].identity = identity
    /\ conns[q].st = "waiting" =>
         \E n \in DOMAIN list : list[n] = [peer |-> q, identity |-> identity]

DialsNow == Dials(connecting, connecting_blocked_by_eviction_list,
                  tx_worker_handle_map, being_evicted_peers)

LEMMA DialsIsInvariants ==
  ASSUME TypeOK
  PROVE  DialsNow <=> /\ DialOrWorker
                      /\ AttemptsUseCurrentIdentity
                      /\ WaiterIsListed
                      /\ EvictedNotDialled
<1>1. DialOrWorker <=>
        \A q \in Peers : connecting[q].st # "none" => q \notin tx_worker_handle_map
  BY DEF DialOrWorker, IsConnecting
<1>2. AttemptsUseCurrentIdentity <=>
        \A q \in Peers : connecting[q].st # "none" => connecting[q].identity = identity
  BY DEF AttemptsUseCurrentIdentity, IsConnecting, AbandonsAttempt
<1>3. EvictedNotDialled <=>
        \A q \in Peers : connecting[q].st # "none" => q \notin being_evicted_peers
  BY DEF EvictedNotDialled, IsConnecting, TypeOK
<1>4. ASSUME AttemptsUseCurrentIdentity
      PROVE  WaiterIsListed <=>
        \A q \in Peers : connecting[q].st = "waiting" =>
          \E n \in DOMAIN connecting_blocked_by_eviction_list :
            connecting_blocked_by_eviction_list[n] = [peer |-> q, identity |-> identity]
  BY <1>2, <1>4 DEF WaiterIsListed
<1>5. ASSUME DialsNow PROVE AttemptsUseCurrentIdentity
  BY <1>2, <1>5 DEF DialsNow, Dials
<1>6. QED BY <1>1, <1>2, <1>3, <1>4, <1>5 DEF DialsNow, Dials

\* An element keeps its place when another one is appended.
LEMMA AppendKeepsElement ==
  ASSUME NEW list \in Seq(Waiting), NEW e \in Waiting, NEW n \in DOMAIN list
  PROVE  n \in DOMAIN Append(list, e) /\ Append(list, e)[n] = list[n]
BY AppendProperties

\* spawn_connecting preserves what Dials says.
LEMMA SpawnDials ==
  ASSUME TypeOK, NEW p \in Peers, NEW attempt \in 0..MaxConnectionAttempts,
         NEW queue, NEW list \in Seq(Waiting), NEW handles, NEW evicting,
         NEW conns \in [Peers -> Connecting],
         Dials(conns, list, handles, evicting),
         SpawnConnecting(p, attempt, queue, list, handles, evicting, conns)
  PROVE  Dials(connecting', connecting_blocked_by_eviction_list', handles, evicting)
<1> DEFINE spawns == conns[p].st = "none" /\ p \notin evicting /\ p \notin handles
           blocked == spawns /\ ~HasConnectionCapacity(handles)
           e == [peer |-> p, identity |-> identity]
<1>0. e \in Waiting
  BY DEF TypeOK, Waiting
<1>1. CASE ~spawns
  BY <1>1 DEF SpawnConnecting, MaySpawn, Dials
<1>2. CASE spawns /\ ~blocked
  <2>1. /\ connecting' = [conns EXCEPT ![p] =
             [st |-> "dialing", attempt |-> attempt, identity |-> identity]]
        /\ connecting_blocked_by_eviction_list' = list
    BY <1>2 DEF SpawnConnecting, MaySpawn
  <2>2. QED BY <1>2, <2>1 DEF Dials
<1>3. CASE blocked
  <2>1. /\ connecting' = [conns EXCEPT ![p] =
             [st |-> "waiting", attempt |-> attempt, identity |-> identity]]
        /\ connecting_blocked_by_eviction_list' = Append(list, e)
    BY <1>3 DEF SpawnConnecting, MaySpawn
  <2>2. \E n \in DOMAIN Append(list, e) : Append(list, e)[n] = e
    <3>1. /\ Len(list) + 1 \in DOMAIN Append(list, e)
          /\ Append(list, e)[Len(list) + 1] = e
      BY <1>0, AppendProperties
    <3>2. QED BY <3>1
  <2>3. SUFFICES ASSUME NEW q \in Peers, connecting'[q].st # "none"
                 PROVE  /\ q \notin handles
                        /\ q \notin evicting
                        /\ connecting'[q].identity = identity
                        /\ connecting'[q].st = "waiting" =>
                             \E n \in DOMAIN Append(list, e) :
                               Append(list, e)[n] = [peer |-> q, identity |-> identity]
    BY <2>1 DEF Dials
  <2>4. CASE q = p
    BY <1>3, <2>1, <2>2, <2>4
  <2>5. CASE q # p
    <3>1. connecting'[q] = conns[q]
      BY <2>1, <2>5
    <3>2. /\ q \notin handles
          /\ q \notin evicting
          /\ conns[q].identity = identity
          /\ conns[q].st = "waiting" =>
               \E n \in DOMAIN list : list[n] = [peer |-> q, identity |-> identity]
      BY <2>3, <3>1 DEF Dials
    <3>3. ASSUME conns[q].st = "waiting"
          PROVE  \E n \in DOMAIN Append(list, e) :
                   Append(list, e)[n] = [peer |-> q, identity |-> identity]
      <4> DEFINE x == [peer |-> q, identity |-> identity]
      <4>1. \E n \in DOMAIN list : list[n] = x
        BY <3>2, <3>3
      <4>2. PICK n \in DOMAIN list : list[n] = x
        BY <4>1
      <4> HIDE DEF e, x
      <4>3. n \in DOMAIN Append(list, e) /\ Append(list, e)[n] = list[n]
        BY <1>0, AppendKeepsElement
      <4>4. QED BY <4>2, <4>3 DEF x
    <3>4. QED BY <3>1, <3>2, <3>3
  <2>6. QED BY <2>4, <2>5
<1>4. QED BY <1>1, <1>2, <1>3

\* Popping k elements moves element n to place n - k.
LEMMA SuffixElement ==
  ASSUME NEW S, NEW s \in Seq(S), NEW k \in 0..Len(s), NEW n \in 1..Len(s), n > k
  PROVE  /\ n - k \in DOMAIN SubSeq(s, k + 1, Len(s))
         /\ SubSeq(s, k + 1, Len(s))[n - k] = s[n]
<1> DEFINE L == Len(s)
           tail == SubSeq(s, k + 1, L)
<1>1. L \in Nat /\ \A i \in (k + 1)..L : s[i] \in S
  OBVIOUS
<1>2. k + 1 \in Int /\ L \in Int
  BY <1>1
<1> HIDE DEF L
<1>3. /\ tail \in Seq(S)
      /\ Len(tail) = IF k + 1 <= L THEN L - (k + 1) + 1 ELSE 0
      /\ \A i \in 1..(L - (k + 1) + 1) : tail[i] = s[k + 1 + i - 1]
  BY <1>1, <1>2, SubSeqProperties
<1>4. /\ n - k \in 1..(L - (k + 1) + 1)
      /\ k + 1 + (n - k) - 1 = n
      /\ k + 1 <= L
  BY <1>1 DEF L
<1>5. n - k \in DOMAIN tail
  BY <1>3, <1>4, LenProperties
<1>6. tail[n - k] = s[n]
  BY <1>3, <1>4
<1>7. QED BY <1>5, <1>6 DEF L

\* unblock_eviction_waiting_connection: whatever number of waiters it pops, an
\* attempt that is still waiting afterwards is still in the list.
LEMMA UnblockDials ==
  ASSUME TypeOK, DialsNow, NEW k \in 0..Len(connecting_blocked_by_eviction_list),
         NEW handles \in SUBSET tx_worker_handle_map,
         NEW evicting \in SUBSET being_evicted_peers
  PROVE  Dials(Notified(k), AfterUnblocking(k), handles, evicting)
<1> DEFINE list == connecting_blocked_by_eviction_list
<1> SUFFICES ASSUME NEW q \in Peers, Notified(k)[q].st # "none"
             PROVE  /\ q \notin handles
                    /\ q \notin evicting
                    /\ Notified(k)[q].identity = identity
                    /\ Notified(k)[q].st = "waiting" =>
                         \E n \in DOMAIN AfterUnblocking(k) :
                           AfterUnblocking(k)[n] = [peer |-> q, identity |-> identity]
  BY DEF Dials
<1>1. connecting[q] \in Connecting
  BY DEF TypeOK
<1>2. /\ Notified(k)[q].identity = connecting[q].identity
      /\ connecting[q].st # "none"
      /\ Notified(k)[q].st = "waiting" =>
           /\ connecting[q].st = "waiting"
           /\ ~ \E i \in 1..k : list[i] = [peer |-> q, identity |-> connecting[q].identity]
  BY <1>1 DEF Notified, Connecting
<1>3. /\ q \notin tx_worker_handle_map
      /\ q \notin being_evicted_peers
      /\ connecting[q].identity = identity
      /\ connecting[q].st = "waiting" =>
           \E n \in DOMAIN list : list[n] = [peer |-> q, identity |-> identity]
  BY <1>2 DEF DialsNow, Dials
<1>4. ASSUME Notified(k)[q].st = "waiting"
      PROVE  \E n \in DOMAIN AfterUnblocking(k) :
               AfterUnblocking(k)[n] = [peer |-> q, identity |-> identity]
  <2> DEFINE x == [peer |-> q, identity |-> identity]
  <2>1. ~ \E i \in 1..k : list[i] = x
    BY <1>2, <1>3, <1>4
  <2>2. \E n \in DOMAIN list : list[n] = x
    BY <1>2, <1>3, <1>4
  <2> HIDE DEF x
  <2>3. PICK n \in DOMAIN list : list[n] = x
    BY <2>2
  <2>4. /\ list \in Seq(Waiting) /\ Len(list) \in Nat
        /\ DOMAIN list = 1..Len(list)
        /\ k \in 0..Len(list)
    BY DEF TypeOK
  <2>5. n > k /\ n \in 1..Len(list)
    BY <2>1, <2>3, <2>4
  <2>6. AfterUnblocking(k) = SubSeq(list, k + 1, Len(list))
    BY DEF AfterUnblocking
  <2>7. /\ AfterUnblocking(k)[n - k] = list[n]
        /\ n - k \in DOMAIN AfterUnblocking(k)
    BY <2>4, <2>5, <2>6, SuffixElement
  <2>8. QED BY <2>3, <2>7 DEF x
<1>5. QED BY <1>2, <1>3, <1>4

\* handle_worker_result preserves the dialling invariants.
LEMMA HandleWorkerResultDials ==
  ASSUME TypeOK, DialsNow, NEW p \in Peers, HandleWorkerResult(p)
  PROVE  DialsNow'
<1> DEFINE w == worker[p][identity]
           queue == tx_queues[p] \o Rescued(w)
           evicted == p \in being_evicted_peers
           reconnects == ~w.fatal /\ ~evicted /\ queue # <<>>
<1>1. PICK k \in 0..Len(connecting_blocked_by_eviction_list) :
        IF reconnects
          THEN SpawnConnecting(p, 1, queue, AfterUnblocking(k),
                               tx_worker_handle_map', being_evicted_peers', Notified(k))
          ELSE /\ connecting' = Notified(k)
               /\ connecting_blocked_by_eviction_list' = AfterUnblocking(k)
  BY DEF HandleWorkerResult
<1>2. /\ tx_worker_handle_map' \in SUBSET tx_worker_handle_map
      /\ being_evicted_peers' \in SUBSET being_evicted_peers
      /\ identity' = identity
  BY DEF HandleWorkerResult
<1>3. Dials(Notified(k), AfterUnblocking(k), tx_worker_handle_map', being_evicted_peers')
  BY <1>2, UnblockDials
<1>4. Dials(connecting', connecting_blocked_by_eviction_list',
            tx_worker_handle_map', being_evicted_peers')
  <2> HIDE DEF queue
  <2>1. CASE reconnects
    <3>1. 1 \in 0..MaxConnectionAttempts
      OBVIOUS
    <3>2. QED BY <1>1, <1>3, <2>1, <3>1, UnblockType, SpawnDials
  <2>2. CASE ~reconnects
    BY <1>1, <1>3, <2>2
  <2>3. QED BY <2>1, <2>2
<1>5. QED BY <1>2, <1>4 DEF DialsNow, Dials

\* The same for every caller of spawn_connecting that leaves the handles, the
\* evictions and the identity alone.
LEMMA CallerDials ==
  ASSUME TypeOK, NEW p \in Peers, NEW attempt \in 0..MaxConnectionAttempts, NEW queue,
         NEW conns \in [Peers -> Connecting],
         Dials(conns, connecting_blocked_by_eviction_list,
               tx_worker_handle_map, being_evicted_peers),
         SpawnConnecting(p, attempt, queue, connecting_blocked_by_eviction_list,
                         tx_worker_handle_map, being_evicted_peers, conns),
         UNCHANGED <<identity, tx_worker_handle_map, being_evicted_peers>>
  PROVE  DialsNow'
<1>1. connecting_blocked_by_eviction_list \in Seq(Waiting)
  BY DEF TypeOK
<1>2. Dials(connecting', connecting_blocked_by_eviction_list',
            tx_worker_handle_map, being_evicted_peers)
  BY <1>1, SpawnDials
<1>3. QED BY <1>2 DEF DialsNow, Dials

LEMMA JoinedDials ==
  ASSUME TypeOK, DialsNow, NEW p \in Peers
  PROVE  Dials(Joined(p), connecting_blocked_by_eviction_list,
               tx_worker_handle_map \cup {p}, being_evicted_peers)
BY DEF TypeOK, DialsNow, Dials, Joined, NoConnecting

LEMMA JoinedDialsWeak ==
  ASSUME TypeOK, DialsNow, NEW p \in Peers
  PROVE  Dials(Joined(p), connecting_blocked_by_eviction_list,
               tx_worker_handle_map, being_evicted_peers)
BY JoinedDials DEF Dials

\* Every step preserves the dialling invariants.
LEMMA NextDials == TypeOK /\ DialsNow /\ [Next]_vars => DialsNow'
<1> SUFFICES ASSUME TypeOK, DialsNow, [Next]_vars PROVE DialsNow'
  OBVIOUS
<1> DEFINE sameDials ==
      UNCHANGED <<identity, connecting, connecting_blocked_by_eviction_list,
                  tx_worker_handle_map, being_evicted_peers>>
<1>0. ASSUME sameDials PROVE DialsNow'
  BY <1>0 DEF DialsNow, Dials
<1>1. CASE LoopTop
  <2>1. CASE NoEvictionRequired \/ EvictionPanics \/ PredictionDone \/ RespawnDone
    BY <1>0, <2>1 DEF NoEvictionRequired, EvictionPanics, PredictionDone, RespawnDone,
                      evictionVars
  <2>2. CASE DoEviction
    <3>1. /\ being_evicted_peers' \subseteq being_evicted_peers \cup tx_worker_handle_map
          /\ UNCHANGED <<identity, connecting, connecting_blocked_by_eviction_list,
                         tx_worker_handle_map>>
      BY <2>2 DEF DoEviction
    <3>2. QED BY <3>1 DEF DialsNow, Dials
  <2>3. ASSUME NEW p \in Peers, Respawn(p) PROVE DialsNow'
    <3>1. /\ respawn[p] \in 0..MaxConnectionAttempts
          /\ connecting \in [Peers -> Connecting]
      BY DEF TypeOK
    <3>2. QED BY <2>3, <3>1, CallerDials DEF Respawn, evictionVars, DialsNow
  <2>4. QED BY <1>1, <2>1, <2>2, <2>3 DEF LoopTop
<1>2. ASSUME NEW p \in Peers, PredictLeader(p) PROVE DialsNow'
  <2>1. /\ MaxConnectionAttempts \in 0..MaxConnectionAttempts
        /\ connecting \in [Peers -> Connecting]
    BY DEF TypeOK
  <2>2. QED BY <1>2, <2>1, CallerDials DEF PredictLeader, evictionVars, DialsNow
<1>3. ASSUME NEW t \in Txs, AcceptTxToWorker(t) PROVE DialsNow'
  BY <1>0, <1>3 DEF AcceptTxToWorker, evictionVars
<1>4. ASSUME NEW t \in Txs, AcceptTxToQueue(t) PROVE DialsNow'
  <2>1. /\ RemotePeer[t] \in Peers
        /\ 1 \in 0..MaxConnectionAttempts
        /\ connecting \in [Peers -> Connecting]
    BY DEF TypeOK
  <2>2. QED BY <1>4, <2>1, CallerDials DEF AcceptTxToQueue, evictionVars, DialsNow
<1>5. ASSUME NEW p \in Peers, HandleConnectingResult(p) PROVE DialsNow'
  <2>1. CASE InstallWorker(p)
    <3>1. /\ connecting' = Joined(p)
          /\ tx_worker_handle_map' = tx_worker_handle_map \cup {p}
          /\ UNCHANGED <<identity, connecting_blocked_by_eviction_list, being_evicted_peers>>
      BY <2>1 DEF InstallWorker
    <3>2. QED BY <3>1, JoinedDials DEF DialsNow, Dials
  <2>2. ASSUME NEW outcome \in ConnectErrors, ConnectFailed(p, outcome)
        PROVE  DialsNow'
    <3> DEFINE retries == outcome = "connection_error"
                            /\ connecting[p].attempt < MaxConnectionAttempts
               attempt == IF AbandonsAttempt(p) THEN connecting[p].attempt
                                                ELSE connecting[p].attempt + 1
    <3>1. CASE AbandonsAttempt(p) \/ retries
      <4>1. attempt \in 0..MaxConnectionAttempts
        BY <3>1 DEF TypeOK, Connecting
      <4>2. SpawnConnecting(p, attempt, tx_queues[p], connecting_blocked_by_eviction_list,
                            tx_worker_handle_map, being_evicted_peers, Joined(p))
        BY <2>2, <3>1 DEF ConnectFailed
      <4>3. UNCHANGED <<identity, tx_worker_handle_map, being_evicted_peers>>
        BY <2>2 DEF ConnectFailed, evictionVars
      <4>4. QED BY <4>1, <4>2, <4>3, JoinedDialsWeak, JoinedType, CallerDials
    <3>2. CASE ~(AbandonsAttempt(p) \/ retries)
      <4>1. /\ connecting' = Joined(p)
            /\ UNCHANGED <<identity, connecting_blocked_by_eviction_list,
                           tx_worker_handle_map, being_evicted_peers>>
        BY <2>2, <3>2 DEF ConnectFailed, evictionVars
      <4>2. QED BY <4>1, JoinedDialsWeak DEF DialsNow, Dials
    <3>3. QED BY <3>1, <3>2
  <2>3. CASE ConnectTaskPanicked(p)
    <3>1. /\ connecting' = Joined(p)
          /\ UNCHANGED <<identity, connecting_blocked_by_eviction_list,
                         tx_worker_handle_map, being_evicted_peers>>
      BY <2>3 DEF ConnectTaskPanicked, evictionVars
    <3>2. QED BY <3>1, JoinedDialsWeak DEF DialsNow, Dials
  <2>4. QED BY <1>5, <2>1, <2>2, <2>3 DEF HandleConnectingResult
<1>6. ASSUME NEW p \in Peers, HandleWorkerResult(p) PROVE DialsNow'
  BY <1>6, HandleWorkerResultDials
<1>7. ASSUME NEW next \in {"respawn", "barrier"}, UpdateIdentity(next) PROVE DialsNow'
  BY <1>7 DEF UpdateIdentity, AbortedConnecting, NoConnecting, DialsNow, Dials
<1>8. CASE BarrierReleased \/ HandleTaskletResult
  BY <1>0, <1>8 DEF BarrierReleased, HandleTaskletResult, evictionVars
<1>9. CASE InletClosed
  BY <1>9 DEF InletClosed, evictionVars, DialsNow, Dials
<1>10. ASSUME NEW changed \in SUBSET tx_worker_handle_map,
              HandleRemotePeerAddrChange(changed)
       PROVE  DialsNow'
  BY <1>0, <1>10 DEF HandleRemotePeerAddrChange, evictionVars
<1>11. ASSUME NEW p \in Peers, NEW i \in Identities,
              \/ SendEnds(p, i) \/ WorkerStep(p, i)
              \/ \E error \in {"connection_lost", "version_mismatch"} :
                   WorkerConnectionClosed(p, i, error)
              \/ DrainJoin(p, i)
       PROVE  DialsNow'
  <2>1. UNCHANGED workerFrame
    BY <1>11 DEF SendEnds, WorkerStep, SendOk, SendFailed, WorkerRecv, WorkerInletClosed,
                 WorkerCanceled, WorkerConnectionClosed, DrainJoin
  <2>2. QED BY <1>0, <2>1 DEF workerFrame, evictionVars
<1>12. ASSUME NEW p \in Peers, GracePeriodElapses(p) PROVE DialsNow'
  BY <1>0, <1>12 DEF GracePeriodElapses, evictionVars
<1>13. CASE UNCHANGED vars
  BY <1>0, <1>13 DEF vars
<1>14. CASE Ended
  BY <1>13, <1>14 DEF Ended
<1>15. QED
  BY <1>1, <1>2, <1>3, <1>4, <1>5, <1>6, <1>7, <1>8, <1>9, <1>10, <1>11, <1>12,
     <1>13, <1>14 DEF Next

\* The worker of a peer keeps its cancel permit until it is done, and stays done
\* until it is joined.
LEMMA WorkerKeepsSignal ==
  ASSUME TypeOK, NEW p \in Peers, NEW i \in Identities,
         \/ SendEnds(p, i) \/ WorkerStep(p, i)
         \/ \E error \in {"connection_lost", "version_mismatch"} :
              WorkerConnectionClosed(p, i, error),
         NEW q \in Peers, NEW j \in Identities,
         worker[q][j].cancel \/ worker[q][j].st = "done"
  PROVE  worker'[q][j].cancel \/ worker'[q][j].st = "done"
<1> DEFINE w == worker[p][i]
           keeps(new) == /\ worker' = [worker EXCEPT ![p][i] = new]
                         /\ w.cancel => new.cancel \/ new.st = "done"
                         /\ w.st = "done" => new.st = "done"
<1>0. w \in Worker
  BY DEF TypeOK
<1>1. \E new \in Worker : keeps(new)
  <2>1. CASE SendOk(p, i)
    <3> DEFINE new == [w EXCEPT !.queue = Tail(w.queue)]
    <3>1. worker' = [worker EXCEPT ![p][i] = new]
      BY <2>1 DEF SendOk, TypeOK
    <3>2. Tail(w.queue) \in Seq(Entry)
      BY <1>0, <2>1 DEF SendOk, Worker
    <3>3. new \in Worker /\ new.cancel = w.cancel /\ new.st = w.st
      <4> DEFINE rest == Tail(w.queue)
      <4>1. rest \in Seq(Entry)
        BY <3>2
      <4> HIDE DEF w, rest
      <4>2. [w EXCEPT !.queue = rest] \in Worker
        BY <1>0, <4>1 DEF Worker
      <4>3. [w EXCEPT !.queue = rest].cancel = w.cancel /\ [w EXCEPT !.queue = rest].st = w.st
        BY <1>0 DEF Worker
      <4>4. QED BY <4>2, <4>3 DEF rest
    <3>4. QED BY <3>1, <3>3
  <2>2. ASSUME NEW error \in {"stream", "connection_lost", "version_mismatch"},
               SendFailed(p, i, error)
        PROVE  \E new \in Worker : keeps(new)
    <3> DEFINE entry == Head(w.queue)
               queue == IF GivesUp(entry) THEN Tail(w.queue)
                        ELSE Append(Tail(w.queue), [entry EXCEPT !.attempt = @ + 1])
               st == IF error = "stream" THEN w.st ELSE "done"
               fatal == (error = "version_mismatch")
               new == [w EXCEPT !.queue = queue, !.st = st, !.fatal = fatal]
    <3>1. worker' = [worker EXCEPT ![p][i] = new]
      BY <2>2 DEF SendFailed
    <3>2. entry \in Entry /\ Tail(w.queue) \in Seq(Entry)
      BY <1>0, <2>2 DEF SendFailed, Worker
    <3>3. ~GivesUp(entry) => [entry EXCEPT !.attempt = @ + 1] \in Entry
      BY <3>2, NextAttemptType
    <3>4. queue \in Seq(Entry)
      BY <3>2, <3>3
    <3>5. st \in {"none", "running", "done"} /\ fatal \in BOOLEAN
      BY <1>0 DEF Worker
    <3>6. new \in Worker /\ new.cancel = w.cancel /\ new.st = st
      <4> HIDE DEF w, queue, st, fatal
      <4>1. QED BY <1>0, <3>4, <3>5 DEF Worker
    <3>7. w.st = "done" => st = "done"
      OBVIOUS
    <3>8. QED BY <3>1, <3>6, <3>7
  <2>3. CASE WorkerRecv(p, i)
    <3> DEFINE new == [w EXCEPT !.rx = Tail(@), !.queue = <<FirstAttempt(Head(w.rx))>>]
    <3>1. worker' = [worker EXCEPT ![p][i] = new]
      BY <2>3 DEF WorkerRecv
    <3>2. Tail(w.rx) \in Seq(Txs) /\ Head(w.rx) \in Txs
      BY <1>0, <2>3 DEF WorkerRecv, Worker
    <3>3. <<FirstAttempt(Head(w.rx))>> \in Seq(Entry)
      BY <3>2, RecordTypes
    <3>4. new \in Worker /\ new.cancel = w.cancel /\ new.st = w.st
      <4> HIDE DEF w
      <4>1. QED BY <1>0, <3>2, <3>3 DEF Worker
    <3>5. QED BY <3>1, <3>4
  <2>4. CASE WorkerInletClosed(p, i)
    <3> DEFINE new == [w EXCEPT !.st = "done"]
    <3>1. worker' = [worker EXCEPT ![p][i] = new]
      BY <2>4 DEF WorkerInletClosed, TypeOK
    <3>2. new \in Worker /\ new.st = "done"
      <4> HIDE DEF w
      <4>1. QED BY <1>0 DEF Worker
    <3>3. QED BY <3>1, <3>2
  <2>5. CASE WorkerCanceled(p, i)
    <3> DEFINE new == [w EXCEPT !.st = "done", !.cancel = FALSE]
    <3>1. worker' = [worker EXCEPT ![p][i] = new]
      BY <2>5 DEF WorkerCanceled
    <3>2. new \in Worker /\ new.st = "done"
      <4> HIDE DEF w
      <4>1. QED BY <1>0 DEF Worker
    <3>3. QED BY <3>1, <3>2
  <2>6. ASSUME NEW error \in {"connection_lost", "version_mismatch"},
               WorkerConnectionClosed(p, i, error)
        PROVE  \E new \in Worker : keeps(new)
    <3> DEFINE fatal == (error = "version_mismatch")
               new == [w EXCEPT !.st = "done", !.fatal = fatal]
    <3>1. worker' = [worker EXCEPT ![p][i] = new]
      BY <2>6 DEF WorkerConnectionClosed
    <3>2. fatal \in BOOLEAN
      OBVIOUS
    <3>3. new \in Worker /\ new.st = "done"
      <4> HIDE DEF w, fatal
      <4>1. QED BY <1>0, <3>2 DEF Worker
    <3>4. QED BY <3>1, <3>3
  <2>7. QED BY <2>1, <2>2, <2>3, <2>4, <2>5, <2>6 DEF SendEnds, WorkerStep
<1>2. PICK new \in Worker : keeps(new)
  BY <1>1
<1>3. CASE q = p /\ j = i
  <2>1. worker'[q][j] = new
    BY <1>2, <1>3 DEF TypeOK
  <2>2. QED BY <1>2, <1>3, <2>1
<1>4. CASE ~(q = p /\ j = i)
  <2>1. worker'[q][j] = worker[q][j]
    BY <1>2, <1>4 DEF TypeOK
  <2>2. QED BY <2>1
<1>5. QED BY <1>3, <1>4

\* Cancelling workers leaves every worker signalled that was, and signals more.
LEMMA CancelSignals ==
  ASSUME TypeOK, NEW S \in SUBSET Peers,
         worker' = Cancelled(S),
         NEW q \in Peers,
         q \in S \/ worker[q][identity].cancel \/ worker[q][identity].st = "done"
  PROVE  worker'[q][identity].cancel \/ worker'[q][identity].st = "done"
<1>1. /\ worker[q] \in [Identities -> Worker]
      /\ worker[q][identity] \in Worker
      /\ identity \in Identities
  BY DEF TypeOK
<1>2. CASE q \in S
  <2>1. worker'[q][identity] = [worker[q][identity] EXCEPT !.cancel = TRUE]
    BY <1>1, <1>2 DEF Cancelled
  <2>2. QED BY <1>1, <2>1 DEF Worker
<1>3. CASE q \notin S
  BY <1>3 DEF Cancelled
<1>4. QED BY <1>2, <1>3

Signalled == EvictionIsSignalled /\ StoppedHasNoHandles

\* Every step preserves that evictions are signalled.
LEMMA NextSignalled == TypeOK /\ DialsNow /\ Signalled /\ [Next]_vars => Signalled'
<1> SUFFICES ASSUME TypeOK, DialsNow, Signalled, [Next]_vars PROVE Signalled'
  OBVIOUS
<1> DEFINE sig(q) == worker[q][identity].cancel \/ worker[q][identity].st = "done"
<1>a. \A q \in being_evicted_peers \cap tx_worker_handle_map : sig(q)
  BY DEF Signalled, EvictionIsSignalled
<1>b. ASSUME stage' # "stopped", UNCHANGED <<identity, worker>>,
             being_evicted_peers' \cap tx_worker_handle_map'
               \subseteq being_evicted_peers \cap tx_worker_handle_map
      PROVE  Signalled'
  BY <1>b DEF Signalled, EvictionIsSignalled, StoppedHasNoHandles
<1>c. ASSUME tx_worker_handle_map' = {} PROVE Signalled'
  BY <1>c DEF Signalled, EvictionIsSignalled, StoppedHasNoHandles
<1>d. stage = "stopped" => tx_worker_handle_map = {}
  BY DEF Signalled, StoppedHasNoHandles
<1>1. CASE LoopTop
  <2>1. CASE NoEvictionRequired \/ EvictionPanics \/ PredictionDone \/ RespawnDone
    BY <1>b, <2>1 DEF NoEvictionRequired, EvictionPanics, PredictionDone, RespawnDone,
                      evictionVars
  <2>2. CASE DoEviction
    <3>1. PICK plan \in PlanEviction(EvictionCountRequired) :
            /\ worker' = Cancelled(plan \cap tx_worker_handle_map)
            /\ being_evicted_peers' = being_evicted_peers \cup (plan \cap tx_worker_handle_map)
      BY <2>2 DEF DoEviction
    <3>2. /\ plan \cap tx_worker_handle_map \in SUBSET Peers
          /\ UNCHANGED <<identity, tx_worker_handle_map>>
          /\ stage' = "predict"
      BY <2>2 DEF DoEviction, TypeOK
    <3>3. \A q \in being_evicted_peers' \cap tx_worker_handle_map' :
            worker'[q][identity].cancel \/ worker'[q][identity].st = "done"
      BY <1>a, <3>1, <3>2, CancelSignals DEF TypeOK
    <3>4. QED BY <3>2, <3>3 DEF Signalled, EvictionIsSignalled, StoppedHasNoHandles
  <2>3. ASSUME NEW p \in Peers, Respawn(p) PROVE Signalled'
    BY <1>b, <2>3 DEF Respawn, evictionVars
  <2>4. QED BY <1>1, <2>1, <2>2, <2>3 DEF LoopTop
<1>2. ASSUME NEW p \in Peers, PredictLeader(p) PROVE Signalled'
  BY <1>b, <1>2 DEF PredictLeader, evictionVars
<1>3. ASSUME NEW t \in Txs, AcceptTxToWorker(t) PROVE Signalled'
  <2> DEFINE p == RemotePeer[t]
             w == worker[p][identity]
  <2>1. /\ p \in Peers /\ identity \in Identities /\ w \in Worker
        /\ worker \in [Peers -> [Identities -> Worker]]
    BY DEF TypeOK
  <2>2. \/ worker' = worker
        \/ worker' = [worker EXCEPT ![p][identity] = [w EXCEPT !.rx = Append(w.rx, t)]]
    BY <1>3, <2>1 DEF AcceptTxToWorker
  <2>3. ASSUME NEW q \in Peers
        PROVE  /\ worker'[q][identity].cancel = worker[q][identity].cancel
               /\ worker'[q][identity].st = worker[q][identity].st
    <3> DEFINE new == [w EXCEPT !.rx = Append(w.rx, t)]
    <3>1. new.cancel = w.cancel /\ new.st = w.st
      <4> HIDE DEF w
      <4>1. QED BY <2>1 DEF Worker
    <3>2. worker'[q][identity] = worker[q][identity] \/ (q = p /\ worker'[q][identity] = new)
      <4> HIDE DEF p, new
      <4>1. worker' = worker \/ worker' = [worker EXCEPT ![p][identity] = new]
        BY <2>2 DEF new
      <4>2. QED BY <2>1, <4>1
    <3>3. QED BY <3>1, <3>2
  <2>4. /\ UNCHANGED <<identity, tx_worker_handle_map, being_evicted_peers>>
        /\ stage' = "evict"
    BY <1>3 DEF AcceptTxToWorker, evictionVars
  <2>5. QED BY <1>a, <2>3, <2>4
            DEF Signalled, EvictionIsSignalled, StoppedHasNoHandles, TypeOK
<1>4. ASSUME NEW t \in Txs, AcceptTxToQueue(t) PROVE Signalled'
  BY <1>b, <1>4 DEF AcceptTxToQueue, evictionVars
<1>5. ASSUME NEW p \in Peers, HandleConnectingResult(p) PROVE Signalled'
  <2>1. CASE InstallWorker(p)
    <3>1. p \notin being_evicted_peers
      BY <2>1 DEF InstallWorker, DialsNow, Dials
    <3>2. /\ worker' = [worker EXCEPT ![p][identity] = FreshWorker(tx_queues[p])]
          /\ tx_worker_handle_map' = tx_worker_handle_map \cup {p}
          /\ UNCHANGED <<identity, being_evicted_peers>>
          /\ stage' # "stopped"
      BY <2>1 DEF InstallWorker
    <3>3. \A q \in being_evicted_peers' \cap tx_worker_handle_map' :
            worker'[q][identity] = worker[q][identity] /\ q \in tx_worker_handle_map
      BY <3>1, <3>2 DEF TypeOK
    <3>4. QED BY <1>a, <3>2, <3>3
              DEF Signalled, EvictionIsSignalled, StoppedHasNoHandles
  <2>2. ASSUME NEW outcome \in ConnectErrors, ConnectFailed(p, outcome)
        PROVE  Signalled'
    BY <1>b, <2>2 DEF ConnectFailed, evictionVars
  <2>3. CASE ConnectTaskPanicked(p)
    BY <1>b, <2>3 DEF ConnectTaskPanicked, evictionVars
  <2>4. QED BY <1>5, <2>1, <2>2, <2>3 DEF HandleConnectingResult
<1>6. ASSUME NEW p \in Peers, HandleWorkerResult(p) PROVE Signalled'
  <2>1. /\ worker' = [worker EXCEPT ![p][identity] = NoWorker]
        /\ tx_worker_handle_map' = tx_worker_handle_map \ {p}
        /\ being_evicted_peers' = being_evicted_peers \ {p}
        /\ identity' = identity
        /\ stage' = "evict"
    BY <1>6 DEF HandleWorkerResult
  <2>2. \A q \in being_evicted_peers' \cap tx_worker_handle_map' :
          worker'[q][identity] = worker[q][identity]
    BY <2>1 DEF TypeOK
  <2>3. QED BY <1>a, <2>1, <2>2 DEF Signalled, EvictionIsSignalled, StoppedHasNoHandles
<1>7. ASSUME NEW next \in {"respawn", "barrier"}, UpdateIdentity(next) PROVE Signalled'
  BY <1>7, <1>c DEF UpdateIdentity, AbortedConnecting
<1>8. CASE BarrierReleased \/ HandleTaskletResult
  BY <1>b, <1>8 DEF BarrierReleased, HandleTaskletResult, evictionVars
<1>9. CASE InletClosed
  BY <1>9, <1>c DEF InletClosed
<1>10. ASSUME NEW changed \in SUBSET tx_worker_handle_map,
              HandleRemotePeerAddrChange(changed)
       PROVE  Signalled'
  <2>1. /\ changed \in SUBSET Peers
        /\ UNCHANGED <<identity, tx_worker_handle_map, being_evicted_peers>>
        /\ stage' = "evict"
        /\ worker' = Cancelled(changed)
    BY <1>10 DEF HandleRemotePeerAddrChange, evictionVars, TypeOK
  <2>2. \A q \in being_evicted_peers \cap tx_worker_handle_map :
          worker'[q][identity].cancel \/ worker'[q][identity].st = "done"
    BY <1>a, <2>1, CancelSignals DEF TypeOK
  <2>3. QED BY <2>1, <2>2 DEF Signalled, EvictionIsSignalled, StoppedHasNoHandles
<1>11. ASSUME NEW p \in Peers, NEW i \in Identities,
              \/ SendEnds(p, i) \/ WorkerStep(p, i)
              \/ \E error \in {"connection_lost", "version_mismatch"} :
                   WorkerConnectionClosed(p, i, error)
       PROVE  Signalled'
  <2>1. UNCHANGED <<stage, identity, tx_worker_handle_map, being_evicted_peers>>
    BY <1>11 DEF SendEnds, WorkerStep, SendOk, SendFailed, WorkerRecv, WorkerInletClosed,
                 WorkerCanceled, WorkerConnectionClosed, workerFrame, evictionVars
  <2>2. \A q \in being_evicted_peers \cap tx_worker_handle_map :
          worker'[q][identity].cancel \/ worker'[q][identity].st = "done"
    BY <1>a, <1>11, WorkerKeepsSignal DEF TypeOK
  <2>3. QED BY <1>d, <2>1, <2>2 DEF Signalled, EvictionIsSignalled, StoppedHasNoHandles
<1>12. ASSUME NEW p \in Peers, NEW i \in Identities, DrainJoin(p, i) PROVE Signalled'
  <2>1. /\ UNCHANGED <<stage, identity, tx_worker_handle_map, being_evicted_peers>>
        /\ worker' = [worker EXCEPT ![p][i] = NoWorker]
        /\ i # identity \/ stage = "stopped"
    BY <1>12 DEF DrainJoin, workerFrame, evictionVars
  <2>2. CASE stage = "stopped"
    BY <1>c, <1>d, <2>1, <2>2
  <2>3. CASE i # identity
    <3>1. \A q \in Peers : worker'[q][identity] = worker[q][identity]
      BY <2>1, <2>3 DEF TypeOK
    <3>2. QED BY <1>a, <1>d, <2>1, <3>1
              DEF Signalled, EvictionIsSignalled, StoppedHasNoHandles, TypeOK
  <2>4. QED BY <2>1, <2>2, <2>3
<1>13. ASSUME NEW p \in Peers, GracePeriodElapses(p) PROVE Signalled'
  BY <1>b, <1>13 DEF GracePeriodElapses, evictionVars
<1>14. CASE UNCHANGED vars
  BY <1>14 DEF vars, Signalled, EvictionIsSignalled, StoppedHasNoHandles
<1>15. CASE Ended
  BY <1>14, <1>15 DEF Ended
<1>16. QED
  BY <1>1, <1>2, <1>3, <1>4, <1>5, <1>6, <1>7, <1>8, <1>9, <1>10, <1>11, <1>12,
     <1>13, <1>14, <1>15 DEF Next

\* The invariant holds at start-up.
LEMMA InitIInv == Init => IInv
<1> SUFFICES ASSUME Init PROVE IInv
  OBVIOUS
<1>1. TypeOK
  BY InitType
<1>2. \A p \in Peers : connecting[p].st = "none"
  BY DEF Init, NoConnecting
<1>3. stage # "stopped" /\ being_evicted_peers = {}
  BY DEF Init
<1>4. QED
  BY <1>1, <1>2, <1>3
  DEF IInv, DialOrWorker, AttemptsUseCurrentIdentity, WaiterIsListed, EvictedNotDialled,
      EvictionIsSignalled, StoppedHasNoHandles, IsConnecting

\* Every step of the gateway preserves the invariant.
LEMMA NextIInv == IInv /\ [Next]_vars => IInv'
<1> SUFFICES ASSUME IInv, [Next]_vars PROVE IInv'
  OBVIOUS
<1>1. TypeOK /\ DialsNow /\ Signalled
  BY DialsIsInvariants DEF IInv, Signalled
<1>2. TypeOK'
  BY <1>1, NextType
<1>3. DialsNow'
  BY <1>1, NextDials
<1>4. Signalled'
  BY <1>1, NextSignalled
<1>5. (TypeOK => (DialsNow <=> /\ DialOrWorker
                              /\ EvictedNotDialled
                              /\ AttemptsUseCurrentIdentity
                              /\ WaiterIsListed))'
  BY DialsIsInvariants, PTL
<1>6. QED BY <1>2, <1>3, <1>4, <1>5 DEF IInv, Signalled

\* Whatever the peers, stakes, limits and transactions are, and in whatever
\* order results, evictions, identity updates and address changes arrive, the
\* dialling and eviction bookkeeping of the event loop stays consistent.
THEOREM BookkeepingConsistent == Spec => []IInv
<1>1. QED BY InitIInv, NextIInv, PTL DEF Spec

\* The assert! of install_worker never fires: no peer is dialled while it has a
\* worker.
THEOREM NeverDialsAWorkersPeer == Spec => []DialOrWorker
<1>1. IInv => DialOrWorker
  BY DEF IInv
<1>2. QED BY <1>1, BookkeepingConsistent, PTL

\* handle_connecting_result never meets an attempt of a former identity: the
\* branch its comment calls impossible is.
THEOREM ResultsUseCurrentIdentity == Spec => []AttemptsUseCurrentIdentity
<1>1. IInv => AttemptsUseCurrentIdentity
  BY DEF IInv
<1>2. QED BY <1>1, BookkeepingConsistent, PTL

\* No lost wake-up of a blocked connection attempt: it stays in the list that
\* unblock_eviction_waiting_connection pops from.
THEOREM NoLostWaiter == Spec => []WaiterIsListed
<1>1. IInv => WaiterIsListed
  BY DEF IInv
<1>2. QED BY <1>1, BookkeepingConsistent, PTL

\* Every eviction under way has a cancel permit pending or its worker is done.
THEOREM EvictionsAreSignalled == Spec => []EvictionIsSignalled
<1>1. IInv => EvictionIsSignalled
  BY DEF IInv
<1>2. QED BY <1>1, BookkeepingConsistent, PTL

(***************************************************************************)
(* Queued transactions stay served                                         *)
(***************************************************************************)

\* An attempt in flight has a number, and peers are remembered only while the
\* loop has no worker and is about to dial them again.
Redials ==
  /\ \A p \in Peers : IsConnecting(p) => connecting[p].attempt > 0
  /\ \A p \in Peers : respawn[p] > 0 => stage \in {"barrier", "respawn"}
  /\ stage \in {"barrier", "respawn"} => tx_worker_handle_map = {}

\* spawn_connecting leaves no queue behind: either p is dialled or its queue has
\* been answered.  The other peers keep their queues and their attempts.
LEMMA SpawnServes ==
  ASSUME TypeOK, NEW p \in Peers, NEW attempt \in 1..MaxConnectionAttempts,
         NEW queue, NEW list, NEW handles, NEW evicting,
         NEW conns \in [Peers -> Connecting],
         \A q \in Peers : conns[q].st # "none" => conns[q].attempt > 0,
         p \notin handles,
         SpawnConnecting(p, attempt, queue, list, handles, evicting, conns)
  PROVE  /\ tx_queues'[p] = <<>> \/ connecting'[p].st # "none"
         /\ \A q \in Peers \ {p} : /\ tx_queues'[q] = tx_queues[q]
                                   /\ connecting'[q] = conns[q]
         /\ \A q \in Peers : connecting'[q].st # "none" => connecting'[q].attempt > 0
<1>1. CASE conns[p].st = "none" /\ p \in evicting
  <2>1. /\ connecting' = conns
        /\ tx_queues' = [tx_queues EXCEPT ![p] = <<>>]
    BY <1>1 DEF SpawnConnecting, MaySpawn, DropPeerQueuedTx
  <2>2. QED BY <2>1 DEF TypeOK
<1>2. CASE conns[p].st = "none" /\ p \notin evicting
  <2>1. PICK st \in {"waiting", "dialing"} :
          connecting' = [conns EXCEPT ![p] = [st |-> st, attempt |-> attempt,
                                              identity |-> identity]]
    BY <1>2 DEF SpawnConnecting, MaySpawn
  <2>2. tx_queues' = [tx_queues EXCEPT ![p] = queue]
    BY <1>2 DEF SpawnConnecting, KeepQueue
  <2>3. QED BY <2>1, <2>2 DEF TypeOK
<1>3. CASE conns[p].st # "none"
  <2>1. /\ connecting' = conns
        /\ tx_queues' = [tx_queues EXCEPT ![p] = queue]
    BY <1>3 DEF SpawnConnecting, MaySpawn, KeepQueue
  <2>2. QED BY <1>3, <2>1 DEF TypeOK
<1>4. QED BY <1>1, <1>2, <1>3

\* What a step may do to the queues: all stay served, but for the one of a peer
\* whose attempt's task panicked.
StaysServed == \A p \in Peers : Served(p) => Served(p)' \/ ConnectTaskPanicked(p)

\* A caller of spawn_connecting keeps every queue served.
LEMMA CallerServes ==
  ASSUME TypeOK, Redials, NEW p \in Peers, NEW attempt \in 1..MaxConnectionAttempts,
         NEW queue, NEW list, NEW handles, NEW evicting,
         NEW conns \in [Peers -> Connecting],
         \A q \in Peers : conns[q].st # "none" => conns[q].attempt > 0,
         \A q \in Peers \ {p} : IsConnecting(q) => conns[q].st # "none",
         p \notin handles,
         \A q \in Peers \ {p} : respawn'[q] = respawn[q],
         stage \notin {"stopped", "panicked"},
         SpawnConnecting(p, attempt, queue, list, handles, evicting, conns)
  PROVE  /\ StaysServed
         /\ \A q \in Peers : IsConnecting(q)' => connecting'[q].attempt > 0
<1>1. /\ tx_queues'[p] = <<>> \/ connecting'[p].st # "none"
      /\ \A q \in Peers \ {p} : /\ tx_queues'[q] = tx_queues[q]
                                /\ connecting'[q] = conns[q]
      /\ \A q \in Peers : connecting'[q].st # "none" => connecting'[q].attempt > 0
  BY SpawnServes
<1>2. QED BY <1>1 DEF StaysServed, Served, IsConnecting

\* Every step keeps the queues served and the attempts numbered.
LEMMA NextServes == IInv /\ Redials /\ [Next]_vars => StaysServed /\ Redials'
<1> SUFFICES ASSUME IInv, Redials, [Next]_vars PROVE StaysServed /\ Redials'
  OBVIOUS
<1>a. TypeOK /\ DialOrWorker
  BY DEF IInv
<1>b. /\ connecting \in [Peers -> Connecting]
      /\ respawn \in [Peers -> 0..MaxConnectionAttempts]
      /\ tx_queues \in [Peers -> Seq(Entry)]
  BY <1>a DEF TypeOK
<1>c. \A q \in Peers : connecting[q].st # "none" => connecting[q].attempt > 0
  BY DEF Redials, IsConnecting
<1>d. ASSUME UNCHANGED <<tx_queues, connecting, respawn>>,
             stage' \in {"barrier", "respawn"} => stage = "barrier" \/ stage' = stage,
             stage \in {"barrier", "respawn"} => \/ stage' \in {"barrier", "respawn"}
                                                 \/ \A p \in Peers : respawn[p] = 0,
             stage \in {"stopped", "panicked"} => stage' = stage,
             tx_worker_handle_map' \subseteq tx_worker_handle_map
      PROVE  StaysServed /\ Redials'
  BY <1>d DEF StaysServed, Served, Redials, IsConnecting
<1>1. CASE LoopTop
  <2>1. CASE NoEvictionRequired \/ EvictionPanics \/ PredictionDone \/ DoEviction
    BY <1>d, <2>1 DEF NoEvictionRequired, EvictionPanics, PredictionDone, DoEviction
  <2>2. CASE RespawnDone
    <3>1. /\ UNCHANGED <<tx_queues, connecting, respawn, tx_worker_handle_map>>
          /\ stage = "respawn" /\ stage' = "evict"
          /\ \A p \in Peers : respawn[p] = 0
      BY <2>2 DEF RespawnDone
    <3>2. QED BY <1>d, <3>1
  <2>3. ASSUME NEW p \in Peers, Respawn(p) PROVE StaysServed /\ Redials'
    <3>1. /\ respawn[p] \in 1..MaxConnectionAttempts
          /\ p \notin tx_worker_handle_map
          /\ stage = "respawn"
      BY <1>b, <2>3 DEF Respawn, Redials
    <3>2. /\ respawn' = [respawn EXCEPT ![p] = 0]
          /\ UNCHANGED <<stage, tx_worker_handle_map>>
      BY <2>3 DEF Respawn
    <3>3. /\ StaysServed
          /\ \A q \in Peers : IsConnecting(q)' => connecting'[q].attempt > 0
      BY <1>a, <1>b, <1>c, <2>3, <3>1, <3>2, CallerServes DEF Respawn, IsConnecting
    <3>4. QED BY <1>b, <3>1, <3>2, <3>3 DEF Redials
  <2>4. QED BY <1>1, <2>1, <2>2, <2>3 DEF LoopTop
<1>2. ASSUME NEW p \in Peers, PredictLeader(p) PROVE StaysServed /\ Redials'
  <2>1. /\ MaxConnectionAttempts \in 1..MaxConnectionAttempts
        /\ p \notin tx_worker_handle_map
        /\ stage = "predict"
        /\ UNCHANGED <<stage, respawn, tx_worker_handle_map>>
    BY <1>2 DEF PredictLeader
  <2>2. /\ StaysServed
        /\ \A q \in Peers : IsConnecting(q)' => connecting'[q].attempt > 0
    BY <1>a, <1>b, <1>c, <1>2, <2>1, CallerServes DEF PredictLeader, IsConnecting
  <2>3. QED BY <2>1, <2>2 DEF Redials
<1>3. ASSUME NEW t \in Txs, AcceptTxToWorker(t) PROVE StaysServed /\ Redials'
  BY <1>d, <1>3 DEF AcceptTxToWorker
<1>4. ASSUME NEW t \in Txs, AcceptTxToQueue(t) PROVE StaysServed /\ Redials'
  <2>1. /\ RemotePeer[t] \in Peers /\ 1 \in 1..MaxConnectionAttempts
        /\ RemotePeer[t] \notin tx_worker_handle_map
        /\ stage = "select" /\ stage' = "evict"
        /\ UNCHANGED <<respawn, tx_worker_handle_map>>
    BY <1>4 DEF AcceptTxToQueue
  <2>2. /\ StaysServed
        /\ \A q \in Peers : IsConnecting(q)' => connecting'[q].attempt > 0
    BY <1>a, <1>b, <1>c, <1>4, <2>1, CallerServes DEF AcceptTxToQueue, IsConnecting
  <2>3. QED BY <2>1, <2>2 DEF Redials
<1>5. ASSUME NEW p \in Peers, HandleConnectingResult(p) PROVE StaysServed /\ Redials'
  <2>0. /\ Joined(p) \in [Peers -> Connecting]
        /\ \A q \in Peers : Joined(p)[q] = IF q = p THEN NoConnecting ELSE connecting[q]
    BY <1>b, RecordTypes DEF Joined
  <2>a. \A q \in Peers : Joined(p)[q].st # "none" => Joined(p)[q].attempt > 0
    BY <1>c, <2>0 DEF NoConnecting
  <2>1. CASE InstallWorker(p)
    <3>1. /\ connecting' = Joined(p)
          /\ tx_queues' = [tx_queues EXCEPT ![p] = <<>>]
          /\ stage = "select" /\ stage' \in {"evict", "panicked"}
          /\ UNCHANGED respawn
      BY <2>1 DEF InstallWorker
    <3>2. StaysServed
      BY <1>b, <2>0, <3>1 DEF StaysServed, Served, IsConnecting
    <3>3. Redials'
      BY <2>a, <3>1 DEF Redials, IsConnecting
    <3>4. QED BY <3>2, <3>3
  <2>2. ASSUME NEW outcome \in ConnectErrors, ConnectFailed(p, outcome)
        PROVE  StaysServed /\ Redials'
    <3> DEFINE retries == outcome = "connection_error"
                            /\ connecting[p].attempt < MaxConnectionAttempts
               attempt == IF AbandonsAttempt(p) THEN connecting[p].attempt
                                                ELSE connecting[p].attempt + 1
    <3>0. /\ stage = "select" /\ stage' = "evict"
          /\ connecting[p].st = "dialing"
          /\ p \notin tx_worker_handle_map
          /\ UNCHANGED <<respawn, tx_worker_handle_map>>
      BY <1>a, <2>2 DEF ConnectFailed, DialOrWorker, IsConnecting
    <3>1. CASE AbandonsAttempt(p) \/ retries
      <4>1. connecting[p] \in Connecting /\ connecting[p].attempt > 0
        BY <1>b, <1>c, <3>0
      <4>2. attempt \in 1..MaxConnectionAttempts
        BY <3>1, <4>1 DEF Connecting
      <4>3. SpawnConnecting(p, attempt, tx_queues[p], connecting_blocked_by_eviction_list,
                            tx_worker_handle_map, being_evicted_peers, Joined(p))
        BY <2>2, <3>1 DEF ConnectFailed
      <4>4. \A q \in Peers \ {p} : IsConnecting(q) => Joined(p)[q].st # "none"
        BY <2>0 DEF IsConnecting
      <4>5. /\ StaysServed
            /\ \A q \in Peers : IsConnecting(q)' => connecting'[q].attempt > 0
        <5> HIDE DEF attempt
        <5>1. QED BY <1>a, <2>0, <2>a, <3>0, <4>2, <4>3, <4>4, CallerServes
      <4>6. QED BY <3>0, <4>5 DEF Redials
    <3>2. CASE ~(AbandonsAttempt(p) \/ retries)
      <4>1. /\ connecting' = Joined(p)
            /\ tx_queues' = [tx_queues EXCEPT ![p] = <<>>]
        BY <2>2, <3>2 DEF ConnectFailed, DropPeerQueuedTx
      <4>2. StaysServed
        BY <1>b, <2>0, <3>0, <4>1 DEF StaysServed, Served, IsConnecting
      <4>3. Redials'
        BY <2>a, <3>0, <4>1 DEF Redials, IsConnecting
      <4>4. QED BY <4>2, <4>3
    <3>3. QED BY <3>1, <3>2
  <2>3. CASE ConnectTaskPanicked(p)
    <3>1. /\ connecting' = Joined(p)
          /\ stage = "select" /\ stage' = "evict"
          /\ UNCHANGED <<tx_queues, respawn, tx_worker_handle_map>>
      BY <2>3 DEF ConnectTaskPanicked
    <3>2. StaysServed
      BY <2>0, <2>3, <3>1 DEF StaysServed, Served, IsConnecting
    <3>3. Redials'
      BY <2>a, <3>1 DEF Redials, IsConnecting
    <3>4. QED BY <3>2, <3>3
  <2>4. QED BY <1>5, <2>1, <2>2, <2>3 DEF HandleConnectingResult
<1>6. ASSUME NEW p \in Peers, HandleWorkerResult(p) PROVE StaysServed /\ Redials'
  <2> DEFINE w == worker[p][identity]
             queue == tx_queues[p] \o Rescued(w)
             evicted == p \in being_evicted_peers
             reconnects == ~w.fatal /\ ~evicted /\ queue # <<>>
             reason == IF w.fatal THEN "RemotePeerUnreachable" ELSE "DropByGateway"
  <2>0. /\ stage = "select" /\ stage' = "evict"
        /\ UNCHANGED respawn
        /\ tx_worker_handle_map' = tx_worker_handle_map \ {p}
    BY <1>6 DEF HandleWorkerResult
  <2>1. PICK k \in 0..Len(connecting_blocked_by_eviction_list) :
          IF reconnects
            THEN SpawnConnecting(p, 1, queue, AfterUnblocking(k),
                                 tx_worker_handle_map', being_evicted_peers', Notified(k))
            ELSE /\ DropPeerQueuedTx(p, queue, reason)
                 /\ connecting' = Notified(k)
    BY <1>6 DEF HandleWorkerResult
  <2>2. /\ Notified(k) \in [Peers -> Connecting]
        /\ \A q \in Peers : /\ (Notified(k)[q].st = "none") = (connecting[q].st = "none")
                            /\ Notified(k)[q].attempt = connecting[q].attempt
    <3>1. \A q \in Peers : [connecting[q] EXCEPT !.st = "dialing"] \in Connecting
      BY <1>b DEF Connecting
    <3>2. QED BY <1>b, <3>1 DEF Notified, Connecting
  <2>3. \A q \in Peers : Notified(k)[q].st # "none" => Notified(k)[q].attempt > 0
    BY <1>c, <2>2
  <2>4. CASE reconnects
    <3> HIDE DEF queue
    <3>1. SpawnConnecting(p, 1, queue, AfterUnblocking(k),
                          tx_worker_handle_map', being_evicted_peers', Notified(k))
      BY <2>1, <2>4
    <3>2. 1 \in 1..MaxConnectionAttempts /\ p \notin tx_worker_handle_map'
      BY <2>0
    <3>3. \A q \in Peers \ {p} : IsConnecting(q) => Notified(k)[q].st # "none"
      BY <2>2 DEF IsConnecting
    <3>4. /\ StaysServed
          /\ \A q \in Peers : IsConnecting(q)' => connecting'[q].attempt > 0
      BY <1>a, <2>0, <2>2, <2>3, <3>1, <3>2, <3>3, CallerServes
    <3>5. QED BY <2>0, <3>4 DEF Redials
  <2>5. CASE ~reconnects
    <3>1. /\ tx_queues' = [tx_queues EXCEPT ![p] = <<>>]
          /\ connecting' = Notified(k)
      BY <2>1, <2>5 DEF DropPeerQueuedTx
    <3>2. StaysServed
      BY <1>b, <2>0, <2>2, <3>1 DEF StaysServed, Served, IsConnecting
    <3>3. Redials'
      BY <2>0, <2>3, <3>1 DEF Redials, IsConnecting
    <3>4. QED BY <3>2, <3>3
  <2>6. QED BY <2>4, <2>5
<1>7. ASSUME NEW next \in {"respawn", "barrier"}, UpdateIdentity(next)
      PROVE  StaysServed /\ Redials'
  <2>1. /\ stage = "select" /\ stage' = next
        /\ respawn' = [p \in Peers |-> connecting[p].attempt]
        /\ connecting' = [p \in Peers |-> NoConnecting]
        /\ tx_worker_handle_map' = {}
        /\ UNCHANGED tx_queues
    BY <1>7 DEF UpdateIdentity, Remembered, AbortedConnecting
  <2>2. \A p \in Peers : ~(respawn[p] > 0)
    BY <2>1 DEF Redials
  <2>3. StaysServed
    BY <1>c, <2>1, <2>2 DEF StaysServed, Served, IsConnecting
  <2>4. Redials'
    BY <2>1 DEF Redials, IsConnecting, NoConnecting
  <2>5. QED BY <2>3, <2>4
<1>8. CASE BarrierReleased \/ HandleTaskletResult \/ InletClosed
  BY <1>d, <1>8 DEF BarrierReleased, HandleTaskletResult, InletClosed
<1>9. ASSUME NEW changed \in SUBSET tx_worker_handle_map,
             HandleRemotePeerAddrChange(changed)
      PROVE  StaysServed /\ Redials'
  BY <1>d, <1>9 DEF HandleRemotePeerAddrChange
<1>10. ASSUME NEW p \in Peers, NEW i \in Identities,
              \/ SendEnds(p, i) \/ WorkerStep(p, i)
              \/ \E error \in {"connection_lost", "version_mismatch"} :
                   WorkerConnectionClosed(p, i, error)
              \/ DrainJoin(p, i)
       PROVE  StaysServed /\ Redials'
  <2>1. UNCHANGED workerFrame
    BY <1>10 DEF SendEnds, WorkerStep, SendOk, SendFailed, WorkerRecv, WorkerInletClosed,
                 WorkerCanceled, WorkerConnectionClosed, DrainJoin
  <2>2. QED BY <1>d, <2>1 DEF workerFrame
<1>11. ASSUME NEW p \in Peers, GracePeriodElapses(p) PROVE StaysServed /\ Redials'
  BY <1>d, <1>11 DEF GracePeriodElapses
<1>12. CASE UNCHANGED vars
  BY <1>d, <1>12 DEF vars
<1>13. CASE Ended
  BY <1>12, <1>13 DEF Ended
<1>14. QED
  BY <1>1, <1>2, <1>3, <1>4, <1>5, <1>6, <1>7, <1>8, <1>9, <1>10, <1>11, <1>12,
     <1>13 DEF Next

\* Whatever ends an attempt or a worker, the transactions queued for a peer are
\* answered or the peer is dialled again; the panic of an attempt's task is the
\* only exception.
THEOREM QueuesStayServed == Spec => QueueStaysServed
<1>1. Init => Redials
  BY DEF Init, Redials, IsConnecting, NoConnecting
<1>2. IInv /\ Redials /\ [Next]_vars => [StaysServed]_vars /\ Redials'
  BY NextServes
<1>3. Spec => [][StaysServed]_vars
  BY <1>1, <1>2, BookkeepingConsistent, PTL DEF Spec
<1>4. QED BY <1>3 DEF QueueStaysServed, StaysServed
=============================================================================
