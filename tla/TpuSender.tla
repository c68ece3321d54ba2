----------------------------- MODULE TpuSender -----------------------------
(***************************************************************************)
(* YellowstoneTpuSender (crates/tpu-client): the sender in front of the    *)
(* driver and the four background tasks it depends on.  The slot tracker   *)
(* follows a geyser stream, the managed leader schedule keeps the leaders  *)
(* of two epochs, the TPU info service keeps the addresses of the leaders  *)
(* and the stake service their stakes, of which only the task matters      *)
(* here.  A send reads the slot, then the schedule, then an address per    *)
(* leader, and puts a copy per leader on the driver's channel, while those *)
(* tasks write, fail and are aborted and joined by the overseer.           *)
(*                                                                         *)
(* A schedule fetched from the RPC node is named by its epoch: what it     *)
(* says of a slot is ScheduleGet.  The chain produces the slots of         *)
(* Produced only.                                                          *)
(***************************************************************************)
EXTENDS Naturals, Sequences, FiniteSets, SequencesExt

CONSTANTS
  Senders,        \* clones of the sender, each used by one thread
  Leaders,        \* validator identities
  Default,        \* Pubkey::default(), for an entry whose key does not parse
  LeaderOf,       \* leader of each group of four slots
  Produced,       \* slots the cluster produces
  SlotsPerEpoch,  \* DEFAULT_SLOTS_PER_EPOCH
  FanoutSlots,    \* config.tpu.send_fanout_slots
  Lookahead,      \* config.tpu.leader_prediction_lookahead, 0 for None
  Topologies,     \* answers of getClusterNodes: addresses of some leaders
  Capacity,       \* capacity of the driver's channel
  RpcMayLag,      \* whether the RPC node may be an epoch behind
  MaxSends,       \* bound: transactions sent by each thread
  MaxFaults       \* bound: panics, lost streams, failed requests

ASSUME SenderAssumption ==
  /\ IsFiniteSet(Senders) /\ Senders # {}
  /\ Default \in Leaders /\ Produced \subseteq Nat /\ IsFiniteSet(Produced) /\ Produced # {}
  /\ SlotsPerEpoch \in Nat \ {0} /\ SlotsPerEpoch % 4 = 0 /\ FanoutSlots \in Nat \ {0}
  /\ Lookahead \in Nat
  /\ LeaderOf \in [0..((CHOOSE m \in Produced : \A n \in Produced : n <= m)
                       + FanoutSlots + 2 * SlotsPerEpoch) -> Leaders]
  /\ \A t \in Topologies : DOMAIN t \subseteq Leaders /\ t = [l \in DOMAIN t |-> t[l]]
  /\ Capacity \in Nat \ {0} /\ RpcMayLag \in BOOLEAN
  /\ MaxSends \in Nat /\ MaxFaults \in Nat

VARIABLES
  tip,       \* newest slot the cluster has produced
  tracker,   \* AtomicSlotTracker and the local state of its task
  schedule,  \* InnerManagedLeaderSchedule and current_epoch of its loop
  tpu_info,  \* addresses known by RpcClusterTpuQuicInfoService
  task,      \* state of each dependency task
  creation,  \* progress of create_yellowstone_tpu_sender_with_clients
  overseer,  \* state of yellowstone_tpu_deps_overseer_inner
  handles,   \* senders not dropped yet
  driver,    \* the driver task: its channel, and whether it runs
  send,      \* the call each thread is in
  faults

vars == <<tip, tracker, schedule, tpu_info, task, creation, overseer,
          handles, driver, send, faults>>

services == <<tracker, schedule, tpu_info>>
lifecycle == <<task, creation, overseer, handles>>

\* The dependencies in the order in which they are created.
Dependencies == <<"tpu-info-service", "managed-leader-schedule", "stake-info-service",
                  "slot-tracker">>

Tasks == ToSet(Dependencies)

\* Those that mark what they leave behind.
Guarded == {"managed-leader-schedule", "slot-tracker"}

\* A task that was told to abort is dropped at its next await, and its handle
\* is ready once the drop is done.
TaskStates == {"none", "running", "aborting", "dropped", "ended"}

EpochOf(slot) == slot \div SlotsPerEpoch

LastProduced == CHOOSE m \in Produced : \A n \in Produced : n <= m

Epochs == 0..(EpochOf(LastProduced) + 1)

Errors == {"SlotTrackerDisconnected", "ManagedLeaderScheduleDisconnected", "UnknownLeader",
           "Full", "Closed"}

\* No address is known.
NoInfo == [l \in {} |-> {}]

\* Where a thread stands in send_txn_fanout.
Call == [pc : {"idle", "slot", "leaders", "sending"},
         n : 0..MaxSends,                            \* calls begun
         slot : Produced \cup {0},                   \* what load() returned
         leaders : Seq(Leaders),                     \* still to be sent to
         dedupe : BOOLEAN,                           \* dedupe_by_addr
         sent_addr : {{}} \cup {{a} : a \in UNION {Range(t) : t \in Topologies}},
         queued : SUBSET Leaders,                    \* copies put on the channel
         sent_any : BOOLEAN,
         error : Errors \cup {"none"},               \* first_error
         result : Errors \cup {"none", "ok"}]        \* of the last call

Idle(n, queued, result) ==
  [pc |-> "idle", n |-> n, slot |-> 0, leaders |-> <<>>, dedupe |-> FALSE, sent_addr |-> {},
   queued |-> queued, sent_any |-> FALSE, error |-> "none", result |-> result]

TypeOK ==
  /\ tip \in Produced
  /\ tracker \in [slot : Produced \cup {0}, closed : BOOLEAN,
                  stream : {"up", "storing", "down"}, current : Produced \cup {0}]
  /\ schedule \in [buffer : Epochs \X Epochs, fail : BOOLEAN, epoch : Epochs,
                   pc : {"sleep", "fetch"}, seen : Epochs]
  /\ tpu_info \in Topologies \cup {NoInfo}
  /\ task \in [Tasks -> TaskStates]
  /\ creation \in {"running", "failed", "done"}
  /\ overseer \in [pc : {"none", "waiting", "aborted", "joining", "returned", "dropped"},
                   rest : Seq(Tasks)]
  /\ handles \in SUBSET Senders
  /\ driver \in [up : BOOLEAN, channel : Seq(Leaders)]
  /\ send \in [Senders -> Call]
  /\ faults \in 0..MaxFaults

Init ==
  /\ tip = CHOOSE m \in Produced : \A n \in Produced : m <= n
  /\ tracker = [slot |-> 0, closed |-> FALSE, stream |-> "down", current |-> 0]
  /\ schedule = [buffer |-> <<0, 0>>, fail |-> FALSE, epoch |-> 0, pc |-> "sleep", seen |-> 0]
  /\ tpu_info = NoInfo
  /\ task = [d \in Tasks |-> "none"]
  /\ creation = "running"
  /\ overseer = [pc |-> "none", rest |-> <<>>]
  /\ handles = {}
  /\ driver = [up |-> FALSE, channel |-> <<>>]
  /\ send = [s \in Senders |-> Idle(0, {}, "none")]
  /\ faults = 0

FaultHappens == faults < MaxFaults /\ faults' = faults + 1

-----------------------------------------------------------------------------
(***************************************************************************)
(* Leaders                                                                 *)
(***************************************************************************)

\* CompactSortedSchedule::get for the schedule of epoch e, as unnested from
\* the RPC answer.  A set, empty for None.
ScheduleGet(e, slot) ==
  IF EpochOf(slot) # e THEN {}
  ELSE LET first_slot == e * SlotsPerEpoch
       IN {LeaderOf[(first_slot \div 4) + (slot - first_slot) \div 4]}

\* Mutant: the first buffer is asked up to and including the boundary.
GetLeaderFromFirst(buffer, slot) ==
  ScheduleGet(IF slot > buffer[2] * SlotsPerEpoch THEN buffer[2] ELSE buffer[1], slot)

\* get_leader_from_schedules.
GetLeader(buffer, slot) ==
  ScheduleGet(IF slot >= buffer[2] * SlotsPerEpoch THEN buffer[2] ELSE buffer[1], slot)

\* (first..first+count).step_by(4), and the leaders found there, in order.
Stride(first, count) == [i \in 1..((count + 3) \div 4) |-> first + 4 * (i - 1)]

LeadersAt(buffer, slots) ==
  LET add(found, slot) == IF GetLeader(buffer, slot) = {} THEN found
                          ELSE Append(found, CHOOSE l \in GetLeader(buffer, slot) : TRUE)
  IN FoldLeft(add, <<>>, slots)

\* get_unique_leaders_for_slot_fanout.
UniqueLeaders(buffer, slot) ==
  LET add(found, l) == IF l \in ToSet(found) THEN found ELSE Append(found, l)
  IN FoldLeft(add, <<>>, LeadersAt(buffer, Stride(slot, FanoutSlots)))

\* Mutant: the prediction starts with the next leader.
PredictFromNext(slot, n) ==
  LeadersAt(schedule.buffer, [i \in 1..n |-> slot - (slot % 4) + 4 * i])

\* YellowstoneUpcomingLeader::try_predict_next_n_leaders, for a tracker that is
\* open at the slot and a schedule that has not failed.  The driver asks for
\* Lookahead leaders.
TryPredictNextNLeaders(slot, n) ==
  LeadersAt(schedule.buffer, [i \in 1..n |-> slot - (slot % 4) + 4 * (i - 1)])

-----------------------------------------------------------------------------
(***************************************************************************)
(* The cluster and its RPC node                                            *)
(***************************************************************************)

\* The next slot is produced.
Produce ==
  /\ \E m \in Produced : m > tip
  /\ tip' = CHOOSE m \in Produced : m > tip /\ \A n \in Produced : n > tip => m <= n
  /\ UNCHANGED <<services, lifecycle, driver, send, faults>>

\* getEpochInfo.
RpcEpochs ==
  {EpochOf(tip)} \cup (IF RpcMayLag /\ EpochOf(tip) > 0 THEN {EpochOf(tip) - 1} ELSE {})

-----------------------------------------------------------------------------
(***************************************************************************)
(* Creation and overseer                                                   *)
(***************************************************************************)

\* Mutant: the slot tracker was not handed to the dependencies.
AbortedButTracker(t) ==
  [d \in Tasks |-> IF t[d] = "running" /\ d # "slot-tracker" THEN "aborting" ELSE t[d]]

\* abort() of every dependency that was spawned.
Aborted(t) == [d \in Tasks |-> IF t[d] = "running" THEN "aborting" ELSE t[d]]

\* The creation awaits what the i-th dependency needs.
Awaits(i) ==
  /\ creation = "running"
  /\ task[Dependencies[i]] = "none" /\ \A j \in 1..(i - 1) : task[Dependencies[j]] # "none"

\* The state of a service is fetched for the first time; its task is spawned
\* and handed to the dependencies.  The slot tracker starts at the first slot
\* its stream delivers, which need not be the tip.
Fetches(d) ==
  /\ IF d = "tpu-info-service" THEN \E t \in Topologies : tpu_info' = t ELSE UNCHANGED tpu_info
  /\ IF d = "managed-leader-schedule"
       THEN \E e \in RpcEpochs :
              schedule' = [schedule EXCEPT !.buffer = <<e, e + 1>>, !.epoch = e]
       ELSE UNCHANGED schedule
  /\ IF d = "slot-tracker"
       THEN \E slot \in Produced :
              /\ slot <= tip
              /\ tracker' = [slot |-> slot, closed |-> FALSE, stream |-> "up", current |-> slot]
       ELSE UNCHANGED tracker

Create ==
  \E i \in 1..Len(Dependencies) :
    /\ Awaits(i)
    /\ Fetches(Dependencies[i])
    /\ task' = [task EXCEPT ![Dependencies[i]] = "running"]
    /\ UNCHANGED <<tip, creation, overseer, handles, driver, send, faults>>

\* wait_for_next_slot: no timeout ends it.
AwaitsFirstSlot == Awaits(Len(Dependencies))

\* A request fails, the stream ends before its first slot, or the caller drops
\* the future: `?` returns, and what was spawned is aborted.
CreationFails ==
  /\ \E i \in 1..Len(Dependencies) : Awaits(i)
  /\ FaultHappens
  /\ creation' = "failed"
  /\ task' = Aborted(task)
  /\ UNCHANGED <<tip, services, overseer, handles, driver, send>>

\* into_overseer, create_base_tpu_client and the sender itself: no await.
Created ==
  /\ creation = "running" /\ \A d \in Tasks : task[d] # "none"
  /\ creation' = "done"
  /\ overseer' = [pc |-> "waiting", rest |-> <<>>]
  /\ handles' = Senders
  /\ driver' = [up |-> TRUE, channel |-> <<>>]
  /\ UNCHANGED <<tip, services, task, send, faults>>

\* Lifecycle drop: shutdown.cancel() with the last sender.
Shutdown == creation = "done" /\ handles = {}

\* The overseer sees the shutdown: it aborts everything and goes on waiting
\* for the first handle.
OverseerAborts ==
  /\ overseer.pc = "waiting" /\ Shutdown
  /\ overseer' = [overseer EXCEPT !.pc = "aborted"]
  /\ task' = Aborted(task)
  /\ UNCHANGED <<tip, services, creation, handles, driver, send, faults>>

\* The handles select_all has left: it takes the ready one with swap_remove.
SwapRemove(seq, i) == [j \in 1..(Len(seq) - 1) |-> IF j = i THEN seq[Len(seq)] ELSE seq[j]]

\* The first handle is ready: everything is aborted (again), the rest is to be
\* awaited.
OverseerSelects(i) ==
  /\ overseer.pc \in {"waiting", "aborted"}
  /\ task[Dependencies[i]] = "ended"
  /\ overseer' = [pc |-> "joining", rest |-> SwapRemove(Dependencies, i)]
  /\ task' = Aborted(task)
  /\ UNCHANGED <<tip, services, creation, handles, driver, send, faults>>

\* Mutant: the overseer awaits the first handle only.
JoinedFirst == TRUE

\* No handle is left to await.
Joined == overseer.rest = <<>>

\* for handle in rest { handle.await }
OverseerJoins ==
  /\ overseer.pc = "joining" /\ overseer.rest # <<>>
  /\ task[Head(overseer.rest)] = "ended"
  /\ overseer' = [overseer EXCEPT !.rest = Tail(@)]
  /\ UNCHANGED <<tip, services, task, creation, handles, driver, send, faults>>

OverseerReturns ==
  /\ overseer.pc = "joining" /\ Joined
  /\ overseer' = [pc |-> "returned", rest |-> <<>>]
  /\ UNCHANGED <<tip, services, task, creation, handles, driver, send, faults>>

\* The overseer's own task is aborted; its guard aborts the dependencies.
OverseerDropped ==
  /\ overseer.pc \in {"waiting", "aborted", "joining"}
  /\ FaultHappens
  /\ overseer' = [pc |-> "dropped", rest |-> <<>>]
  /\ task' = Aborted(task)
  /\ UNCHANGED <<tip, services, creation, handles, driver, send>>

\* Mutant: the schedule is not marked.
MarkNothing(d) ==
  /\ tracker' = IF d = "slot-tracker" THEN [tracker EXCEPT !.closed = TRUE] ELSE tracker
  /\ UNCHANGED schedule

\* The drop guards: AutoCloseSlotTracker, MarkManagedLeaderScheduleFailedOnDrop.
MarkOnDrop(d) ==
  /\ tracker' = IF d = "slot-tracker" THEN [tracker EXCEPT !.closed = TRUE] ELSE tracker
  /\ schedule' = IF d = "managed-leader-schedule" THEN [schedule EXCEPT !.fail = TRUE]
                                                  ELSE schedule

\* The future of a task is dropped, and its guard with it.  Only a task that
\* has a guard is seen to be dropped before its handle is ready.
Drops(d) ==
  /\ d = "slot-tracker" => tracker.stream # "storing"
  /\ task' = [task EXCEPT ![d] = IF d \in Guarded THEN "dropped" ELSE "ended"]
  /\ MarkOnDrop(d)
  /\ UNCHANGED <<tip, tpu_info, creation, overseer, handles, driver, send>>

\* A task that was aborted reaches its next await.
TaskStops(d) == task[d] = "aborting" /\ Drops(d) /\ UNCHANGED faults

\* The last handle of its service is dropped: with the senders and the driver.
TaskCancelled(d) ==
  /\ task[d] = "running" /\ d # "slot-tracker"
  /\ Shutdown /\ ~driver.up
  /\ Drops(d) /\ UNCHANGED faults

\* A task panics, or is stopped by someone else.
TaskFails(d) == task[d] = "running" /\ FaultHappens /\ Drops(d)

\* The runtime completes the task: its handle is ready.
TaskEnds(d) ==
  /\ task[d] = "dropped"
  /\ task' = [task EXCEPT ![d] = "ended"]
  /\ UNCHANGED <<tip, services, creation, overseer, handles, driver, send, faults>>

\* A task that was aborted still finishes the poll it is in.
Runs(d) == task[d] \in {"running", "aborting"}

-----------------------------------------------------------------------------
(***************************************************************************)
(* Slot tracker                                                            *)
(***************************************************************************)

trackerFrame == <<tip, schedule, tpu_info, lifecycle, driver, send>>

\* process_slot_tracker_stream gets a slot update, which may be late or a
\* duplicate; a newer one is stored.
SlotUpdate(slot) ==
  /\ Runs("slot-tracker") /\ tracker.stream = "up"
  /\ slot \in Produced /\ slot <= tip
  /\ slot > tracker.current
  /\ tracker' = [tracker EXCEPT !.current = slot, !.slot = slot, !.stream = "storing"]
  /\ UNCHANGED <<trackerFrame, faults>>

\* The second half of store_slot.
StoreClosed ==
  /\ Runs("slot-tracker") /\ tracker.stream = "storing"
  /\ tracker' = [tracker EXCEPT !.closed = FALSE, !.stream = "up"]
  /\ UNCHANGED <<trackerFrame, faults>>

\* The stream ends or fails: mark_tracker_unavailable.
StreamLost ==
  /\ Runs("slot-tracker") /\ tracker.stream = "up"
  /\ FaultHappens
  /\ tracker' = [tracker EXCEPT !.closed = TRUE, !.stream = "down"]
  /\ UNCHANGED trackerFrame

\* Mutant: a new stream starts from scratch.
ResumedFromZero == 0

\* current_slot of a new stream.
Resumed == tracker.slot

\* subscribe_slot_tracker_once succeeds after some back-off.
StreamReconnected ==
  /\ task["slot-tracker"] = "running" /\ tracker.stream = "down"
  /\ tracker' = [tracker EXCEPT !.stream = "up", !.current = Resumed]
  /\ UNCHANGED <<trackerFrame, faults>>

-----------------------------------------------------------------------------
(***************************************************************************)
(* Leader schedule, addresses                                              *)
(***************************************************************************)

\* auto_leader_schedule_loop wakes up and gets the epoch.  When the request
\* fails it sleeps again (as if it had not woken up).
ScheduleWakes ==
  /\ task["managed-leader-schedule"] = "running" /\ schedule.pc = "sleep"
  /\ \E e \in RpcEpochs : schedule' = [schedule EXCEPT !.pc = "fetch", !.seen = e]
  /\ UNCHANGED <<tip, tracker, tpu_info, lifecycle, driver, send, faults>>

\* Mutant: on an epoch change the next schedule is left for the next check.
FetchedCurrentOnly ==
  IF schedule.seen = schedule.epoch
    THEN [schedule EXCEPT !.buffer[2] = schedule.epoch + 1]
    ELSE [schedule EXCEPT !.buffer[1] = schedule.seen, !.epoch = schedule.seen]

\* The next schedule only, or both when the epoch has changed.
Fetched ==
  IF schedule.seen = schedule.epoch
    THEN [schedule EXCEPT !.buffer[2] = schedule.epoch + 1]
    ELSE [schedule EXCEPT !.epoch = schedule.seen,
                          !.buffer = <<schedule.seen, schedule.seen + 1>>]

\* The schedules arrive and are written; or one is missing and all is kept.
ScheduleFetched(ok) ==
  /\ Runs("managed-leader-schedule") /\ schedule.pc = "fetch"
  /\ schedule' = [IF ok THEN Fetched ELSE schedule EXCEPT !.pc = "sleep", !.seen = 0]
  /\ UNCHANGED <<tip, tracker, tpu_info, lifecycle, driver, send, faults>>

\* Mutant: nodes that left the cluster stay.
DiffUpserts(current, new) ==
  [upsert |-> {l \in DOMAIN new : l \in DOMAIN current => current[l] # new[l]}, remove |-> {}]

\* detect_tpu_contact_info_diff.
Diff(current, new) ==
  [upsert |-> {l \in DOMAIN new : l \in DOMAIN current => current[l] # new[l]},
   remove |-> DOMAIN current \ DOMAIN new]

\* apply_diff_patch.
ApplyDiff(current, new, diff) ==
  [l \in (DOMAIN current \cup diff.upsert) \ diff.remove |->
     IF l \in diff.upsert THEN new[l] ELSE current[l]]

\* cluster_info_refresh_loop gets the nodes; after an error it goes on with the
\* ones it has.
RefreshTpuInfo ==
  /\ Runs("tpu-info-service")
  /\ \E new \in Topologies : tpu_info' = ApplyDiff(tpu_info, new, Diff(tpu_info, new))
  /\ UNCHANGED <<tip, tracker, schedule, lifecycle, driver, send, faults>>

-----------------------------------------------------------------------------
(***************************************************************************)
(* Sending                                                                 *)
(***************************************************************************)

Step(s, call) ==
  /\ send' = [send EXCEPT ![s] = call]
  /\ UNCHANGED <<tip, services, lifecycle, faults>>

Return(s, result) == Step(s, Idle(send[s].n, send[s].queued, result))

\* send_txn_fanout begins: load() reads closed first.
LoadClosed(s) ==
  /\ s \in handles /\ send[s].pc = "idle" /\ send[s].n < MaxSends
  /\ Step(s, IF tracker.closed
                THEN Idle(send[s].n + 1, {}, "SlotTrackerDisconnected")
                ELSE [Idle(send[s].n + 1, {}, "none") EXCEPT !.pc = "slot"])
  /\ UNCHANGED driver

\* load() then reads the slot.
LoadSlot(s) ==
  /\ send[s].pc = "slot"
  /\ Step(s, [send[s] EXCEPT !.pc = "leaders", !.slot = tracker.slot])
  /\ UNCHANGED driver

\* Mutant: the slot is loaded a second time for the lookup.
SlotLoadedAgain(s) == tracker.slot

\* The slot of the window: the one the call loaded, however old it is by now.
SlotLoaded(s) == send[s].slot

\* The leaders are read under one read lock.
Lookup(s) ==
  /\ send[s].pc = "leaders"
  /\ LET leaders == UniqueLeaders(schedule.buffer, SlotLoaded(s))
     IN CASE schedule.fail -> Return(s, "ManagedLeaderScheduleDisconnected")
          [] ~schedule.fail /\ leaders = <<>> -> Return(s, "UnknownLeader")
          [] OTHER -> Step(s, [send[s] EXCEPT !.pc = "sending", !.leaders = leaders,
                                              !.dedupe = Len(leaders) > 1])
  /\ UNCHANGED driver

\* get_quic_dest_addr: empty for None.
DestAddr(leader) == IF leader \in DOMAIN tpu_info THEN {tpu_info[leader]} ELSE {}

\* try_send_txn.
TrySend == CASE ~driver.up                         -> "Closed"
             [] driver.up /\ Len(driver.channel) >= Capacity -> "Full"
             [] OTHER                              -> "ok"

\* Mutant: the address is remembered although nothing was sent there.
RememberedAnyway(call, addr, res) == IF addr = {} THEN call.sent_addr ELSE addr

\* sent_addr after a copy was offered.
Remembered(call, addr, res) ==
  IF addr = {} \/ res # "ok" THEN call.sent_addr ELSE addr

\* send_txn_to_leader for the first of the leaders: a leader at the address of
\* the last copy needs none.
SendToLeader(s) ==
  /\ send[s].pc = "sending" /\ send[s].leaders # <<>>
  /\ LET call == send[s]
         leader == Head(call.leaders)
         addr == IF call.dedupe THEN DestAddr(leader) ELSE {}
         served == addr # {} /\ addr = call.sent_addr
         res == IF served THEN "ok" ELSE TrySend
         offered == res = "ok" /\ ~served
     IN /\ Step(s, [call EXCEPT
             !.leaders = Tail(@),
             !.sent_addr = Remembered(call, addr, res),
             !.sent_any = @ \/ res = "ok",
             !.error = IF @ = "none" /\ res # "ok" THEN res ELSE @,
             !.queued = IF offered THEN @ \cup {leader} ELSE @])
        /\ driver' = IF offered THEN [driver EXCEPT !.channel = Append(@, leader)] ELSE driver

\* The loop over the leaders is done.
SendReturns(s) ==
  /\ send[s].pc = "sending" /\ send[s].leaders = <<>>
  /\ Return(s, IF send[s].sent_any THEN "ok" ELSE send[s].error)
  /\ UNCHANGED driver

DropSender(s) ==
  /\ s \in handles /\ send[s].pc = "idle"
  /\ handles' = handles \ {s}
  /\ UNCHANGED <<tip, services, task, creation, overseer, driver, send, faults>>

\* The driver takes a transaction from its channel.
DriverTakes ==
  /\ driver.up /\ driver.channel # <<>>
  /\ driver' = [driver EXCEPT !.channel = Tail(@)]
  /\ UNCHANGED <<tip, services, lifecycle, send, faults>>

\* The driver's task ends: the channel has no sender left, or it panics.
DriverEnds ==
  /\ driver.up
  /\ \/ handles = {} /\ driver.channel = <<>> /\ UNCHANGED faults
     \/ FaultHappens
  /\ driver' = [up |-> FALSE, channel |-> <<>>]
  /\ UNCHANGED <<tip, services, lifecycle, send>>

-----------------------------------------------------------------------------
Next ==
  \/ Produce \/ Create \/ CreationFails \/ Created
  \/ OverseerAborts \/ \E i \in 1..Len(Dependencies) : OverseerSelects(i)
  \/ OverseerJoins \/ OverseerReturns
  \/ OverseerDropped
  \/ \E d \in Tasks : TaskStops(d) \/ TaskCancelled(d) \/ TaskFails(d) \/ TaskEnds(d)
  \/ \E slot \in Produced : SlotUpdate(slot)
  \/ StoreClosed \/ StreamLost \/ StreamReconnected
  \/ ScheduleWakes \/ \E ok \in BOOLEAN : ScheduleFetched(ok)
  \/ RefreshTpuInfo
  \/ \E s \in Senders : \/ LoadClosed(s) \/ LoadSlot(s) \/ Lookup(s)
                         \/ SendToLeader(s) \/ SendReturns(s) \/ DropSender(s)
  \/ DriverTakes \/ DriverEnds

\* The overseer's future is polled.
OverseerSteps ==
  \/ OverseerAborts \/ \E i \in 1..Len(Dependencies) : OverseerSelects(i)
  \/ OverseerJoins \/ OverseerReturns

\* Tokio polls what is ready: a task that was aborted is dropped and completed,
\* and the overseer is polled when a handle is ready.  Requests to the RPC node
\* are answered or time out; the first slot may never come.
Fairness ==
  /\ WF_vars(~AwaitsFirstSlot /\ (Create \/ CreationFails)) /\ WF_vars(Created)
  /\ WF_vars(OverseerSteps)
  /\ WF_vars(StoreClosed \/ \E d \in Tasks : TaskStops(d) \/ TaskEnds(d))

Spec == Init /\ [][Next]_vars /\ Fairness

-----------------------------------------------------------------------------
(***************************************************************************)
(* Properties                                                              *)
(***************************************************************************)

\* What a call reports is what it did: Ok when a copy is on the channel, an
\* error when none is, although leaders that share an address are skipped, the
\* channel fills up and the driver ends between two leaders (send_txn_fanout).
ResultIsTruthful ==
  \A s \in Senders : send[s].result # "none" => (send[s].result = "ok") = (send[s].queued # {})

Window(slot) == {LeaderOf[n \div 4] : n \in slot..(slot + FanoutSlots - 1)}

\* A copy is for a leader of the window that starts at the slot the call read,
\* and no leader is sent to twice, whichever epochs the double buffer held
\* (get_unique_leaders_for_slot_fanout).
CopiesWithinWindow ==
  \A s \in Senders :
    send[s].pc = "sending" =>
      /\ send[s].queued \cup ToSet(send[s].leaders) \subseteq Window(send[s].slot)
      /\ send[s].queued \cap ToSet(send[s].leaders) = {}
      /\ IsInjective(send[s].leaders)

\* A call is right about what it did, and did it to the leaders of one window,
\* whatever changes while it runs (send_txn_fanout, send_txn_to_leader).
CallsAreSound == ResultIsTruthful /\ CopiesWithinWindow

\* The double buffer holds an epoch and the one after it, so its second half
\* decides between them (get_leader_from_schedules), across epoch changes,
\* failed fetches and an RPC node that is behind.
BufferContiguous ==
  task["managed-leader-schedule"] # "none" =>
    schedule.buffer = <<schedule.epoch, schedule.epoch + 1>>

\* The schedule covers the window of the slot senders read.
WindowKnown ==
  /\ tracker.slot # 0
  /\ {EpochOf(tracker.slot), EpochOf(tracker.slot + FanoutSlots - 1)} \subseteq ToSet(schedule.buffer)

\* "The send path starts at the current slot and sends to each unique leader in
\* this slot window" (config.rs, send_fanout_slots), when the schedule has them.
SendsToEachLeader ==
  WindowKnown => Window(tracker.slot) \subseteq ToSet(UniqueLeaders(schedule.buffer, tracker.slot))

\* What holds of it in the code: the leaders sent to are those of the window
\* except perhaps the leader of its last group, which sampling every fourth
\* slot steps over when the slot is not the first of its group (step_by(4)).
WindowMissesOnlyLastGroup ==
  WindowKnown =>
    Window(tracker.slot) \ {LeaderOf[(tracker.slot + FanoutSlots - 1) \div 4]}
      \subseteq ToSet(UniqueLeaders(schedule.buffer, tracker.slot))

\* When the driver looks ahead by as many leaders as the fanout has groups, it
\* predicts connections to every leader a send would choose now
\* (try_predict_next_n_leaders against get_unique_leaders_for_slot_fanout).
PredictionCoversFanout ==
  tracker.slot # 0 /\ Lookahead >= (FanoutSlots + 3) \div 4 =>
    ToSet(UniqueLeaders(schedule.buffer, tracker.slot))
      \subseteq ToSet(TryPredictNextNLeaders(tracker.slot, Lookahead))

\* The addresses are those of one answer of getClusterNodes, never a mix with
\* nodes that have left (detect_tpu_contact_info_diff, apply_diff_patch).
TpuInfoIsSnapshot == task["tpu-info-service"] # "none" => tpu_info \in Topologies

\* What the background tasks keep for the senders is never a mix of two
\* answers of the RPC node: two epochs in a row, the nodes of one moment
\* (auto_leader_schedule_loop, cluster_info_refresh_loop).
CachesConsistent == TypeOK /\ BufferContiguous /\ TpuInfoIsSnapshot

\* A send covers the window of slots it is for up to its last group, and the
\* predictions cover the send, across the boundary of an epoch.
WindowCovered == WindowMissesOnlyLastGroup /\ PredictionCoversFanout

\* Once the overseer has returned, no task that was aborted in the middle of a
\* poll writes any more, and the senders that are left know it: no call gets a
\* slot or leaders again, so none that had not begun to send puts a copy on the
\* channel ("returning from the overseer is a cleanup barrier").
CleanupBarrier ==
  [][overseer.pc = "returned" =>
       /\ services' = services
       /\ \A s \in Senders : send'[s].pc \in {"slot", "sending"} => send'[s].pc = send[s].pc]_vars

\* The slot senders read never goes back, although updates are late or
\* repeated and the stream is replaced (process_slot_tracker_stream).
SlotNeverGoesBack == [][tracker'.slot >= tracker.slot]_tracker

AllStopped ==
  /\ \A d \in Tasks : task[d] \in {"none", "ended"}
  /\ task["slot-tracker"] = "ended" => tracker.closed
  /\ task["managed-leader-schedule"] = "ended" => schedule.fail

\* When a dependency ends, the last sender is dropped or the creation fails,
\* every dependency stops for good and says so to the senders that are left;
\* unless the creation waits for a first slot that never comes, which nobody
\* interrupts but the caller.
StopTogether ==
  (Shutdown \/ creation = "failed" \/ \E d \in Tasks : task[d] = "ended")
    ~> ([]AllStopped \/ []AwaitsFirstSlot)
=============================================================================
