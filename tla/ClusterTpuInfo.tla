--------------------------- MODULE ClusterTpuInfo ---------------------------
(***************************************************************************)
(* ClusterTpuInfo (apps/jet/src/cluster_tpu_info.rs): the latest slot, the *)
(* leader schedule and the contact info that one task keeps up to date and *)
(* the others read under a lock.                                           *)
(*                                                                         *)
(* The task follows the slot updates of a broadcast channel, whose sender  *)
(* never waits: a receiver that is slow loses the oldest updates and is    *)
(* told so once.  The loop does not read the channel while it fetches the  *)
(* schedule of a new epoch.                                                *)
(***************************************************************************)
EXTENDS Naturals, Sequences, FiniteSets, SequencesExt

CONSTANTS
  Peers,
  Leader,          \* the cluster's schedule: window number -> peer
  EpochSlots,      \* slots of an epoch
  Retention,       \* LEADER_SCHEDULE_RETENTION_SLOTS
  UpdateCapacity,  \* capacity of the broadcast channel
  Heard,           \* slots the updates are about
  NodeSets,        \* answers of get_cluster_nodes: sets of peers
  Named,           \* leaders an answer of get_leader_schedule can name
  MaxUpdates,      \* bound: slot updates
  MaxNodeChanges   \* bound: changes of the contact info

NUM_CONSECUTIVE_LEADER_SLOTS == 4
WindowOf(s) == s \div NUM_CONSECUTIVE_LEADER_SLOTS
LeaderSlots == 0..(NUM_CONSECUTIVE_LEADER_SLOTS * Cardinality(DOMAIN Leader) - 1)

ASSUME ClusterAssumption ==
  /\ IsFiniteSet(DOMAIN Leader) /\ Leader \in [0..(Cardinality(DOMAIN Leader) - 1) -> Peers]
  /\ EpochSlots \in Nat \ {0} /\ EpochSlots % NUM_CONSECUTIVE_LEADER_SLOTS = 0
  /\ UpdateCapacity \in Nat \ {0}
  /\ Heard \subseteq LeaderSlots /\ NodeSets \subseteq SUBSET Peers /\ Named \subseteq SUBSET Peers
  /\ {Retention, MaxUpdates, MaxNodeChanges} \subseteq Nat

VARIABLES
  slot,             \* latest_seen_slot
  leader_schedule,  \* slot -> leader, of some slots
  cluster_nodes,    \* the peers with contact info
  updates,          \* the broadcast channel, as its receiver will see it
  follow,           \* update_latest_slot_and_leader_schedule
  cluster           \* bounds: updates and changes so far; history: slots lost by
                    \* lagging, the last slot fetched for, the leaders not named

clusterVars == <<slot, leader_schedule, cluster_nodes, updates, follow, cluster>>

\* counts: neither SlotConfirmed nor SlotFinalized.
Update == [slot : Heard, counts : BOOLEAN]

ClusterTypeOK ==
  /\ slot \in {0} \cup Heard
  /\ DOMAIN leader_schedule \subseteq LeaderSlots
  /\ \A s \in DOMAIN leader_schedule : leader_schedule[s] \in Peers
  /\ cluster_nodes \in {{}} \cup NodeSets
  /\ updates.queue \in Seq(Update) /\ Len(updates.queue) <= UpdateCapacity
  /\ updates.lagged \in BOOLEAN
  /\ follow \in [pc : {"recv", "drain", "fetch", "ended"}, new_latest_slot : {0} \cup Heard]
  /\ cluster \in [updates : 0..MaxUpdates, changes : 0..MaxNodeChanges, missed : SUBSET Heard,
                 fetched : {0} \cup Heard, unnamed : SUBSET Peers]

ClusterInit ==
  /\ slot = 0
  /\ leader_schedule = <<>>
  /\ cluster_nodes = {}
  /\ updates = [queue |-> <<>>, lagged |-> FALSE]
  /\ follow = [pc |-> "recv", new_latest_slot |-> 0]
  /\ cluster = [updates |-> 0, changes |-> 0, missed |-> {}, fetched |-> 0, unnamed |-> {}]

Waits == [pc |-> "recv", new_latest_slot |-> 0]

-----------------------------------------------------------------------------
\* The geyser subscriber broadcasts; updates come in any order.
SlotUpdateSent(update) ==
  /\ cluster.updates < MaxUpdates
  /\ IF Len(updates.queue) < UpdateCapacity
       THEN /\ updates' = [updates EXCEPT !.queue = Append(@, update)]
            /\ cluster' = [cluster EXCEPT !.updates = @ + 1]
       ELSE /\ updates' = [queue |-> Append(Tail(updates.queue), update), lagged |-> TRUE]
            /\ cluster' = [cluster EXCEPT !.updates = @ + 1,
                                          !.missed = @ \cup {Head(updates.queue).slot}]
  /\ UNCHANGED <<slot, leader_schedule, cluster_nodes, follow>>

\* slots_rx.recv(): an update that counts is followed up; lagging ends the task.
RecvSlotUpdate ==
  /\ follow.pc = "recv"
  /\ \/ /\ updates.lagged
        /\ follow' = [follow EXCEPT !.pc = "ended"]
        /\ UNCHANGED updates
     \/ /\ ~updates.lagged /\ updates.queue # <<>>
        /\ updates' = [updates EXCEPT !.queue = Tail(@)]
        /\ follow' = IF Head(updates.queue).counts
                       THEN [pc |-> "drain", new_latest_slot |-> Head(updates.queue).slot]
                       ELSE follow
  /\ UNCHANGED <<slot, leader_schedule, cluster_nodes, cluster>>

\* The pending updates, which try_recv returns until it finds none, or an error
\* that tells of the lag, which is passed over here.
Pending == IF updates.lagged THEN <<>> ELSE updates.queue

CountedSlots(queue) == {queue[i].slot : i \in {j \in DOMAIN queue : queue[j].counts}}

\* Mutant: the last update drained is taken for the highest.
HighestIsLast(s, queue) ==
  LET counted == SelectSeq(queue, LAMBDA u : u.counts)
  IN IF counted = <<>> THEN s ELSE Last(counted).slot

\* The highest slot of the first update and those drained after it.
Highest(s, queue) == Max(CountedSlots(queue) \cup {s})

\* max_slot < new_latest_slot.
IsNew(s) == slot < s

\* Mutant: a schedule that holds anything will do.
NeedScheduleUpdateIfEmpty(s) == DOMAIN leader_schedule = {}

NeedScheduleUpdate(s) == s \notin DOMAIN leader_schedule

\* The rest is drained, and a new slot stored.
DrainSlotUpdates ==
  /\ follow.pc = "drain"
  /\ LET new == Highest(follow.new_latest_slot, Pending)
     IN /\ updates' = IF updates.lagged THEN [updates EXCEPT !.lagged = FALSE]
                                        ELSE [updates EXCEPT !.queue = <<>>]
        /\ slot' = IF IsNew(new) THEN new ELSE slot
        /\ follow' = IF IsNew(new) /\ NeedScheduleUpdate(new)
                       THEN [follow EXCEPT !.pc = "fetch", !.new_latest_slot = 0] ELSE Waits
  /\ UNCHANGED <<leader_schedule, cluster_nodes, cluster>>

EpochStart(s) == s - (s % EpochSlots)

\* get_leader_schedule(Some(s)): the leaders of the epoch of s, by slot index, as
\* far as the answer names them by a key that parses.
RpcLeaderSchedule(s, named) ==
  [i \in {j \in 0..(EpochSlots - 1) : /\ EpochStart(s) + j \in LeaderSlots
                                      /\ Leader[WindowOf(EpochStart(s) + j)] \in named} |->
     Leader[WindowOf(EpochStart(s) + i)]]

AbsoluteSlot(s, i) == EpochStart(s) + i

\* The schedule arrives (after errors and empty answers, which are retried):
\* old entries go, those of the epoch come, the slots of a leader whose key does
\* not parse are passed over, and an answer without the slot asked for will do.
LeaderScheduleFetched(named) ==
  /\ follow.pc = "fetch"
  /\ LET answer == RpcLeaderSchedule(slot, named)
         retained == {s \in DOMAIN leader_schedule : s + Retention > slot}
         added == {AbsoluteSlot(slot, i) : i \in DOMAIN answer}
     IN leader_schedule' = [s \in retained \cup added |->
          IF s \in added THEN answer[CHOOSE i \in DOMAIN answer : AbsoluteSlot(slot, i) = s]
          ELSE leader_schedule[s]]
  /\ follow' = Waits
  /\ cluster' = [cluster EXCEPT !.fetched = slot, !.unnamed = Peers \ named]
  /\ UNCHANGED <<slot, cluster_nodes, updates>>

\* update_cluster_nodes; the two loops end together.
ClusterNodesUpdated(nodes) ==
  /\ follow.pc # "ended" /\ nodes # cluster_nodes
  /\ cluster.changes < MaxNodeChanges
  /\ cluster_nodes' = nodes
  /\ cluster' = [cluster EXCEPT !.changes = @ + 1]
  /\ UNCHANGED <<slot, leader_schedule, updates, follow>>

\* The elements of a sequence that are in S, in their order.
Filtered(seq, S) ==
  LET kept[n \in 0..Len(seq)] ==
        IF n = 0 THEN <<>>
        ELSE IF seq[n] \in S THEN Append(kept[n - 1], seq[n]) ELSE kept[n - 1]
  IN kept[Len(seq)]

\* The first slots of the windows 0..=count from the present one.
Lookahead(count) == [i \in 1..(count + 1) |-> slot + (i - 1) * NUM_CONSECUTIVE_LEADER_SLOTS]

\* get_tpu_info finds a leader that has contact info.
Reachable == {s \in DOMAIN leader_schedule : leader_schedule[s] \in cluster_nodes}

\* get_leader_tpus: the leaders of those windows that are known and reachable.
LeaderTpus(count) ==
  LET slots == Filtered(Lookahead(count), Reachable)
  IN [i \in DOMAIN slots |-> leader_schedule[slots[i]]]

FollowStep == RecvSlotUpdate \/ DrainSlotUpdates

ClusterStep ==
  \/ \E update \in Update : SlotUpdateSent(update)
  \/ FollowStep
  \/ \E named \in Named : LeaderScheduleFetched(named)
  \/ \E nodes \in NodeSets : ClusterNodesUpdated(nodes)

-----------------------------------------------------------------------------
\* The schedule never names a wrong leader, and the leader of the latest slot is
\* known, whatever epochs the slots jump over, unless the schedule is just being
\* fetched or the answer to the fetch for this very slot left its leader out: a
\* slot without a leader is asked for each time the slot advances
\* (update_latest_slot_and_leader_schedule).
ScheduleFollowsSlot ==
  /\ \A s \in DOMAIN leader_schedule : leader_schedule[s] = Leader[WindowOf(s)]
  /\ slot # 0 /\ follow.pc # "fetch" =>
       \/ slot \in DOMAIN leader_schedule
       \/ cluster.fetched = slot /\ Leader[WindowOf(slot)] \in cluster.unnamed

\* The slot of an update that is broadcast is reached, in spite of the time the
\* loop spends fetching, unless a fetch goes on for ever, or it was lost by
\* lagging: and then, but for a lag found while draining, the task has ended.  In
\* whatever order updates come, latest_seen_slot never goes back.
SlotFollowed ==
  /\ [][slot' >= slot]_clusterVars
  /\ \A s \in Heard :
       s \in CountedSlots(updates.queue) ~>
         \/ slot >= s \/ follow.pc = "ended" \/ s \in cluster.missed
         \/ [](follow.pc = "fetch")
=============================================================================
