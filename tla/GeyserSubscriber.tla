-------------------------- MODULE GeyserSubscriber --------------------------
(***************************************************************************)
(* The slot tracking of GeyserSubscriber (apps/jet/src/grpc_geyser.rs):    *)
(* slot statuses and block metadata of one slot come in any order, and the *)
(* metadata is emitted once for each commitment level, when both are       *)
(* there.  Emissions are sent one by one on a bounded channel, and no      *)
(* message is read meanwhile.  The tracking lives as long as the stream.   *)
(*                                                                         *)
(* The environment is the cluster behind the gRPC server.  Three things    *)
(* are assumed of it: it finalizes slots in order and produces nothing     *)
(* more of slots below a finalized one; the levels of a slot go up, though *)
(* some may be left out; and no level and no metadata is said twice, also  *)
(* not on a later stream (handle_slot_update would emit it again).  What   *)
(* it produces while no stream is open is lost.                            *)
(***************************************************************************)
EXTENDS Naturals, Sequences

CONSTANTS
  Slots,       \* a set of natural numbers
  MaxStreams   \* bound: streams opened

ASSUME GeyserAssumption ==
  /\ Slots \subseteq Nat
  /\ MaxStreams \in Nat

Levels == 1..3
Finalized == 3
Other == 0   \* a status that is no commitment: first shred, completed, dead...

VARIABLES
  cluster,         \* commitment level of each slot in the cluster
  produced,        \* slots whose block metadata the cluster has produced
  streams,         \* streams opened so far
  open,            \* a stream is open
  received,        \* somebody holds the receiver of transactions_tx
  statuses_seen,   \* slot_tracking: statuses of each slot
  has_block_meta,  \* slot_tracking: slots with metadata
  outbox,          \* emissions of the message being handled
  emitted,         \* pairs <<slot, level>> sent
  level,           \* the level last sent for each slot, 0 for none
  seen,            \* history: statuses read from this stream
  metas            \* history: slots whose metadata was read from this stream

vars == <<cluster, produced, streams, open, received, statuses_seen, has_block_meta,
          outbox, emitted, level, seen, metas>>

clusterVars == <<cluster, produced>>
trackingVars == <<statuses_seen, has_block_meta>>

TypeOK ==
  /\ cluster \in [Slots -> Levels \cup {0}]
  /\ produced \in SUBSET Slots
  /\ streams \in 0..MaxStreams
  /\ open \in BOOLEAN /\ received \in BOOLEAN
  /\ statuses_seen \in [Slots -> SUBSET (Levels \cup {Other})]
  /\ has_block_meta \in SUBSET Slots
  /\ outbox \in Seq(Slots \X Levels)
  /\ emitted \in SUBSET (Slots \X Levels)
  /\ level \in [Slots -> Levels \cup {0}]
  /\ seen \in SUBSET (Slots \X Levels)
  /\ metas \in SUBSET Slots

NoStatuses == [sl \in Slots |-> {}]

Init ==
  /\ cluster = [sl \in Slots |-> 0]
  /\ produced = {}
  /\ streams = 0
  /\ open = FALSE
  /\ received = TRUE
  /\ statuses_seen = NoStatuses
  /\ has_block_meta = {}
  /\ outbox = <<>>
  /\ emitted = {}
  /\ level = [sl \in Slots |-> 0]
  /\ seen = {}
  /\ metas = {}

-----------------------------------------------------------------------------
(***************************************************************************)
(* The cluster.                                                            *)
(***************************************************************************)
Alive(sl) == \A higher \in Slots : higher > sl => cluster[higher] # Finalized

\* Slot sl reaches a higher level, not always the next one; abandoned slots
\* stay where they are.
Reaches(sl, status) ==
  /\ status > cluster[sl]
  /\ status \in Levels
  /\ Alive(sl)
  /\ cluster' = [cluster EXCEPT ![sl] = status]
  /\ UNCHANGED produced

ProducesMeta(sl) ==
  /\ sl \notin produced
  /\ Alive(sl)
  /\ produced' = produced \cup {sl}
  /\ UNCHANGED cluster

Lost ==
  /\ ~open
  /\ \E sl \in Slots : ProducesMeta(sl) \/ \E status \in Levels : Reaches(sl, status)
  /\ UNCHANGED <<streams, open, received, trackingVars, outbox, emitted, level, seen, metas>>

(***************************************************************************)
(* The subscriber.                                                         *)
(***************************************************************************)

\* process_grpc_stream is at its select!.
Reads == open /\ outbox = <<>>

\* Mutant: a status is emitted without its metadata.
EmittedWithoutMeta(sl, status) == <<<<sl, status>>>>

\* "Check if we should emit block meta".
EmittedByStatus(sl, status) ==
  IF sl \in has_block_meta THEN <<<<sl, status>>>> ELSE <<>>

\* Mutant: the finalized slot goes too.
KeptAbove(slot, sl) == sl > slot

\* split_off(&slot).
Kept(slot, sl) == sl >= slot

\* handle_slot_update, for a status that is a commitment.
HandleSlotUpdate(sl, status) ==
  /\ Reads
  /\ Reaches(sl, status)
  /\ seen' = seen \cup {<<sl, status>>}
  /\ outbox' = EmittedByStatus(sl, status)
  /\ LET marked == [statuses_seen EXCEPT ![sl] = @ \cup {status}]
         keeps(other) == status = Finalized => Kept(sl, other)
     IN /\ statuses_seen' = [other \in Slots |-> IF keeps(other) THEN marked[other] ELSE {}]
        /\ has_block_meta' = {other \in has_block_meta : keeps(other)}
  /\ UNCHANGED <<streams, open, received, emitted, level, metas>>

\* handle_slot_update, for any other status.
HandleOtherStatus(sl) ==
  /\ Reads
  /\ statuses_seen' = [statuses_seen EXCEPT ![sl] = @ \cup {Other}]
  /\ UNCHANGED <<clusterVars, streams, open, received, has_block_meta, outbox, emitted,
                 level, seen, metas>>

\* The emission of one level, if its status has been seen.
EmittedAt(sl, status) ==
  IF status \in statuses_seen[sl] THEN <<<<sl, status>>>> ELSE <<>>

\* Mutant: from the highest level down.
EmittedBackwards(sl) == EmittedAt(sl, 3) \o EmittedAt(sl, 2) \o EmittedAt(sl, 1)

\* "Emit block meta for any commitment statuses we've already seen".
EmittedByMeta(sl) == EmittedAt(sl, 1) \o EmittedAt(sl, 2) \o EmittedAt(sl, 3)

\* handle_block_meta.
HandleBlockMeta(sl) ==
  /\ Reads
  /\ ProducesMeta(sl)
  /\ metas' = metas \cup {sl}
  /\ has_block_meta' = has_block_meta \cup {sl}
  /\ outbox' = EmittedByMeta(sl)
  /\ UNCHANGED <<streams, open, received, statuses_seen, emitted, level, seen>>

\* The next emission is broadcast with block_meta_tx.send(..).
Broadcast ==
  /\ outbox # <<>>
  /\ emitted' = emitted \cup {Head(outbox)}
  /\ level' = [level EXCEPT ![Head(outbox)[1]] = Head(outbox)[2]]
  /\ UNCHANGED <<clusterVars, streams, received, trackingVars, seen, metas>>

\* block_meta_tx.send(..) and transactions_tx.send(..).await.
Send ==
  /\ received
  /\ Broadcast
  /\ outbox' = Tail(outbox)
  /\ UNCHANGED open

\* The receiver of transactions_tx is gone: ChannelSendFailed ends the stream,
\* and the emissions that were to follow with it.
SendFails ==
  /\ ~received
  /\ Broadcast
  /\ outbox' = <<>>
  /\ open' = FALSE

\* The task that reads the transactions ends.
ReceiverDropped ==
  /\ received
  /\ received' = FALSE
  /\ UNCHANGED <<clusterVars, streams, open, trackingVars, outbox, emitted, level, seen, metas>>

\* grpc_open, then process_grpc_stream with an empty slot_tracking.
StreamOpens ==
  /\ ~open
  /\ streams < MaxStreams
  /\ streams' = streams + 1
  /\ open' = TRUE
  /\ statuses_seen' = NoStatuses
  /\ has_block_meta' = {}
  /\ seen' = {}
  /\ metas' = {}
  /\ UNCHANGED <<clusterVars, received, outbox, emitted, level>>

\* The stream ends or fails, or a message of it cannot be handled.
StreamEnds ==
  /\ Reads
  /\ open' = FALSE
  /\ UNCHANGED <<clusterVars, streams, received, trackingVars, outbox, emitted, level, seen,
                 metas>>

-----------------------------------------------------------------------------
Next ==
  \/ Lost
  \/ \E sl \in Slots : \/ \E status \in Levels : HandleSlotUpdate(sl, status)
                       \/ HandleOtherStatus(sl)
                       \/ HandleBlockMeta(sl)
  \/ Send \/ SendFails \/ ReceiverDropped
  \/ StreamOpens
  \/ StreamEnds

Spec == Init /\ [][Next]_vars

-----------------------------------------------------------------------------
Pending == {outbox[i] : i \in DOMAIN outbox}

\* Whatever the order in which a stream brings the metadata and the statuses
\* of a slot, and whatever was cleaned up in between, a level whose status and
\* metadata were both read is emitted while the stream is open.
BothReadIsEmitted ==
  open => \A e \in seen : e[1] \in metas => e \in emitted \cup Pending

\* Nothing is emitted that the cluster has not reached, and nothing without
\* metadata.
EmittedIsReal ==
  \A e \in emitted \cup Pending : e[1] \in produced /\ e[2] <= cluster[e[1]]

(***************************************************************************)
(* The inductive invariant behind these properties.                        *)
(***************************************************************************)

\* Emissions wait only while a stream is open, so the cluster stands still for
\* the subscriber: they are of one slot, nothing above it is finalized, and
\* they go up from what was sent for the slot.
OutboxInOrder ==
  /\ outbox # <<>> => open
  /\ \A i \in DOMAIN outbox :
       /\ Alive(outbox[i][1])
       /\ outbox[i][2] > level[outbox[i][1]]
       /\ \A j \in 1..i - 1 : outbox[j][1] = outbox[i][1] /\ outbox[j][2] < outbox[i][2]

\* The tracking knows nothing the cluster has not produced, and what was sent
\* has been produced.
TrackingIsReal ==
  /\ has_block_meta \subseteq produced
  /\ \A sl \in Slots : \A status \in statuses_seen[sl] : status <= cluster[sl]
  /\ \A sl \in Slots : level[sl] <= cluster[sl] /\ (level[sl] # 0 => sl \in produced)

\* The clean-up forgets only slots that nothing more is said of.
TrackedWhileAlive ==
  \A sl \in Slots : Alive(sl) =>
    /\ sl \in metas => sl \in has_block_meta
    /\ \A status \in Levels : <<sl, status>> \in seen => status \in statuses_seen[sl]

FeedInv ==
  /\ TypeOK
  /\ OutboxInOrder
  /\ TrackingIsReal
  /\ EmittedIsReal
  /\ TrackedWhileAlive
  /\ BothReadIsEmitted

Feed == INSTANCE CommitmentFeed WITH Slots <- Slots, level <- level

\* The subscriber implements the feed its consumers rely on, across
\* reconnections.
ImplementsFeed == Feed!Spec

=============================================================================
