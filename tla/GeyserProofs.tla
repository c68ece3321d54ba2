---------------------------- MODULE GeyserProofs ----------------------------
(***************************************************************************)
(* Proofs about GeyserSubscriber: what it emits is what the cluster said,  *)
(* complete for each stream, and a CommitmentFeed for its consumers.       *)
(***************************************************************************)
EXTENDS GeyserSubscriber, SequenceTheorems, TLAPS

-----------------------------------------------------------------------------
(***************************************************************************)
(* What a message makes the subscriber emit                                *)
(***************************************************************************)

\* The emissions of slot sl for the statuses seen up to `top`, in order.
Emissions(o, sl, top) ==
  /\ o \in Seq(Slots \X Levels)
  /\ \A i \in DOMAIN o :
       /\ o[i][1] = sl
       /\ o[i][2] \in statuses_seen[sl]
       /\ o[i][2] <= top
       /\ \A j \in 1..i - 1 : o[j][2] < o[i][2]
  /\ \A status \in 1..top : status \in statuses_seen[sl] =>
       \E i \in DOMAIN o : o[i] = <<sl, status>>

\* One more level extends the emissions by at most one.
LEMMA NextLevel ==
  ASSUME NEW o, NEW sl \in Slots, NEW top \in 0..2, Emissions(o, sl, top)
  PROVE  Emissions(o \o EmittedAt(sl, top + 1), sl, top + 1)
<1>1. o \in Seq(Slots \X Levels) /\ <<sl, top + 1>> \in Slots \X Levels
  BY DEF Emissions, Levels
<1>2. ASSUME NEW i \in DOMAIN o
      PROVE  o[i][1] = sl /\ o[i][2] \in Levels /\ o[i][2] \in statuses_seen[sl] /\ o[i][2] <= top
  <2>1. o[i] \in Slots \X Levels
    BY <1>1
  <2>2. QED BY <2>1 DEF Emissions
<1>3. CASE top + 1 \notin statuses_seen[sl]
  <2>1. o \o EmittedAt(sl, top + 1) = o
    BY <1>1, <1>3, ConcatEmptySeq DEF EmittedAt
  <2>2. \A i \in DOMAIN o : o[i][2] <= top + 1
    BY <1>2 DEF Levels
  <2>3. \A status \in 1..top + 1 : status \in statuses_seen[sl] => status \in 1..top
    BY <1>3
  <2>4. Emissions(o, sl, top + 1)
    BY <2>2, <2>3 DEF Emissions
  <2>5. QED BY <2>1, <2>4
<1>4. CASE top + 1 \in statuses_seen[sl]
  <2>1. o \o EmittedAt(sl, top + 1) = Append(o, <<sl, top + 1>>)
    BY <1>1, <1>4, AppendIsConcat DEF EmittedAt
  <2>2. SUFFICES ASSUME NEW more, more = Append(o, <<sl, top + 1>>)
                 PROVE  Emissions(more, sl, top + 1)
    BY <2>1
  <2>3. /\ more \in Seq(Slots \X Levels)
        /\ Len(more) = Len(o) + 1
        /\ \A i \in 1..Len(o) : more[i] = o[i]
        /\ more[Len(o) + 1] = <<sl, top + 1>>
    BY <1>1, <2>2, AppendProperties
  <2>4. Len(o) \in Nat /\ DOMAIN o = 1..Len(o) /\ DOMAIN more = 1..Len(o) + 1
    BY <1>1, <2>3, LenProperties
  <2>5. ASSUME NEW i \in DOMAIN more
        PROVE  /\ more[i][1] = sl
               /\ more[i][2] \in statuses_seen[sl]
               /\ more[i][2] <= top + 1
               /\ \A j \in 1..i - 1 : more[j][2] < more[i][2]
    <3>1. CASE i \in 1..Len(o)
      <4>1. \A j \in 1..i - 1 : j \in 1..Len(o)
        BY <2>4, <3>1
      <4>2. \A j \in 1..i - 1 : o[j][2] < o[i][2]
        BY <2>4, <3>1 DEF Emissions
      <4>3. QED BY <1>2, <2>3, <2>4, <3>1, <4>1, <4>2 DEF Levels
    <3>2. CASE i = Len(o) + 1
      <4>1. \A j \in 1..i - 1 : j \in DOMAIN o /\ more[j] = o[j]
        BY <2>3, <2>4, <3>2
      <4>2. QED BY <1>2, <1>4, <2>3, <3>2, <4>1 DEF Levels
    <3>3. QED BY <2>4, <3>1, <3>2
  <2>6. ASSUME NEW status \in 1..top + 1, status \in statuses_seen[sl]
        PROVE  \E i \in DOMAIN more : more[i] = <<sl, status>>
    <3>1. CASE status = top + 1
      BY <2>3, <2>4, <3>1
    <3>2. CASE status \in 1..top
      <4>1. PICK i \in DOMAIN o : o[i] = <<sl, status>>
        BY <2>6, <3>2 DEF Emissions
      <4>2. QED BY <2>3, <2>4, <4>1
    <3>3. QED BY <3>1, <3>2
  <2>7. QED BY <2>3, <2>5, <2>6 DEF Emissions
<1>5. QED BY <1>3, <1>4

\* handle_block_meta emits every level seen, once and in order.
LEMMA MetaEmissions ==
  ASSUME NEW sl \in Slots
  PROVE  Emissions(EmittedByMeta(sl), sl, 3)
<1>0. PICK none : none = <<>>
  OBVIOUS
<1>1. Emissions(none, sl, 0)
  BY <1>0 DEF Emissions
<1>2. Emissions(none \o EmittedAt(sl, 1), sl, 1)
  BY <1>1, NextLevel, 0 + 1 = 1, 0 \in 0..2
<1>3. EmittedAt(sl, 1) \in Seq(Slots \X Levels)
  <2>1. <<sl, 1>> \in Slots \X Levels
    BY DEF Levels
  <2>2. <<<<sl, 1>>>> \in Seq(Slots \X Levels)
    BY <2>1
  <2>3. QED BY <2>2 DEF EmittedAt
<1>4. Emissions(EmittedAt(sl, 1), sl, 1)
  BY <1>0, <1>2, <1>3, ConcatEmptySeq
<1>5. Emissions(EmittedAt(sl, 1) \o EmittedAt(sl, 2), sl, 2)
  BY <1>4, NextLevel, 1 + 1 = 2
<1>6. Emissions((EmittedAt(sl, 1) \o EmittedAt(sl, 2)) \o EmittedAt(sl, 3), sl, 3)
  BY <1>5, NextLevel, 2 + 1 = 3
<1>7. QED BY <1>6 DEF EmittedByMeta

-----------------------------------------------------------------------------
(***************************************************************************)
(* The cluster                                                             *)
(***************************************************************************)

\* A slot that reaches a level stays alive; a slot that nothing more is said
\* of does not come back.
LEMMA ReachesAlive ==
  ASSUME TypeOK, NEW sl \in Slots, NEW status, Reaches(sl, status)
  PROVE  /\ cluster' \in [Slots -> Levels \cup {0}]
         /\ cluster'[sl] = status /\ status > cluster[sl] /\ status \in Levels
         /\ \A x \in Slots : cluster[x] <= cluster'[x]
         /\ \A x \in Slots : Alive(x)' => Alive(x)
         /\ Alive(sl)'
         /\ \A x \in Slots : status = Finalized /\ Alive(x)' => x >= sl
<1>1. /\ cluster' \in [Slots -> Levels \cup {0}]
      /\ cluster'[sl] = status /\ status > cluster[sl] /\ status \in Levels
      /\ \A x \in Slots : x # sl => cluster'[x] = cluster[x]
  BY DEF TypeOK, Reaches, Levels
<1>2. cluster[sl] # Finalized
  BY <1>1 DEF Finalized, Levels
<1>3. \A x \in Slots : cluster[x] <= cluster'[x]
  BY <1>1 DEF TypeOK, Levels
<1>4. \A x \in Slots : Alive(x)' => Alive(x)
  BY <1>1, <1>2 DEF Alive
<1>5. Alive(sl)'
  BY <1>1, GeyserAssumption DEF Reaches, Alive
<1>6. \A x \in Slots : status = Finalized /\ Alive(x)' => x >= sl
  BY <1>1, GeyserAssumption DEF Alive
<1>7. QED BY <1>1, <1>3, <1>4, <1>5, <1>6

\* The elements of the outbox are pairs.
LEMMA OutboxPairs ==
  ASSUME TypeOK, NEW i \in DOMAIN outbox
  PROVE  /\ outbox[i] \in Slots \X Levels
         /\ outbox[i][1] \in Slots
         /\ outbox[i][2] \in Levels
<1>1. outbox[i] \in Slots \X Levels
  BY DEF TypeOK
<1>2. QED BY <1>1

-----------------------------------------------------------------------------
(***************************************************************************)
(* One lemma per action                                                    *)
(***************************************************************************)

LEMMA InitFeedInv == Init => FeedInv
<1> SUFFICES ASSUME Init PROVE FeedInv
  OBVIOUS
<1>1. outbox = <<>> /\ outbox \in Seq(Slots \X Levels) /\ DOMAIN outbox = {}
  BY DEF Init
<1>2. Pending = {}
  BY <1>1 DEF Pending
<1>3. TypeOK
  <2>1. /\ cluster \in [Slots -> Levels \cup {0}]
        /\ level \in [Slots -> Levels \cup {0}]
        /\ statuses_seen \in [Slots -> SUBSET (Levels \cup {Other})]
    BY DEF Init, NoStatuses
  <2>2. streams \in 0..MaxStreams
    BY GeyserAssumption DEF Init
  <2>3. open \in BOOLEAN /\ received \in BOOLEAN
    BY Zenon DEF Init
  <2>4. QED BY <1>1, <2>1, <2>2, <2>3 DEF Init, TypeOK
<1>4. OutboxInOrder
  BY <1>1 DEF OutboxInOrder
<1>5. TrackingIsReal /\ TrackedWhileAlive
  BY DEF Init, TrackingIsReal, TrackedWhileAlive, NoStatuses
<1>6. EmittedIsReal /\ BothReadIsEmitted
  BY <1>2 DEF Init, EmittedIsReal, BothReadIsEmitted
<1>7. QED BY <1>3, <1>4, <1>5, <1>6 DEF FeedInv

\* Nothing the subscriber tracks changes while no stream is open.
LEMMA LostKeeps == FeedInv /\ Lost => FeedInv'
<1> SUFFICES ASSUME FeedInv, Lost PROVE FeedInv'
  OBVIOUS
<1> USE DEF FeedInv
<1>1. PICK sl \in Slots : ProducesMeta(sl) \/ \E status \in Levels : Reaches(sl, status)
  BY DEF Lost
<1>2. /\ cluster' \in [Slots -> Levels \cup {0}]
      /\ produced' \in SUBSET Slots
      /\ produced \subseteq produced'
      /\ \A x \in Slots : cluster[x] <= cluster'[x]
      /\ \A x \in Slots : Alive(x)' => Alive(x)
  <2>1. CASE ProducesMeta(sl)
    BY <2>1 DEF ProducesMeta, TypeOK, Alive, Levels
  <2>2. CASE \E status \in Levels : Reaches(sl, status)
    <3>1. PICK status \in Levels : Reaches(sl, status)
      BY <2>2
    <3>2. produced' = produced
      BY <3>1 DEF Reaches
    <3>3. QED BY <3>1, <3>2, ReachesAlive DEF TypeOK
  <2>3. QED BY <1>1, <2>1, <2>2
<1>3. /\ outbox = <<>> /\ outbox' = <<>>
      /\ UNCHANGED <<streams, open, received, statuses_seen, has_block_meta, emitted, level, seen, metas>>
  BY DEF Lost, OutboxInOrder, trackingVars
<1>4. DOMAIN outbox = {} /\ DOMAIN outbox' = {}
  BY <1>3
<1>5. Pending = {} /\ Pending' = {}
  BY <1>4 DEF Pending
<1>6. TypeOK'
  BY <1>2, <1>3 DEF TypeOK
<1>7. OutboxInOrder'
  BY <1>3, <1>4 DEF OutboxInOrder
<1>8. TrackingIsReal'
  BY <1>2, <1>3 DEF TrackingIsReal, TypeOK, Levels, Other
<1>9. EmittedIsReal'
  <2>1. ASSUME NEW e \in emitted PROVE e[1] \in produced' /\ e[2] <= cluster'[e[1]]
    <3>1. e[1] \in Slots /\ e[2] \in Levels
      BY DEF TypeOK
    <3>2. e[1] \in produced /\ e[2] <= cluster[e[1]]
      BY DEF EmittedIsReal
    <3>3. cluster[e[1]] \in Nat /\ cluster'[e[1]] \in Nat
      BY <1>2, <3>1 DEF TypeOK, Levels
    <3>4. QED BY <1>2, <3>1, <3>2, <3>3 DEF Levels
  <2>2. QED BY <1>3, <1>5, <2>1 DEF EmittedIsReal
<1>10. TrackedWhileAlive'
  BY <1>2, <1>3 DEF TrackedWhileAlive
<1>11. BothReadIsEmitted'
  BY <1>3, <1>5 DEF BothReadIsEmitted
<1>12. QED BY <1>6, <1>7, <1>8, <1>9, <1>10, <1>11

\* A status is emitted at once if the metadata is there, and kept otherwise.
LEMMA SlotUpdateKeeps ==
  ASSUME FeedInv, NEW sl \in Slots, NEW status \in Levels, HandleSlotUpdate(sl, status)
  PROVE  FeedInv'
<1> USE DEF FeedInv
<1> DEFINE marked == [statuses_seen EXCEPT ![sl] = @ \cup {status}]
           keeps(x) == status = Finalized => Kept(sl, x)
<1>1. /\ open /\ outbox = <<>>
      /\ Reaches(sl, status)
      /\ seen' = seen \cup {<<sl, status>>}
      /\ outbox' = EmittedByStatus(sl, status)
      /\ statuses_seen' = [x \in Slots |-> IF keeps(x) THEN marked[x] ELSE {}]
      /\ has_block_meta' = {x \in has_block_meta : keeps(x)}
      /\ UNCHANGED <<produced, streams, open, received, emitted, level, metas>>
  BY DEF HandleSlotUpdate, Reads, Reaches
<1>2. /\ cluster' \in [Slots -> Levels \cup {0}]
      /\ cluster'[sl] = status /\ status > cluster[sl]
      /\ \A x \in Slots : cluster[x] <= cluster'[x]
      /\ \A x \in Slots : Alive(x)' => Alive(x)
      /\ Alive(sl)' /\ Alive(sl)
      /\ \A x \in Slots : Alive(x)' => keeps(x)
  BY <1>1, ReachesAlive DEF Kept, Reaches
<1>3. Pending = {}
  BY <1>1 DEF Pending
<1>4. /\ outbox' \in Seq(Slots \X Levels)
      /\ sl \in has_block_meta => outbox' = <<<<sl, status>>>>
      /\ sl \notin has_block_meta => outbox' = <<>>
  <2>1. <<<<sl, status>>>> \in Seq(Slots \X Levels)
    <3>1. <<sl, status>> \in Slots \X Levels
      OBVIOUS
    <3>2. QED BY <3>1
  <2>2. <<>> \in Seq(Slots \X Levels)
    OBVIOUS
  <2>3. CASE sl \in has_block_meta
    BY <1>1, <2>1, <2>3 DEF EmittedByStatus
  <2>4. CASE sl \notin has_block_meta
    BY <1>1, <2>2, <2>4 DEF EmittedByStatus
  <2>5. QED BY <2>3, <2>4
<1>5. /\ sl \in has_block_meta => Pending' = {<<sl, status>>}
      /\ sl \notin has_block_meta => Pending' = {}
  BY <1>4 DEF Pending
<1>6. \A x \in Slots : /\ marked[x] \in SUBSET (Levels \cup {Other})
                       /\ statuses_seen[x] \subseteq marked[x]
                       /\ \A s \in marked[x] : s \in statuses_seen[x] \/ (x = sl /\ s = status)
  BY DEF TypeOK
<1>7. TypeOK'
  <2>1. statuses_seen' \in [Slots -> SUBSET (Levels \cup {Other})]
    BY <1>1, <1>6
  <2>2. QED BY <1>1, <1>2, <1>4, <2>1 DEF TypeOK
<1>8. OutboxInOrder'
  <2>0. level \in [Slots -> Levels \cup {0}] /\ cluster \in [Slots -> Levels \cup {0}]
    BY DEF TypeOK
  <2>1. level[sl] <= cluster[sl] /\ level[sl] \in Nat /\ cluster[sl] \in Nat
    <3>1. TrackingIsReal
      OBVIOUS
    <3>2. level[sl] <= cluster[sl]
      BY <3>1 DEF TrackingIsReal
    <3>3. QED BY <2>0, <3>2 DEF Levels
  <2>2. status > level'[sl]
    BY <1>1, <1>2, <2>1 DEF Levels
  <2>3. QED BY <1>1, <1>2, <1>4, <2>2 DEF OutboxInOrder, EmittedByStatus
<1>9. TrackingIsReal'
  <2>1. ASSUME NEW x \in Slots, NEW s \in statuses_seen'[x] PROVE s <= cluster'[x]
    <3>1. s \in marked[x]
      BY <1>1, <2>1
    <3>2. CASE s \in statuses_seen[x]
      <4>1. s <= cluster[x] /\ s \in Nat /\ cluster[x] \in Nat /\ cluster'[x] \in Nat
        BY <1>2, <3>2 DEF TrackingIsReal, TypeOK, Levels, Other
      <4>2. QED BY <1>2, <4>1
    <3>3. CASE x = sl /\ s = status
      BY <1>2, <3>3 DEF Levels
    <3>4. QED BY <1>6, <3>1, <3>2, <3>3
  <2>2. ASSUME NEW x \in Slots
        PROVE  level'[x] <= cluster'[x] /\ (level'[x] # 0 => x \in produced')
    <3>1. level[x] \in Nat /\ cluster[x] \in Nat /\ cluster'[x] \in Nat
      BY <1>2 DEF TypeOK, Levels
    <3>2. QED BY <1>1, <1>2, <3>1 DEF TrackingIsReal
  <2>3. QED BY <1>1, <2>1, <2>2 DEF TrackingIsReal
<1>10. EmittedIsReal'
  <2>1. ASSUME NEW e \in emitted PROVE e[1] \in produced /\ e[2] <= cluster'[e[1]]
    <3>1. e[1] \in Slots /\ e[2] \in Levels
      BY DEF TypeOK
    <3>2. e[1] \in produced /\ e[2] <= cluster[e[1]]
      BY DEF EmittedIsReal
    <3>3. cluster[e[1]] \in Nat /\ cluster'[e[1]] \in Nat
      BY <1>2, <3>1 DEF TypeOK, Levels
    <3>4. QED BY <1>2, <3>1, <3>2, <3>3 DEF Levels
  <2>2. ASSUME NEW e \in Pending' PROVE e[1] \in produced /\ e[2] <= cluster'[e[1]]
    BY <1>2, <1>5 DEF TrackingIsReal, Levels
  <2>3. QED BY <1>1, <2>1, <2>2 DEF EmittedIsReal
<1>11. TrackedWhileAlive'
  <2>1. ASSUME NEW x \in Slots, Alive(x)'
        PROVE  /\ x \in metas' => x \in has_block_meta'
               /\ \A s \in Levels : <<x, s>> \in seen' => s \in statuses_seen'[x]
    <3>1. Alive(x) /\ keeps(x)
      BY <1>2, <2>1
    <3>2. statuses_seen'[x] = marked[x] /\ (sl = x => status \in marked[x])
      BY <1>1, <3>1 DEF TypeOK
    <3>3. QED BY <1>1, <1>6, <3>1, <3>2 DEF TrackedWhileAlive
  <2>2. QED BY <2>1 DEF TrackedWhileAlive
<1>12. BothReadIsEmitted'
  <2>1. ASSUME NEW e \in seen', e[1] \in metas' PROVE e \in emitted' \cup Pending'
    <3>1. CASE e \in seen
      BY <1>1, <1>3, <2>1, <3>1 DEF BothReadIsEmitted
    <3>2. CASE e = <<sl, status>>
      <4>1. sl \in has_block_meta
        BY <1>1, <1>2, <2>1, <3>2 DEF TrackedWhileAlive
      <4>2. QED BY <1>5, <3>2, <4>1
    <3>3. QED BY <1>1, <3>1, <3>2
  <2>2. QED BY <2>1 DEF BothReadIsEmitted
<1>13. QED BY <1>7, <1>8, <1>9, <1>10, <1>11, <1>12

\* The metadata of a slot emits every level seen of it.
LEMMA BlockMetaKeeps ==
  ASSUME FeedInv, NEW sl \in Slots, HandleBlockMeta(sl)
  PROVE  FeedInv'
<1> USE DEF FeedInv
<1>1. /\ open /\ outbox = <<>>
      /\ sl \notin produced /\ Alive(sl)
      /\ produced' = produced \cup {sl}
      /\ metas' = metas \cup {sl}
      /\ has_block_meta' = has_block_meta \cup {sl}
      /\ outbox' = EmittedByMeta(sl)
      /\ UNCHANGED <<cluster, streams, open, received, statuses_seen, emitted, level, seen>>
  BY DEF HandleBlockMeta, Reads, ProducesMeta
<1>2. Emissions(outbox', sl, 3)
  BY <1>1, MetaEmissions
<1>3. Pending = {}
  BY <1>1 DEF Pending
<1>4. level[sl] = 0
  BY <1>1 DEF TrackingIsReal
<1>5. ASSUME NEW i \in DOMAIN outbox'
      PROVE  /\ outbox'[i][1] = sl
             /\ outbox'[i][2] \in Levels
             /\ outbox'[i][2] \in statuses_seen[sl]
             /\ \A j \in 1..i - 1 : j \in DOMAIN outbox' /\ outbox'[j][2] < outbox'[i][2]
  <2>1. outbox'[i] \in Slots \X Levels /\ DOMAIN outbox' = 1..Len(outbox') /\ Len(outbox') \in Nat
    BY <1>2, LenProperties DEF Emissions
  <2>2. QED BY <1>2, <2>1 DEF Emissions
<1>6. TypeOK'
  BY <1>1, <1>2 DEF TypeOK, Emissions
<1>7. OutboxInOrder'
  <2>1. Alive(sl)'
    BY <1>1 DEF Alive
  <2>2. QED BY <1>1, <1>4, <1>5, <2>1 DEF OutboxInOrder, Levels
<1>8. TrackingIsReal'
  BY <1>1 DEF TrackingIsReal
<1>9. EmittedIsReal'
  <2>1. ASSUME NEW e \in Pending' PROVE e[1] \in produced' /\ e[2] <= cluster'[e[1]]
    <3>1. PICK i \in DOMAIN outbox' : e = outbox'[i]
      BY DEF Pending
    <3>2. QED BY <1>1, <1>5, <3>1 DEF TrackingIsReal
  <2>2. QED BY <1>1, <2>1 DEF EmittedIsReal
<1>10. TrackedWhileAlive'
  <2>1. \A x \in Slots : Alive(x)' = Alive(x)
    BY <1>1 DEF Alive
  <2>2. QED BY <1>1, <2>1 DEF TrackedWhileAlive
<1>11. BothReadIsEmitted'
  <2>1. ASSUME NEW e \in seen', e[1] \in metas' PROVE e \in emitted' \cup Pending'
    <3>1. e \in seen /\ e \in Slots \X Levels
      BY <1>1 DEF TypeOK
    <3>2. CASE e[1] \in metas
      BY <1>1, <1>3, <3>1, <3>2 DEF BothReadIsEmitted
    <3>3. CASE e[1] = sl
      <4>1. e = <<sl, e[2]>> /\ e[2] \in Levels
        BY <3>1, <3>3
      <4>2. e[2] \in statuses_seen[sl]
        BY <1>1, <3>1, <4>1 DEF TrackedWhileAlive
      <4>3. PICK i \in DOMAIN outbox' : outbox'[i] = <<sl, e[2]>>
        BY <1>2, <4>1, <4>2 DEF Emissions, Levels
      <4>4. QED BY <4>1, <4>3 DEF Pending
    <3>4. QED BY <1>1, <2>1, <3>2, <3>3
  <2>2. QED BY <2>1 DEF BothReadIsEmitted
<1>12. QED BY <1>6, <1>7, <1>8, <1>9, <1>10, <1>11

\* What Send takes from the outbox.
LEMMA SendFacts ==
  ASSUME FeedInv, Send
  PROVE  /\ Head(outbox) = outbox[1] /\ 1 \in DOMAIN outbox
         /\ outbox' \in Seq(Slots \X Levels)
         /\ \A i \in DOMAIN outbox' :
              i \in 1..Len(outbox) - 1 /\ i + 1 \in DOMAIN outbox /\ outbox'[i] = outbox[i + 1]
         /\ \A i \in DOMAIN outbox : i # 1 => i - 1 \in DOMAIN outbox' /\ outbox'[i - 1] = outbox[i]
<1>1. outbox \in Seq(Slots \X Levels) /\ outbox # <<>> /\ outbox' = Tail(outbox)
  BY DEF FeedInv, TypeOK, Send, Broadcast
<1>2. Len(outbox) \in Nat \ {0} /\ DOMAIN outbox = 1..Len(outbox) /\ Head(outbox) = outbox[1]
  BY <1>1, LenProperties, HeadTailProperties, EmptySeq
<1>3. /\ outbox' \in Seq(Slots \X Levels)
      /\ Len(outbox') = Len(outbox) - 1
      /\ \A i \in 1..Len(outbox) - 1 : outbox'[i] = outbox[i + 1]
  BY <1>1, <1>2, HeadTailProperties
<1>4. DOMAIN outbox' = 1..Len(outbox) - 1
  BY <1>3, LenProperties
<1>5. \A i \in 1..Len(outbox) : i # 1 => i - 1 \in 1..Len(outbox) - 1 /\ (i - 1) + 1 = i
  BY <1>2
<1>6. QED BY <1>2, <1>3, <1>4, <1>5

LEMMA SendKeeps == FeedInv /\ Send => FeedInv'
<1> SUFFICES ASSUME FeedInv, Send PROVE FeedInv'
  OBVIOUS
<1> USE DEF FeedInv
<1> DEFINE e == outbox[1]
<1>1. /\ Head(outbox) = e /\ 1 \in DOMAIN outbox
      /\ emitted' = emitted \cup {e}
      /\ level' = [level EXCEPT ![e[1]] = e[2]]
      /\ UNCHANGED <<cluster, produced, streams, open, received, statuses_seen, has_block_meta,
                     seen, metas>>
      /\ outbox # <<>>
  BY SendFacts DEF Send, Broadcast, clusterVars, trackingVars
<1>2. e \in Slots \X Levels /\ e[1] \in Slots /\ e[2] \in Levels
  BY <1>1, OutboxPairs
<1>3. level'[e[1]] = e[2] /\ \A x \in Slots : x # e[1] => level'[x] = level[x]
  BY <1>1, <1>2 DEF TypeOK
<1>4. emitted' \cup Pending' = emitted \cup Pending
  <2>1. Pending' \subseteq Pending
    BY SendFacts DEF Pending
  <2>2. Pending \subseteq {e} \cup Pending'
    BY SendFacts DEF Pending
  <2>3. e \in Pending
    BY <1>1 DEF Pending
  <2>4. QED BY <1>1, <2>1, <2>2, <2>3
<1>5. e \in emitted \cup Pending
  BY <1>1 DEF Pending
<1>6. TypeOK'
  BY <1>1, <1>2, SendFacts DEF TypeOK
<1>7. OutboxInOrder'
  <2>1. ASSUME NEW i \in DOMAIN outbox'
        PROVE  /\ Alive(outbox[i][1])'
               /\ outbox'[i][2] > level'[outbox'[i][1]]
               /\ \A j \in 1..i - 1 : /\ outbox'[j][1] = outbox'[i][1]
                                      /\ outbox'[j][2] < outbox'[i][2]
    <3>1. i \in Nat \ {0} /\ i + 1 \in DOMAIN outbox /\ outbox'[i] = outbox[i + 1]
      BY SendFacts
    <3>2. 1 \in 1..(i + 1) - 1 /\ \A j \in 1..i - 1 : j + 1 \in 1..(i + 1) - 1 /\ j \in DOMAIN outbox'
      <4>1. DOMAIN outbox' = 1..Len(outbox') /\ Len(outbox') \in Nat
        BY SendFacts, LenProperties
      <4>2. QED BY <3>1, <4>1
    <3>3. e[1] = outbox[i + 1][1] /\ e[2] < outbox[i + 1][2] /\ Alive(outbox[i + 1][1])
      BY <3>1, <3>2 DEF OutboxInOrder
    <3>4. \A j \in 1..i - 1 : outbox'[j] = outbox[j + 1]
      BY <3>2, SendFacts
    <3>5. \A j \in 1..i - 1 : /\ outbox[j + 1][1] = outbox[i + 1][1]
                              /\ outbox[j + 1][2] < outbox[i + 1][2]
      BY <3>1, <3>2 DEF OutboxInOrder
    <3>6. Alive(outbox[i][1])'
      BY <1>1, <3>1, <3>3 DEF Alive
    <3>7. outbox[i + 1][2] \in Levels
      BY <3>1, OutboxPairs
    <3>8. outbox'[i][2] > level'[outbox'[i][1]]
      BY <1>2, <1>3, <3>1, <3>3, <3>7 DEF Levels
    <3>9. QED BY <3>1, <3>4, <3>5, <3>6, <3>8
  <2>2. outbox' # <<>> => open'
    BY <1>1 DEF OutboxInOrder
  <2>3. QED BY <2>1, <2>2 DEF OutboxInOrder
<1>8. TrackingIsReal'
  <2>1. e[1] \in produced /\ e[2] <= cluster[e[1]]
    BY <1>5 DEF EmittedIsReal
  <2>2. \A x \in Slots : level'[x] <= cluster[x] /\ (level'[x] # 0 => x \in produced)
    BY <1>3, <2>1 DEF TrackingIsReal
  <2>3. QED BY <1>1, <2>2 DEF TrackingIsReal
<1>9. EmittedIsReal'
  BY <1>1, <1>4 DEF EmittedIsReal
<1>10. TrackedWhileAlive'
  <2>1. \A x \in Slots : Alive(x)' = Alive(x)
    BY <1>1 DEF Alive
  <2>2. QED BY <1>1, <2>1 DEF TrackedWhileAlive
<1>11. BothReadIsEmitted'
  BY <1>1, <1>4 DEF BothReadIsEmitted
<1>12. QED BY <1>6, <1>7, <1>8, <1>9, <1>10, <1>11

\* The emission that fails is broadcast, those behind it are lost with their
\* stream.
LEMMA SendFailsKeeps == FeedInv /\ SendFails => FeedInv'
<1> SUFFICES ASSUME FeedInv, SendFails PROVE FeedInv'
  OBVIOUS
<1> USE DEF FeedInv
<1> DEFINE e == outbox[1]
<1>1. outbox \in Seq(Slots \X Levels) /\ outbox # <<>>
  BY DEF TypeOK, SendFails, Broadcast
<1>2. Head(outbox) = e /\ 1 \in DOMAIN outbox
  <2>1. Len(outbox) \in Nat \ {0} /\ DOMAIN outbox = 1..Len(outbox) /\ Head(outbox) = outbox[1]
    BY <1>1, LenProperties, HeadTailProperties, EmptySeq
  <2>2. QED BY <2>1
<1>3. /\ emitted' = emitted \cup {e}
      /\ level' = [level EXCEPT ![e[1]] = e[2]]
      /\ UNCHANGED <<cluster, produced, streams, received, statuses_seen, has_block_meta,
                     seen, metas>>
      /\ outbox' = <<>> /\ open' = FALSE
  BY <1>2 DEF SendFails, Broadcast, clusterVars, trackingVars
<1>4. e \in Slots \X Levels /\ e[1] \in Slots /\ e[2] \in Levels
  BY <1>2, OutboxPairs
<1>5. level'[e[1]] = e[2] /\ \A x \in Slots : x # e[1] => level'[x] = level[x]
  BY <1>3, <1>4 DEF TypeOK
<1>6. DOMAIN outbox' = {} /\ outbox' \in Seq(Slots \X Levels)
  BY <1>3
<1>7. e \in Pending /\ Pending' = {}
  BY <1>2, <1>6 DEF Pending
<1>8. e[1] \in produced /\ e[2] <= cluster[e[1]]
  BY <1>7 DEF EmittedIsReal
<1>9. TypeOK'
  BY <1>3, <1>4, <1>6 DEF TypeOK
<1>10. OutboxInOrder' /\ BothReadIsEmitted'
  BY <1>3, <1>6 DEF OutboxInOrder, BothReadIsEmitted
<1>11. TrackingIsReal'
  <2>1. \A x \in Slots : level'[x] <= cluster[x] /\ (level'[x] # 0 => x \in produced)
    BY <1>5, <1>8 DEF TrackingIsReal
  <2>2. QED BY <1>3, <2>1 DEF TrackingIsReal
<1>12. EmittedIsReal'
  BY <1>3, <1>7, <1>8 DEF EmittedIsReal
<1>13. TrackedWhileAlive'
  BY <1>3 DEF TrackedWhileAlive, Alive
<1>14. QED BY <1>9, <1>10, <1>11, <1>12, <1>13

LEMMA NextFeedInv == FeedInv /\ [Next]_vars => FeedInv'
<1> SUFFICES ASSUME FeedInv, [Next]_vars PROVE FeedInv'
  OBVIOUS
<1>1. CASE Lost
  BY <1>1, LostKeeps
<1>2. ASSUME NEW sl \in Slots, NEW status \in Levels, HandleSlotUpdate(sl, status)
      PROVE  FeedInv'
  BY <1>2, SlotUpdateKeeps
<1>3. ASSUME NEW sl \in Slots, HandleOtherStatus(sl) PROVE FeedInv'
  <2>1. UNCHANGED <<cluster, produced, streams, open, received, has_block_meta, outbox, emitted,
                    level, seen, metas>>
    BY <1>3 DEF HandleOtherStatus, clusterVars
  <2>2. /\ statuses_seen' \in [Slots -> SUBSET (Levels \cup {Other})]
        /\ \A x \in Slots : /\ statuses_seen[x] \subseteq statuses_seen'[x]
                            /\ statuses_seen'[x] \subseteq statuses_seen[x] \cup {Other}
    BY <1>3 DEF HandleOtherStatus, FeedInv, TypeOK
  <2>3. \A x \in Slots : Other <= cluster[x]
    BY DEF FeedInv, TypeOK, Levels, Other
  <2>4. TypeOK'
    BY <2>1, <2>2 DEF FeedInv, TypeOK
  <2>5. OutboxInOrder' /\ EmittedIsReal' /\ BothReadIsEmitted'
    BY <2>1 DEF FeedInv, OutboxInOrder, EmittedIsReal, BothReadIsEmitted, Pending, Alive
  <2>6. TrackingIsReal'
    BY <2>1, <2>2, <2>3 DEF FeedInv, TrackingIsReal
  <2>7. TrackedWhileAlive'
    BY <2>1, <2>2 DEF FeedInv, TrackedWhileAlive, Alive
  <2>8. QED BY <2>4, <2>5, <2>6, <2>7 DEF FeedInv
<1>4. ASSUME NEW sl \in Slots, HandleBlockMeta(sl) PROVE FeedInv'
  BY <1>4, BlockMetaKeeps
<1>5. CASE Send
  BY <1>5, SendKeeps
<1>6. CASE StreamOpens
  <2>1. /\ outbox = <<>> /\ outbox' = <<>>
        /\ UNCHANGED <<cluster, produced, received, emitted, level>>
        /\ open' = TRUE /\ streams' \in 0..MaxStreams
        /\ statuses_seen' = NoStatuses /\ has_block_meta' = {} /\ seen' = {} /\ metas' = {}
    BY <1>6, GeyserAssumption DEF StreamOpens, clusterVars, FeedInv, OutboxInOrder, TypeOK
  <2>2. NoStatuses \in [Slots -> SUBSET (Levels \cup {Other})]
    BY DEF NoStatuses
  <2>3. TypeOK'
    BY <2>1, <2>2 DEF FeedInv, TypeOK
  <2>4. OutboxInOrder' /\ EmittedIsReal' /\ BothReadIsEmitted'
    BY <2>1 DEF FeedInv, OutboxInOrder, EmittedIsReal, BothReadIsEmitted, Pending
  <2>5. TrackingIsReal' /\ TrackedWhileAlive'
    BY <2>1 DEF FeedInv, TrackingIsReal, TrackedWhileAlive, NoStatuses
  <2>6. QED BY <2>3, <2>4, <2>5 DEF FeedInv
<1>7. CASE StreamEnds
  <2>1. /\ outbox = <<>> /\ open' = FALSE
        /\ UNCHANGED <<cluster, produced, streams, received, statuses_seen, has_block_meta, outbox,
                       emitted, level, seen, metas>>
    BY <1>7 DEF StreamEnds, Reads, clusterVars, trackingVars
  <2>2. TypeOK'
    BY <2>1 DEF FeedInv, TypeOK
  <2>3. OutboxInOrder' /\ EmittedIsReal' /\ BothReadIsEmitted'
    BY <2>1 DEF FeedInv, OutboxInOrder, EmittedIsReal, BothReadIsEmitted, Pending
  <2>4. TrackingIsReal' /\ TrackedWhileAlive'
    BY <2>1 DEF FeedInv, TrackingIsReal, TrackedWhileAlive, Alive
  <2>5. QED BY <2>2, <2>3, <2>4 DEF FeedInv
<1>8. CASE SendFails
  BY <1>8, SendFailsKeeps
<1>9. CASE ReceiverDropped
  <2>1. /\ received' = FALSE
        /\ UNCHANGED <<cluster, produced, streams, open, statuses_seen, has_block_meta, outbox,
                       emitted, level, seen, metas>>
    BY <1>9 DEF ReceiverDropped, clusterVars, trackingVars
  <2>2. TypeOK'
    BY <2>1 DEF FeedInv, TypeOK
  <2>3. QED BY <2>1, <2>2 DEF FeedInv, OutboxInOrder, TrackingIsReal, EmittedIsReal,
                              TrackedWhileAlive, BothReadIsEmitted, Pending, Alive
<1>10. CASE UNCHANGED vars
  BY <1>10 DEF vars, FeedInv, TypeOK, OutboxInOrder, TrackingIsReal, EmittedIsReal,
              TrackedWhileAlive, BothReadIsEmitted, Pending, Alive
<1>11. QED BY <1>1, <1>2, <1>3, <1>4, <1>5, <1>6, <1>7, <1>8, <1>9, <1>10 DEF Next

-----------------------------------------------------------------------------
LEMMA FeedInvHolds == Spec => []FeedInv
BY InitFeedInv, NextFeedInv, PTL DEF Spec

\* GeyserSubscriber emits a level only of a slot whose metadata the cluster
\* produced, and only when the cluster reached it, whatever was lost between
\* streams.
THEOREM EmissionsAreReal == Spec => []EmittedIsReal
<1>1. FeedInv => EmittedIsReal
  BY DEF FeedInv
<1>2. QED BY <1>1, FeedInvHolds, PTL

\* split_off forgets no slot that the stream still speaks of: when the status
\* and the metadata of a slot are both read from one open stream, the level is
\* emitted, in whatever order they came.
THEOREM NoLevelForgotten == Spec => []BothReadIsEmitted
<1>1. FeedInv => BothReadIsEmitted
  BY DEF FeedInv
<1>2. QED BY <1>1, FeedInvHolds, PTL

\* Across reconnections the subscriber is a CommitmentFeed: the levels of a
\* slot only increase and nothing is said of a slot below a finalized one.
THEOREM SubscriberImplementsFeed == Spec => ImplementsFeed
<1>1. Init => Feed!Init
  BY DEF Init, Feed!Init
<1>2. FeedInv /\ [Next]_vars => [Feed!Next]_level
  <2> SUFFICES ASSUME FeedInv, [Next]_vars PROVE [Feed!Next]_level
    OBVIOUS
  <2>1. CASE Send \/ SendFails
    <3> DEFINE e == outbox[1]
    <3>1. Head(outbox) = e /\ 1 \in DOMAIN outbox /\ level' = [level EXCEPT ![e[1]] = e[2]]
      <4>1. outbox \in Seq(Slots \X Levels) /\ outbox # <<>>
        BY <2>1 DEF FeedInv, TypeOK, Send, SendFails, Broadcast
      <4>2. Len(outbox) \in Nat \ {0} /\ DOMAIN outbox = 1..Len(outbox) /\ Head(outbox) = e
        BY <4>1, LenProperties, HeadTailProperties, EmptySeq
      <4>3. level' = [level EXCEPT ![Head(outbox)[1]] = Head(outbox)[2]]
        BY <2>1 DEF Send, SendFails, Broadcast
      <4>4. 1 \in DOMAIN outbox /\ Head(outbox) = e
        BY <4>2
      <4>5. level' = [level EXCEPT ![e[1]] = e[2]]
        BY <4>3, <4>4, Zenon
      <4>6. QED BY <4>4, <4>5
    <3>2. e[1] \in Slots /\ e[2] \in Levels
      BY <3>1, OutboxPairs DEF FeedInv
    <3>3. Alive(e[1]) /\ e[2] > level[e[1]]
      BY <3>1 DEF FeedInv, OutboxInOrder
    <3>4. ASSUME NEW higher \in Slots, higher > e[1] PROVE level[higher] # Finalized
      <4>1. cluster[higher] # Finalized
        BY <3>2, <3>3, <3>4 DEF Alive
      <4>2. /\ level[higher] <= cluster[higher]
            /\ level[higher] \in Nat
            /\ cluster[higher] \in 0..3
        BY DEF FeedInv, TrackingIsReal, TypeOK, Levels
      <4>3. QED BY <4>1, <4>2 DEF Finalized
    <3>5. Feed!Emit(e[1], e[2])
      BY <3>1, <3>3, <3>4 DEF Feed!Emit, Feed!MayEmit, Feed!Finalized, Finalized
    <3>6. QED BY <3>2, <3>5 DEF Feed!Next, Feed!Levels, Levels
  <2>2. CASE ~Send /\ ~SendFails
    <3>1. level' = level
      BY <2>2 DEF Next, Lost, HandleSlotUpdate, HandleOtherStatus, HandleBlockMeta,
                  ReceiverDropped, StreamOpens, StreamEnds, vars
    <3>2. QED BY <3>1
  <2>3. QED BY <2>1, <2>2
<1>3. QED BY <1>1, <1>2, FeedInvHolds, PTL DEF Spec, ImplementsFeed, Feed!Spec

=============================================================================
