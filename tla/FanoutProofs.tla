---------------------------- MODULE FanoutProofs ----------------------------
(***************************************************************************)
(* Proofs about TransactionFanout and the ClusterTpuInfo it is composed    *)
(* with: the schedule follows the slot, the slot never goes back, and no   *)
(* copy is on its way to a peer the policies refuse.                       *)
(***************************************************************************)
EXTENDS TransactionFanout, SequenceTheorems, FiniteSetTheorems, WellFoundedInduction, TLAPS

-----------------------------------------------------------------------------
(***************************************************************************)
(* Numbers                                                                 *)
(***************************************************************************)

\* A set of naturals has a least element.
LEMMA LeastNumber ==
  ASSUME NEW T \in SUBSET Nat, T # {}
  PROVE  \E m \in T : \A k \in T : m <= k
<1> DEFINE R == OpToRel(<, Nat)
<1>1. IsWellFoundedOn(R, Nat)
  BY NatLessThanWellFounded
<1> HIDE DEF R
<1>2. PICK x \in T : \A y \in T : ~(<<y, x>> \in R)
  BY <1>1, WFMin
<1>3. \A y \in T : ~(y < x)
  BY <1>2 DEF R, OpToRel
<1> QED
  BY <1>3

\* A bounded set of naturals has a greatest element, which Max returns.
LEMMA GreatestNumber ==
  ASSUME NEW K \in Nat, NEW S \in SUBSET (0..K), S # {}
  PROVE  Max(S) \in S /\ \A x \in S : x <= Max(S)
<1>1. PICK T : T = {K - x : x \in S}
  OBVIOUS
<1>2. T \in SUBSET Nat /\ T # {}
  <2>1. \A x \in S : x \in 0..K /\ K - x \in Nat
    OBVIOUS
  <2>2. T \in SUBSET Nat
    BY <1>1, <2>1
  <2>3. T # {}
    BY <1>1
  <2> QED
    BY <2>2, <2>3
<1>3. PICK m \in T : \A k \in T : m <= k
  BY <1>2, LeastNumber
<1>4. PICK x \in S : m = K - x
  BY <1>1, <1>3
<1>5. \A y \in S : x >= y
  <2> TAKE y \in S
  <2>1. K - y \in T
    BY <1>1
  <2>2. K - x <= K - y
    BY <2>1, <1>3, <1>4
  <2> QED
    BY <2>2
<1>6. \A y \in S : Max(S) >= y /\ Max(S) \in S
  BY <1>5 DEF Max
<1> QED
  BY <1>5, <1>6

-----------------------------------------------------------------------------
(***************************************************************************)
(* What Filtered returns                                                   *)
(***************************************************************************)

\* kept satisfies the recursion of Filtered up to n.
Keeps(kept, seq, S, n) ==
  /\ kept[0] = <<>>
  /\ \A i \in 1..n :
       kept[i] = IF seq[i] \in S THEN Append(kept[i - 1], seq[i]) ELSE kept[i - 1]

\* The recursion of Filtered has a solution.
LEMMA FilterExists ==
  ASSUME NEW seq, Len(seq) \in Nat, NEW S
  PROVE  \E kept : DOMAIN kept = 0..Len(seq) /\ Keeps(kept, seq, S, Len(seq))
<1> DEFINE Solved(n) == \E kept : DOMAIN kept = 0..n /\ Keeps(kept, seq, S, n)
<1>1. Solved(0)
  <2>1. PICK kept : kept = [i \in 0..0 |-> <<>>]
    OBVIOUS
  <2>2. DOMAIN kept = 0..0 /\ kept[0] = <<>>
    BY <2>1
  <2> QED
    BY <2>2 DEF Keeps
<1>2. ASSUME NEW n \in Nat, Solved(n)
      PROVE  Solved(n + 1)
  <2>1. PICK old : DOMAIN old = 0..n /\ Keeps(old, seq, S, n)
    BY <1>2
  <2>2. PICK last : last = IF seq[n + 1] \in S THEN Append(old[n], seq[n + 1]) ELSE old[n]
    OBVIOUS
  <2>3. PICK new : new = [i \in 0..(n + 1) |-> IF i = n + 1 THEN last ELSE old[i]]
    OBVIOUS
  <2>4. DOMAIN new = 0..(n + 1) /\ new[0] = <<>>
    BY <2>1, <2>3 DEF Keeps
  <2>5. \A i \in 0..n : new[i] = old[i]
    BY <2>3
  <2>6. new[n + 1] = last
    BY <2>3
  <2>7. ASSUME NEW i \in 1..(n + 1)
        PROVE  new[i] = IF seq[i] \in S THEN Append(new[i - 1], seq[i]) ELSE new[i - 1]
    <3>1. CASE i = n + 1
      <4>1. i - 1 = n /\ n \in 0..n
        BY <3>1
      <4>2. new[i - 1] = old[n]
        BY <4>1, <2>5
      <4> QED
        BY <4>2, <2>6, <2>2, <3>1
    <3>2. CASE i # n + 1
      <4>1. i \in 1..n /\ i \in 0..n /\ i - 1 \in 0..n
        BY <3>2
      <4> QED
        BY <4>1, <2>1, <2>5 DEF Keeps
    <3> QED
      BY <3>1, <3>2
  <2> QED
    BY <2>4, <2>7 DEF Keeps
<1> HIDE DEF Solved
<1>3. PICK T : T = {n \in Nat : ~Solved(n)}
  OBVIOUS
<1>4. CASE T = {}
  <2>1. Solved(Len(seq))
    BY <1>3, <1>4
  <2> QED
    BY <2>1 DEF Solved
<1>5. CASE T # {}
  <2>1. PICK m \in T : \A k \in T : m <= k
    BY <1>3, <1>5, LeastNumber
  <2>2. m \in Nat /\ m # 0
    BY <1>1, <1>3, <2>1
  <2>3. m - 1 \in Nat /\ m - 1 \notin T
    BY <2>1, <2>2
  <2>4. Solved(m - 1)
    BY <1>3, <2>3
  <2>5. Solved((m - 1) + 1)
    BY <1>2, <2>3, <2>4
  <2>6. (m - 1) + 1 = m
    BY <2>2
  <2> QED
    BY <2>5, <2>6, <1>3, <2>1
<1> QED
  BY <1>4, <1>5

\* Filtered is what a solution of its recursion ends with.
LEMMA FilterSolved ==
  ASSUME NEW seq, Len(seq) \in Nat, NEW S
  PROVE  \E kept : Keeps(kept, seq, S, Len(seq)) /\ Filtered(seq, S) = kept[Len(seq)]
<1> DEFINE Step(f) == [n \in 0..Len(seq) |->
             IF n = 0 THEN <<>>
             ELSE IF seq[n] \in S THEN Append(f[n - 1], seq[n]) ELSE f[n - 1]]
           Kept == CHOOSE f : f = Step(f)
<1>1. PICK g : DOMAIN g = 0..Len(seq) /\ Keeps(g, seq, S, Len(seq)) /\ g = [n \in DOMAIN g |-> g[n]]
  <2>1. PICK g : DOMAIN g = 0..Len(seq) /\ Keeps(g, seq, S, Len(seq))
    BY FilterExists
  <2>2. PICK h : h = [n \in 0..Len(seq) |-> g[n]]
    OBVIOUS
  <2>3. DOMAIN h = 0..Len(seq) /\ h = [n \in DOMAIN h |-> h[n]]
    BY <2>2
  <2>4. Keeps(h, seq, S, Len(seq))
    BY <2>1, <2>2 DEF Keeps
  <2> QED
    BY <2>3, <2>4
<1>2. g = Step(g)
  <2>1. \A n \in 0..Len(seq) : g[n] = Step(g)[n]
    BY <1>1 DEF Keeps
  <2> QED
    BY <1>1, <2>1
<1>3. Kept = Step(Kept)
  BY <1>2
<1>4. Filtered(seq, S) = Kept[Len(seq)]
  BY DEF Filtered
<1> HIDE DEF Kept
<1>5. Keeps(Kept, seq, S, Len(seq))
  <2>1. 0 \in 0..Len(seq)
    OBVIOUS
  <2>2. Kept[0] = <<>>
    BY <1>3, <2>1
  <2>3. ASSUME NEW i \in 1..Len(seq)
        PROVE  Kept[i] = IF seq[i] \in S THEN Append(Kept[i - 1], seq[i]) ELSE Kept[i - 1]
    <3>1. i \in 0..Len(seq) /\ i # 0
      OBVIOUS
    <3> QED
      BY <3>1, <1>3
  <2> QED
    BY <2>2, <2>3 DEF Keeps
<1> QED
  BY <1>4, <1>5

\* Filtered returns a sequence of elements of seq that are in S.
LEMMA FilterType ==
  ASSUME NEW E, NEW seq \in Seq(E), NEW S
  PROVE  Filtered(seq, S) \in Seq(E \cap S)
<1>1. Len(seq) \in Nat /\ \A i \in 1..Len(seq) : seq[i] \in E
  BY ElementOfSeq
<1>2. PICK kept : Keeps(kept, seq, S, Len(seq)) /\ Filtered(seq, S) = kept[Len(seq)]
  BY <1>1, FilterSolved
<1>3. PICK T : T = {n \in 0..Len(seq) : kept[n] \notin Seq(E \cap S)}
  OBVIOUS
<1>4. CASE T = {}
  BY <1>1, <1>2, <1>3, <1>4
<1>5. CASE T # {}
  <2>1. T \in SUBSET Nat
    BY <1>1, <1>3
  <2>2. PICK m \in T : \A k \in T : m <= k
    BY <1>5, <2>1, LeastNumber
  <2>3. m \in 0..Len(seq) /\ kept[m] \notin Seq(E \cap S)
    BY <1>3, <2>2
  <2>4. m # 0
    <3>1. <<>> \in Seq(E \cap S)
      OBVIOUS
    <3> QED
      BY <3>1, <2>3, <1>2 DEF Keeps
  <2>5. m \in 1..Len(seq) /\ m - 1 \in 0..Len(seq) /\ m - 1 \notin T
    BY <1>1, <2>1, <2>2, <2>3, <2>4
  <2>6. kept[m - 1] \in Seq(E \cap S)
    BY <1>3, <2>5
  <2>7. seq[m] \in E
    BY <1>1, <2>5
  <2>8. kept[m] = IF seq[m] \in S THEN Append(kept[m - 1], seq[m]) ELSE kept[m - 1]
    BY <1>2, <2>5 DEF Keeps
  <2>9. CASE seq[m] \in S
    <3>1. seq[m] \in E \cap S
      BY <2>7, <2>9
    <3>2. Append(kept[m - 1], seq[m]) \in Seq(E \cap S)
      BY <3>1, <2>6, AppendProperties
    <3> QED
      BY <3>2, <2>8, <2>9, <2>3
  <2>10. CASE seq[m] \notin S
    BY <2>6, <2>8, <2>10, <2>3
  <2> QED
    BY <2>9, <2>10
<1> QED
  BY <1>4, <1>5

-----------------------------------------------------------------------------
(***************************************************************************)
(* ClusterTpuInfo                                                          *)
(***************************************************************************)

\* The invariant of the cluster's part: a slot whose schedule is fetched is one
\* that was heard of, and so has a leader.
ClusterInv ==
  /\ slot \in {0} \cup Heard
  /\ DOMAIN leader_schedule \subseteq LeaderSlots
  /\ cluster_nodes \in {{}} \cup NodeSets
  /\ updates \in [queue : Seq(Update), lagged : BOOLEAN]
  /\ Len(updates.queue) <= UpdateCapacity
  /\ follow \in [pc : {"recv", "drain", "fetch", "ended"}, new_latest_slot : {0} \cup Heard]
  /\ cluster \in [updates : 0..MaxUpdates, changes : 0..MaxNodeChanges, missed : SUBSET Heard,
                 fetched : {0} \cup Heard, unnamed : SUBSET Peers]
  /\ follow.pc = "fetch" => slot # 0
  /\ ScheduleFollowsSlot

\* What the constants are.
LEMMA ClusterConstants ==
  /\ Cardinality(DOMAIN Leader) \in Nat
  /\ Heard \subseteq LeaderSlots
  /\ LeaderSlots \subseteq 0..(4 * Cardinality(DOMAIN Leader))
  /\ \A s \in LeaderSlots : Leader[WindowOf(s)] \in Peers
  /\ EpochSlots \in Nat \ {0} /\ UpdateCapacity \in Nat \ {0}
  /\ MaxUpdates \in Nat /\ MaxNodeChanges \in Nat /\ Retention \in Nat
  /\ NodeSets \subseteq SUBSET Peers
<1>1. Cardinality(DOMAIN Leader) \in Nat
  BY ClusterAssumption, FS_CardinalityType
<1>2. PICK n \in Nat : n = Cardinality(DOMAIN Leader)
  BY <1>1
<1>3. Leader \in [0..(n - 1) -> Peers]
  BY <1>2, ClusterAssumption
<1>4. LeaderSlots = 0..(4 * n - 1)
  BY <1>2 DEF LeaderSlots, NUM_CONSECUTIVE_LEADER_SLOTS
<1>5. \A s \in LeaderSlots : WindowOf(s) \in 0..(n - 1)
  BY <1>4 DEF WindowOf, NUM_CONSECUTIVE_LEADER_SLOTS
<1>6. \A s \in LeaderSlots : Leader[WindowOf(s)] \in Peers
  BY <1>3, <1>5
<1>7. LeaderSlots \subseteq 0..(4 * n)
  BY <1>4
<1> QED
  BY <1>1, <1>2, <1>6, <1>7, ClusterAssumption

LEMMA ClusterInvTypes == ClusterInv => ClusterTypeOK
  BY ClusterConstants DEF ClusterInv, ClusterTypeOK, ScheduleFollowsSlot

LEMMA ClusterInitInv == ClusterInit => ClusterInv
<1> SUFFICES ASSUME ClusterInit PROVE ClusterInv
  OBVIOUS
<1> USE DEF ClusterInit
<1>1. DOMAIN leader_schedule = {}
  OBVIOUS
<1>2. updates \in [queue : Seq(Update), lagged : BOOLEAN] /\ Len(updates.queue) <= UpdateCapacity
  <2>1. <<>> \in Seq(Update) /\ Len(<<>>) = 0
    OBVIOUS
  <2>2. updates.queue = <<>>
    OBVIOUS
  <2>3. Len(updates.queue) <= UpdateCapacity
    BY <2>1, <2>2, ClusterConstants
  <2> QED
    BY <2>1, <2>3
<1>3. follow \in [pc : {"recv", "drain", "fetch", "ended"}, new_latest_slot : {0} \cup Heard]
  OBVIOUS
<1>4. cluster \in [updates : 0..MaxUpdates, changes : 0..MaxNodeChanges, missed : SUBSET Heard,
                     fetched : {0} \cup Heard, unnamed : SUBSET Peers]
  <2>1. 0 \in 0..MaxUpdates /\ 0 \in 0..MaxNodeChanges
    BY ClusterConstants
  <2> QED
    BY <2>1
<1>5. ScheduleFollowsSlot
  BY <1>1 DEF ScheduleFollowsSlot
<1> QED
  BY <1>1, <1>2, <1>3, <1>4, <1>5 DEF ClusterInv

LEMMA SlotUpdateSentInv ==
  ASSUME ClusterInv, NEW update \in Update, SlotUpdateSent(update)
  PROVE  ClusterInv' /\ slot' >= slot
<1> PICK q \in Seq(Update), lag \in BOOLEAN : q = updates.queue /\ lag = updates.lagged
  BY DEF ClusterInv
<1>1. slot' = slot /\ leader_schedule' = leader_schedule /\ cluster_nodes' = cluster_nodes
      /\ follow' = follow
  BY DEF SlotUpdateSent
<1>2. updates' \in [queue : Seq(Update), lagged : BOOLEAN] /\ Len(updates'.queue) <= UpdateCapacity
  <2>1. CASE Len(q) < UpdateCapacity
    <3>1. updates' = [updates EXCEPT !.queue = Append(q, update)]
      BY <2>1 DEF SlotUpdateSent
    <3>2. Append(q, update) \in Seq(Update) /\ Len(Append(q, update)) = Len(q) + 1 /\ Len(q) \in Nat
      BY AppendProperties, LenProperties
    <3>3. updates'.queue = Append(q, update) /\ updates' \in [queue : Seq(Update), lagged : BOOLEAN]
      BY <3>1, <3>2 DEF ClusterInv
    <3> QED
      BY <2>1, <3>2, <3>3, ClusterConstants
  <2>2. CASE ~(Len(q) < UpdateCapacity)
    <3>1. updates' = [queue |-> Append(Tail(q), update), lagged |-> TRUE]
      BY <2>2 DEF SlotUpdateSent
    <3>2. Len(q) \in Nat /\ Len(q) = UpdateCapacity /\ q # <<>>
      BY <2>2, ClusterConstants, LenProperties, EmptySeq DEF ClusterInv
    <3>3. Tail(q) \in Seq(Update) /\ Len(Tail(q)) = Len(q) - 1
      BY <3>2, HeadTailProperties
    <3>4. Append(Tail(q), update) \in Seq(Update) /\ Len(Append(Tail(q), update)) = Len(Tail(q)) + 1
      BY <3>3, AppendProperties
    <3>5. Len(Append(Tail(q), update)) <= UpdateCapacity
      BY <3>2, <3>3, <3>4, ClusterConstants
    <3> QED
      BY <3>1, <3>4, <3>5
  <2> QED
    BY <2>1, <2>2
<1>3. cluster' \in [updates : 0..MaxUpdates, changes : 0..MaxNodeChanges, missed : SUBSET Heard,
                      fetched : {0} \cup Heard, unnamed : SUBSET Peers]
  <2>1. PICK u : u = cluster.updates /\ u + 1 \in 0..MaxUpdates
    BY ClusterConstants DEF ClusterInv, SlotUpdateSent
  <2>2. CASE Len(q) < UpdateCapacity
    <3>1. cluster' = [cluster EXCEPT !.updates = u + 1]
      BY <2>1, <2>2 DEF SlotUpdateSent
    <3> QED
      BY <2>1, <3>1 DEF ClusterInv
  <2>3. CASE ~(Len(q) < UpdateCapacity)
    <3>1. Len(q) \in Nat /\ q # <<>>
      BY <2>3, ClusterConstants, LenProperties, EmptySeq DEF ClusterInv
    <3>2. Head(q) \in Update
      BY <3>1, HeadTailProperties
    <3>3. PICK h \in Heard : h = Head(q).slot
      BY <3>2 DEF Update
    <3>4. cluster' = [cluster EXCEPT !.updates = u + 1, !.missed = @ \cup {h}]
      BY <2>1, <2>3, <3>3 DEF SlotUpdateSent
    <3> QED
      BY <2>1, <3>3, <3>4 DEF ClusterInv
  <2> QED
    BY <2>2, <2>3
<1>6. cluster'.fetched = cluster.fetched /\ cluster'.unnamed = cluster.unnamed
  BY DEF ClusterInv, SlotUpdateSent
<1>4. ScheduleFollowsSlot'
  BY <1>1, <1>6 DEF ClusterInv, ScheduleFollowsSlot
<1>5. slot \in Nat
  BY ClusterConstants DEF ClusterInv
<1> QED
  BY <1>1, <1>2, <1>3, <1>4, <1>5 DEF ClusterInv

LEMMA RecvSlotUpdateInv ==
  ASSUME ClusterInv, RecvSlotUpdate
  PROVE  ClusterInv' /\ slot' >= slot
<1> PICK q \in Seq(Update), lag \in BOOLEAN : q = updates.queue /\ lag = updates.lagged
  BY DEF ClusterInv
<1>1. slot' = slot /\ leader_schedule' = leader_schedule /\ cluster_nodes' = cluster_nodes
      /\ cluster' = cluster
  BY DEF RecvSlotUpdate
<1>2. follow' \in [pc : {"recv", "drain", "fetch", "ended"}, new_latest_slot : {0} \cup Heard]
      /\ follow'.pc # "fetch"
  <2>1. CASE follow' = [follow EXCEPT !.pc = "ended"]
    BY <2>1 DEF ClusterInv
  <2>2. CASE q # <<>> /\ follow' = IF Head(q).counts
                       THEN [pc |-> "drain", new_latest_slot |-> Head(q).slot] ELSE follow
    <3>1. Head(q) \in Update
      BY <2>2, HeadTailProperties
    <3>2. Head(q).slot \in Heard
      BY <3>1 DEF Update
    <3> QED
      BY <2>2, <3>2 DEF ClusterInv, RecvSlotUpdate
  <2> QED
    BY <2>1, <2>2 DEF RecvSlotUpdate
<1>3. updates' \in [queue : Seq(Update), lagged : BOOLEAN] /\ Len(updates'.queue) <= UpdateCapacity
  <2>1. CASE updates' = updates
    BY <2>1 DEF ClusterInv
  <2>2. CASE q # <<>> /\ updates' = [updates EXCEPT !.queue = Tail(q)]
    <3>1. Tail(q) \in Seq(Update) /\ Len(Tail(q)) = Len(q) - 1 /\ Len(q) \in Nat
      BY <2>2, HeadTailProperties, LenProperties
    <3>2. updates'.queue = Tail(q) /\ updates' \in [queue : Seq(Update), lagged : BOOLEAN]
      BY <2>2, <3>1 DEF ClusterInv
    <3> QED
      BY <3>1, <3>2, ClusterConstants DEF ClusterInv
  <2> QED
    BY <2>1, <2>2 DEF RecvSlotUpdate
<1>4. follow.pc = "recv"
  BY DEF RecvSlotUpdate
<1>5. ScheduleFollowsSlot'
  BY <1>1, <1>2, <1>4 DEF ClusterInv, ScheduleFollowsSlot
<1>6. slot \in Nat
  BY ClusterConstants DEF ClusterInv
<1> QED
  BY <1>1, <1>2, <1>3, <1>5, <1>6 DEF ClusterInv

\* The highest slot is one that was heard of, and at least the first.
LEMMA HighestHeard ==
  ASSUME NEW s \in {0} \cup Heard, NEW q \in Seq(Update)
  PROVE  Highest(s, q) \in {0} \cup Heard /\ Highest(s, q) >= s
<1>1. PICK K \in Nat : K = 4 * Cardinality(DOMAIN Leader)
  BY ClusterConstants
<1>2. Heard \subseteq 0..K
  BY <1>1, ClusterConstants
<1>3. CountedSlots(q) \subseteq Heard
  <2> SUFFICES ASSUME NEW i \in DOMAIN q PROVE q[i].slot \in Heard
    BY DEF CountedSlots
  <2>1. i \in 1..Len(q)
    BY LenProperties
  <2>2. q[i] \in Update
    BY <2>1, ElementOfSeq
  <2> QED
    BY <2>2 DEF Update
<1>4. PICK S : S = CountedSlots(q) \cup {s}
  OBVIOUS
<1>5. S \in SUBSET (0..K) /\ s \in S /\ S \subseteq {0} \cup Heard
  <2>1. {0} \cup Heard \subseteq 0..K
    BY <1>1, <1>2
  <2>2. S \subseteq {0} \cup Heard /\ s \in S
    BY <1>3, <1>4
  <2> QED
    BY <2>1, <2>2, Zenon
<1>6. Max(S) \in S /\ \A x \in S : x <= Max(S)
  BY <1>5, GreatestNumber
<1>7. Highest(s, q) = Max(S)
  BY <1>4 DEF Highest
<1> QED
  BY <1>5, <1>6, <1>7

LEMMA DrainSlotUpdatesInv ==
  ASSUME ClusterInv, DrainSlotUpdates
  PROVE  ClusterInv' /\ slot' >= slot
<1> PICK q \in Seq(Update), lag \in BOOLEAN : q = updates.queue /\ lag = updates.lagged
  BY DEF ClusterInv
<1>1. leader_schedule' = leader_schedule /\ cluster_nodes' = cluster_nodes /\ cluster' = cluster
  BY DEF DrainSlotUpdates
<1>2. <<>> \in Seq(Update) /\ Len(<<>>) = 0
  OBVIOUS
<1>3. Pending \in Seq(Update)
  BY <1>2 DEF Pending
<1>4. PICK new : new = Highest(follow.new_latest_slot, Pending)
  OBVIOUS
<1>5. new \in {0} \cup Heard
  <2>1. follow.new_latest_slot \in {0} \cup Heard
    BY DEF ClusterInv
  <2> QED
    BY <1>3, <1>4, <2>1, HighestHeard
<1>6. slot \in Nat /\ new \in Nat
  BY <1>5, ClusterConstants DEF ClusterInv
<1>7. /\ updates' = IF updates.lagged THEN [updates EXCEPT !.lagged = FALSE]
                                      ELSE [updates EXCEPT !.queue = <<>>]
      /\ slot' = IF slot < new THEN new ELSE slot
      /\ follow' = IF slot < new /\ new \notin DOMAIN leader_schedule
                     THEN [follow EXCEPT !.pc = "fetch", !.new_latest_slot = 0] ELSE Waits
  BY <1>4 DEF DrainSlotUpdates, IsNew, NeedScheduleUpdate
<1>8. slot' \in {0} \cup Heard /\ slot' >= slot
  BY <1>5, <1>6, <1>7 DEF ClusterInv
<1>9. updates' \in [queue : Seq(Update), lagged : BOOLEAN] /\ Len(updates'.queue) <= UpdateCapacity
  <2>1. CASE lag
    <3>1. updates' = [updates EXCEPT !.lagged = FALSE]
      BY <2>1, <1>7
    <3> QED
      BY <3>1 DEF ClusterInv
  <2>2. CASE ~lag
    <3>1. updates' = [updates EXCEPT !.queue = <<>>]
      BY <2>2, <1>7
    <3>2. updates'.queue = <<>> /\ updates' \in [queue : Seq(Update), lagged : BOOLEAN]
      BY <3>1, <1>2 DEF ClusterInv
    <3> QED
      BY <3>2, <1>2, ClusterConstants
  <2> QED
    BY <2>1, <2>2
<1>10. follow' \in [pc : {"recv", "drain", "fetch", "ended"}, new_latest_slot : {0} \cup Heard]
       /\ (follow'.pc = "fetch" <=> slot < new /\ new \notin DOMAIN leader_schedule)
  BY <1>7 DEF ClusterInv, Waits
<1>11. follow'.pc = "fetch" => slot' # 0
  BY <1>6, <1>7, <1>10
<1>12. ScheduleFollowsSlot'
  <2>1. \A s \in DOMAIN leader_schedule : leader_schedule[s] = Leader[WindowOf(s)]
    BY DEF ClusterInv, ScheduleFollowsSlot
  <2>2. slot' # 0 /\ follow'.pc # "fetch" =>
          \/ slot' \in DOMAIN leader_schedule
          \/ cluster.fetched = slot' /\ Leader[WindowOf(slot')] \in cluster.unnamed
    <3>1. CASE slot < new
      BY <3>1, <1>7, <1>10
    <3>2. CASE ~(slot < new)
      <4>1. slot' = slot /\ follow.pc = "drain"
        BY <3>2, <1>7 DEF DrainSlotUpdates
      <4> QED
        BY <4>1 DEF ClusterInv, ScheduleFollowsSlot
    <3> QED
      BY <3>1, <3>2
  <2> QED
    BY <1>1, <2>1, <2>2 DEF ScheduleFollowsSlot
<1> QED
  BY <1>1, <1>8, <1>9, <1>10, <1>11, <1>12 DEF ClusterInv

\* A slot is one of its epoch.
LEMMA SlotOfEpoch ==
  ASSUME NEW s \in Nat
  PROVE  /\ EpochStart(s) \in Nat
         /\ s % EpochSlots \in 0..(EpochSlots - 1)
         /\ EpochStart(s) + (s % EpochSlots) = s
<1>1. EpochSlots \in Nat /\ EpochSlots > 0
  BY ClusterConstants
<1>2. s % EpochSlots \in 0..(EpochSlots - 1) /\ s % EpochSlots <= s
  BY <1>1
<1> QED
  BY <1>2 DEF EpochStart

\* The leaders that the answer names are added where they belong, the slot's own
\* among them if it is named, however few of the older entries are retained.
LEMMA LeaderScheduleFetchedInv ==
  ASSUME ClusterInv, NEW named \in Named, LeaderScheduleFetched(named)
  PROVE  ClusterInv' /\ slot' >= slot
<1>1. slot' = slot /\ cluster_nodes' = cluster_nodes /\ updates' = updates /\ follow' = Waits
      /\ cluster' = [cluster EXCEPT !.fetched = slot, !.unnamed = Peers \ named]
  BY DEF LeaderScheduleFetched
<1>2. slot \in Nat /\ slot \in LeaderSlots
  BY ClusterConstants DEF ClusterInv, LeaderScheduleFetched
<1>3. PICK start \in Nat : start = EpochStart(slot)
  BY <1>2, SlotOfEpoch
<1>4. PICK I : I = {j \in 0..(EpochSlots - 1) : /\ start + j \in LeaderSlots
                                                /\ Leader[WindowOf(start + j)] \in named}
  OBVIOUS
<1>5. PICK answer : answer = [i \in I |-> Leader[WindowOf(start + i)]]
  OBVIOUS
<1>6. PICK retained : retained = {s \in DOMAIN leader_schedule : s + Retention > slot}
  OBVIOUS
<1>7. PICK added : added = {start + i : i \in I}
  OBVIOUS
<1>8. answer = RpcLeaderSchedule(slot, named) /\ DOMAIN answer = I
  BY <1>3, <1>4, <1>5 DEF RpcLeaderSchedule
<1>9. leader_schedule' = [s \in retained \cup added |->
        IF s \in added THEN answer[CHOOSE i \in I : start + i = s] ELSE leader_schedule[s]]
  BY <1>3, <1>6, <1>7, <1>8 DEF LeaderScheduleFetched, AbsoluteSlot
<1>10. DOMAIN leader_schedule' = retained \cup added
  BY <1>9
<1>11. retained \subseteq DOMAIN leader_schedule /\ added \subseteq LeaderSlots
  BY <1>4, <1>6, <1>7
<1>12. ASSUME NEW s \in added
       PROVE  leader_schedule'[s] = Leader[WindowOf(s)]
  <2>1. PICK i : i = CHOOSE j \in I : start + j = s
    OBVIOUS
  <2>2. i \in I /\ start + i = s
    BY <1>7, <2>1
  <2>3. leader_schedule'[s] = answer[i]
    BY <1>9, <2>1
  <2> QED
    BY <1>5, <2>2, <2>3
<1>13. ASSUME NEW s \in retained, s \notin added
       PROVE  leader_schedule'[s] = Leader[WindowOf(s)]
  BY <1>9, <1>11, <1>13 DEF ClusterInv, ScheduleFollowsSlot
<1>14. ASSUME Leader[WindowOf(slot)] \in named
       PROVE  slot \in added
  <2>1. PICK j : j = slot % EpochSlots
    OBVIOUS
  <2>2. j \in 0..(EpochSlots - 1) /\ start + j = slot
    BY <1>2, <1>3, <2>1, SlotOfEpoch
  <2>3. j \in I
    BY <1>2, <1>4, <1>14, <2>2
  <2> QED
    BY <1>7, <2>2, <2>3
<1>15. /\ cluster' \in [updates : 0..MaxUpdates, changes : 0..MaxNodeChanges, missed : SUBSET Heard,
                        fetched : {0} \cup Heard, unnamed : SUBSET Peers]
       /\ cluster'.fetched = slot /\ cluster'.unnamed = Peers \ named
  BY <1>1 DEF ClusterInv
<1>16. slot \in DOMAIN leader_schedule' \/ Leader[WindowOf(slot)] \in cluster'.unnamed
  <2>1. Leader[WindowOf(slot)] \in Peers
    BY <1>2, ClusterConstants
  <2> QED
    BY <1>10, <1>14, <1>15, <2>1
<1>17. ScheduleFollowsSlot'
  BY <1>1, <1>10, <1>12, <1>13, <1>15, <1>16 DEF ScheduleFollowsSlot
<1>18. DOMAIN leader_schedule' \subseteq LeaderSlots
  BY <1>10, <1>11 DEF ClusterInv
<1>19. Waits \in [pc : {"recv", "drain", "fetch", "ended"}, new_latest_slot : {0} \cup Heard]
       /\ Waits.pc # "fetch"
  BY DEF Waits
<1> QED
  BY <1>1, <1>2, <1>15, <1>17, <1>18, <1>19 DEF ClusterInv

LEMMA ClusterNodesUpdatedInv ==
  ASSUME ClusterInv, NEW nodes \in NodeSets, ClusterNodesUpdated(nodes)
  PROVE  ClusterInv' /\ slot' >= slot
<1>1. slot' = slot /\ leader_schedule' = leader_schedule /\ cluster_nodes' = nodes
      /\ updates' = updates /\ follow' = follow
  BY DEF ClusterNodesUpdated
<1>2. PICK n : n = cluster.changes /\ n + 1 \in 0..MaxNodeChanges
  BY ClusterConstants DEF ClusterInv, ClusterNodesUpdated
<1>3. cluster' = [cluster EXCEPT !.changes = n + 1]
  BY <1>2 DEF ClusterNodesUpdated
<1>4. cluster' \in [updates : 0..MaxUpdates, changes : 0..MaxNodeChanges, missed : SUBSET Heard,
                      fetched : {0} \cup Heard, unnamed : SUBSET Peers]
  BY <1>2, <1>3 DEF ClusterInv
<1>5. ScheduleFollowsSlot'
  <2>1. cluster'.fetched = cluster.fetched /\ cluster'.unnamed = cluster.unnamed
    BY <1>3 DEF ClusterInv
  <2> QED
    BY <1>1, <2>1 DEF ClusterInv, ScheduleFollowsSlot
<1>6. slot \in Nat
  BY ClusterConstants DEF ClusterInv
<1> QED
  BY <1>1, <1>4, <1>5, <1>6 DEF ClusterInv

LEMMA ClusterStepInv ==
  ASSUME ClusterInv, ClusterStep
  PROVE  ClusterInv' /\ slot' >= slot
  BY SlotUpdateSentInv, RecvSlotUpdateInv, DrainSlotUpdatesInv, LeaderScheduleFetchedInv,
     ClusterNodesUpdatedInv DEF ClusterStep, FollowStep

LEMMA ClusterStutterInv ==
  ASSUME ClusterInv, UNCHANGED clusterVars
  PROVE  ClusterInv' /\ slot' >= slot
<1>1. slot \in Nat
  BY ClusterConstants DEF ClusterInv
<1> QED
  BY <1>1 DEF ClusterInv, clusterVars, ScheduleFollowsSlot

-----------------------------------------------------------------------------
(***************************************************************************)
(* TransactionFanout                                                       *)
(***************************************************************************)

\* The peers a copy of s may be sent to, and such copies.
Permitted(s, extra) == {p \in Peers : <<s, p>> \notin Denied \/ p \in ToSet(extra)}
PermittedCopies(extra) == {c \in Copies : c[2] \in Permitted(c[1], extra)}

\* Every copy is permitted from the lookup of the leaders on, in the task and
\* in the channel; the gateway holds none of the others.
FanoutInv ==
  /\ extra_fwd \in ExtraFwds
  /\ inflight_transactions \in SUBSET Sigs
  /\ transaction_send_set \in Seq(Task)
  /\ \A t \in DOMAIN transaction_send_set :
       transaction_send_set[t].rest \in Seq(Permitted(transaction_send_set[t].sig, extra_fwd))
  /\ tpu \in Seq(PermittedCopies(extra_fwd))
  /\ Len(tpu) <= Capacity
  /\ gateway \in [Copies -> Nat]
  /\ \A c \in Copies \ PermittedCopies(extra_fwd) : gateway[c] = 0
  /\ responses \in Seq(SUBSET Sigs)

FanoutAndClusterInv == ClusterInv /\ FanoutInv

LEMMA FanoutInitInv == Init => FanoutAndClusterInv
<1> SUFFICES ASSUME Init PROVE FanoutInv
  BY ClusterInitInv DEF Init, FanoutAndClusterInv
<1> USE DEF Init
<1>1. <<>> \in Seq(Task) /\ <<>> \in Seq(PermittedCopies(extra_fwd)) /\ <<>> \in Seq(SUBSET Sigs)
  OBVIOUS
<1>2. Len(tpu) = 0 /\ DOMAIN transaction_send_set = {}
  OBVIOUS
<1>3. Len(tpu) <= Capacity
  BY <1>2, FanoutAssumption
<1>4. gateway \in [Copies -> Nat] /\ \A c \in Copies : gateway[c] = 0
  OBVIOUS
<1> QED
  BY <1>1, <1>2, <1>3, <1>4 DEF FanoutInv

\* An element of a sequence whose sequence is one over a smaller set.
LEMMA SubsetSeq ==
  ASSUME NEW S, NEW T, S \subseteq T, NEW q \in Seq(S)
  PROVE  q \in Seq(T)
  OBVIOUS

\* The leaders a task looks up are peers.
LEMMA LeaderTpusType ==
  ASSUME ClusterInv, NEW n \in Nat
  PROVE  LeaderTpus(n) \in Seq(Peers)
<1>1. slot \in Nat
  BY ClusterConstants DEF ClusterInv
<1>2. PICK look : look = Lookahead(n)
  OBVIOUS
<1>3. look \in Seq(Nat)
  <2>1. n + 1 \in Nat /\ look = [i \in 1..(n + 1) |-> slot + (i - 1) * 4]
    BY <1>2 DEF Lookahead, NUM_CONSECUTIVE_LEADER_SLOTS
  <2>2. \A i \in 1..(n + 1) : slot + (i - 1) * 4 \in Nat
    BY <1>1
  <2> QED
    BY <2>1, <2>2
<1>4. PICK slots : slots = Filtered(look, Reachable)
  OBVIOUS
<1>5. slots \in Seq(Nat \cap Reachable)
  BY <1>3, <1>4, FilterType
<1>6. PICK len \in Nat : len = Len(slots) /\ DOMAIN slots = 1..len
  BY <1>5, LenProperties
<1>7. \A i \in 1..len : slots[i] \in Reachable
  BY <1>5, <1>6, ElementOfSeq
<1>8. \A s \in Reachable : leader_schedule[s] \in Peers
  BY ClusterConstants DEF Reachable, ClusterInv, ScheduleFollowsSlot
<1>9. LeaderTpus(n) = [i \in 1..len |-> leader_schedule[slots[i]]]
  BY <1>2, <1>4, <1>6 DEF LeaderTpus
<1> QED
  BY <1>7, <1>8, <1>9

\* Leaders that are refused are left out; extra destinations are permitted.
LEMMA RestPermitted ==
  ASSUME extra_fwd \in ExtraFwds, NEW s \in Sigs, NEW leaders \in Seq(Peers)
  PROVE  Allowed(s, leaders) \o Extra(Allowed(s, leaders)) \in Seq(Permitted(s, extra_fwd))
<1>1. PICK sent : sent = Allowed(s, leaders)
  OBVIOUS
<1>2. PICK ok : ok = {p \in Peers : <<s, p>> \notin Denied}
  OBVIOUS
<1>3. sent \in Seq(Peers \cap ok)
  BY <1>1, <1>2, FilterType DEF Allowed
<1>4. Peers \cap ok \subseteq Permitted(s, extra_fwd)
  BY <1>2 DEF Permitted
<1>5. sent \in Seq(Permitted(s, extra_fwd))
  BY <1>3, <1>4, SubsetSeq
<1>6. PICK extra : extra = ToSet(extra_fwd)
  OBVIOUS
<1>7. extra_fwd \in Seq(Peers \cap extra)
  <2>1. extra_fwd \in Seq(Peers)
    BY FanoutAssumption
  <2>2. DOMAIN extra_fwd = 1..Len(extra_fwd) /\ Len(extra_fwd) \in Nat
    BY <2>1, LenProperties
  <2>3. \A i \in 1..Len(extra_fwd) : extra_fwd[i] \in Peers /\ extra_fwd[i] \in extra
    BY <2>1, <2>2, <1>6, ElementOfSeq DEF ToSet
  <2> QED
    BY <2>1, <2>2, <2>3
<1>8. PICK fresh : fresh = Peers \ ToSet(sent)
  OBVIOUS
<1>9. Extra(sent) \in Seq((Peers \cap extra) \cap fresh)
  BY <1>7, <1>8, FilterType DEF Extra
<1>10. (Peers \cap extra) \cap fresh \subseteq Permitted(s, extra_fwd)
  BY <1>6 DEF Permitted
<1>11. Extra(sent) \in Seq(Permitted(s, extra_fwd))
  BY <1>9, <1>10, SubsetSeq
<1> QED
  BY <1>1, <1>5, <1>11, ConcatProperties

\* A task is replaced by one that is well-typed and keeps to what is permitted.
LEMMA TaskReplaced ==
  ASSUME FanoutInv, NEW t \in DOMAIN transaction_send_set, NEW task \in Task,
         task.rest \in Seq(Permitted(task.sig, extra_fwd)),
         transaction_send_set' = [transaction_send_set EXCEPT ![t] = task]
  PROVE  /\ transaction_send_set' \in Seq(Task)
         /\ \A u \in DOMAIN transaction_send_set' :
              transaction_send_set'[u].rest \in Seq(Permitted(transaction_send_set'[u].sig, extra_fwd))
<1>1. transaction_send_set \in Seq(Task)
  BY DEF FanoutInv
<1>2. PICK n \in Nat : n = Len(transaction_send_set) /\ DOMAIN transaction_send_set = 1..n
  BY <1>1, LenProperties
<1>3. \A u \in 1..n : transaction_send_set[u] \in Task
  BY <1>1, <1>2, ElementOfSeq
<1>4. DOMAIN transaction_send_set' = 1..n
  BY <1>2
<1>5. \A u \in 1..n : transaction_send_set'[u] = IF u = t THEN task ELSE transaction_send_set[u]
  BY <1>1, <1>2
<1>6. transaction_send_set' \in [1..n -> Task]
  BY <1>2, <1>3
<1>7. transaction_send_set' \in Seq(Task)
  BY <1>6, SeqDef
<1>8. ASSUME NEW u \in 1..n
      PROVE  transaction_send_set'[u].rest \in Seq(Permitted(transaction_send_set'[u].sig, extra_fwd))
  BY <1>2, <1>5 DEF FanoutInv
<1> QED
  BY <1>4, <1>7, <1>8

LEMMA FwdTxInv ==
  ASSUME FanoutInv, NEW s \in Sigs, FwdTx(s)
  PROVE  FanoutInv'
<1>1. tpu' = tpu /\ gateway' = gateway /\ responses' = responses /\ extra_fwd' = extra_fwd
      /\ inflight_transactions' = inflight_transactions \cup {s}
      /\ transaction_send_set' = Append(transaction_send_set, Spawned(s))
  BY DEF FwdTx
<1>2. Spawned(s) \in Task
  <2>1. <<>> \in Seq(Peers)
    OBVIOUS
  <2> QED
    BY <2>1 DEF Spawned, Task
<1>3. PICK n \in Nat : n = Len(transaction_send_set) /\ DOMAIN transaction_send_set = 1..n
  BY LenProperties DEF FanoutInv
<1>4. transaction_send_set' \in Seq(Task) /\ DOMAIN transaction_send_set' = 1..(n + 1)
  <2>1. transaction_send_set' \in Seq(Task) /\ Len(transaction_send_set') = n + 1
    BY <1>1, <1>2, <1>3, AppendProperties DEF FanoutInv
  <2> QED
    BY <2>1, LenProperties
<1>5. ASSUME NEW u \in 1..(n + 1)
      PROVE  transaction_send_set'[u].rest \in Seq(Permitted(transaction_send_set'[u].sig, extra_fwd))
  <2>1. CASE u = n + 1
    <3>1. transaction_send_set'[u] = Spawned(s)
      BY <1>1, <1>2, <1>3, <2>1, AppendProperties DEF FanoutInv
    <3>2. Spawned(s).rest = <<>>
      BY DEF Spawned
    <3> QED
      BY <3>1, <3>2
  <2>2. CASE u # n + 1
    <3>1. u \in 1..n
      BY <2>2
    <3>2. transaction_send_set'[u] = transaction_send_set[u]
      BY <1>1, <1>2, <1>3, <3>1, AppendProperties DEF FanoutInv
    <3> QED
      BY <1>3, <3>1, <3>2 DEF FanoutInv
  <2> QED
    BY <2>1, <2>2
<1> QED
  BY <1>1, <1>4, <1>5 DEF FanoutInv

\* The task of the step, with its fields named.
LEMMA TaskFields ==
  ASSUME FanoutInv, NEW t \in DOMAIN transaction_send_set
  PROVE  /\ transaction_send_set[t] \in Task
         /\ transaction_send_set[t].sig \in Sigs
         /\ transaction_send_set[t].fanout_count \in 0..2
         /\ transaction_send_set[t].rest \in Seq(Permitted(transaction_send_set[t].sig, extra_fwd))
<1>1. transaction_send_set[t] \in Task
  <2>1. transaction_send_set \in Seq(Task)
    BY DEF FanoutInv
  <2>2. t \in 1..Len(transaction_send_set)
    BY <2>1, LenProperties
  <2> QED
    BY <2>1, <2>2, ElementOfSeq
<1> QED
  BY <1>1 DEF FanoutInv, Task

LEMMA TaskCountsInv ==
  ASSUME ClusterInv, FanoutInv, NEW t \in DOMAIN transaction_send_set, TaskCounts(t)
  PROVE  FanoutInv'
<1>1. inflight_transactions' = inflight_transactions /\ tpu' = tpu /\ gateway' = gateway
      /\ responses' = responses /\ extra_fwd' = extra_fwd
  BY DEF TaskCounts
<1>2. FanoutCount \in 0..2
  BY DEF FanoutCount
<1>3. PICK old : old = transaction_send_set[t]
  OBVIOUS
<1>4. PICK task : task = [old EXCEPT !.stage = "counted", !.fanout_count = FanoutCount]
  OBVIOUS
<1>5. task \in Task /\ task.rest = old.rest /\ task.sig = old.sig
  BY <1>2, <1>3, <1>4, TaskFields DEF Task
<1>6. transaction_send_set' = [transaction_send_set EXCEPT ![t] = task]
  BY <1>3, <1>4 DEF TaskCounts
<1> QED
  BY <1>1, <1>3, <1>5, <1>6, TaskFields, TaskReplaced DEF FanoutInv

LEMMA TaskLooksUpInv ==
  ASSUME ClusterInv, FanoutInv, NEW t \in DOMAIN transaction_send_set, TaskLooksUp(t)
  PROVE  FanoutInv'
<1>1. inflight_transactions' = inflight_transactions /\ tpu' = tpu /\ gateway' = gateway
      /\ responses' = responses /\ extra_fwd' = extra_fwd
  BY DEF TaskLooksUp
<1>2. PICK old : old = transaction_send_set[t]
  OBVIOUS
<1>3. PICK leaders : leaders = LeaderTpus(old.fanout_count)
  OBVIOUS
<1>4. PICK rest : rest = Allowed(old.sig, leaders) \o Extra(Allowed(old.sig, leaders))
  OBVIOUS
<1>5. old \in Task /\ old.sig \in Sigs /\ old.fanout_count \in Nat
  BY <1>2, TaskFields
<1>6. leaders \in Seq(Peers)
  BY <1>3, <1>5, LeaderTpusType
<1>7. rest \in Seq(Permitted(old.sig, extra_fwd))
  BY <1>4, <1>5, <1>6, RestPermitted DEF FanoutInv
<1>8. rest \in Seq(Peers)
  BY <1>7, SubsetSeq DEF Permitted
<1>9. PICK task : task = [old EXCEPT !.stage = "sending", !.rest = rest]
  OBVIOUS
<1>10. task \in Task /\ task.rest = rest /\ task.sig = old.sig
  BY <1>5, <1>8, <1>9 DEF Task
<1>11. transaction_send_set' = [transaction_send_set EXCEPT ![t] = task]
  BY <1>2, <1>3, <1>4, <1>9 DEF TaskLooksUp
<1> QED
  BY <1>1, <1>7, <1>10, <1>11, TaskReplaced DEF FanoutInv

LEMMA TaskSendsInv ==
  ASSUME ClusterInv, FanoutInv, NEW t \in DOMAIN transaction_send_set, TaskSends(t)
  PROVE  FanoutInv'
<1>1. inflight_transactions' = inflight_transactions /\ gateway' = gateway
      /\ responses' = responses /\ extra_fwd' = extra_fwd
  BY DEF TaskSends
<1>2. PICK old : old = transaction_send_set[t]
  OBVIOUS
<1>3. old \in Task /\ old.sig \in Sigs /\ old.rest \in Seq(Permitted(old.sig, extra_fwd)) /\ old.rest # <<>>
  BY <1>2, TaskFields DEF TaskSends
<1>4. Head(old.rest) \in Permitted(old.sig, extra_fwd) /\ Tail(old.rest) \in Seq(Permitted(old.sig, extra_fwd))
  BY <1>3, HeadTailProperties
<1>5. Tail(old.rest) \in Seq(Peers)
  BY <1>4, SubsetSeq DEF Permitted
<1>6. PICK task : task = [old EXCEPT !.rest = Tail(old.rest), !.sent = TRUE]
  OBVIOUS
<1>7. task \in Task /\ task.rest = Tail(old.rest) /\ task.sig = old.sig
  BY <1>3, <1>5, <1>6 DEF Task
<1>8. transaction_send_set' = [transaction_send_set EXCEPT ![t] = task]
  BY <1>2, <1>6 DEF TaskSends
<1>9. PICK copy : copy = <<old.sig, Head(old.rest)>>
  OBVIOUS
<1>10. copy \in PermittedCopies(extra_fwd)
  BY <1>3, <1>4, <1>9 DEF PermittedCopies, Permitted, Copies
<1>11. tpu' = Append(tpu, copy) /\ Len(tpu) < Capacity
  BY <1>2, <1>9 DEF TaskSends, SinkHasRoom
<1>12. tpu' \in Seq(PermittedCopies(extra_fwd)) /\ Len(tpu') <= Capacity
  <2>1. tpu' \in Seq(PermittedCopies(extra_fwd)) /\ Len(tpu') = Len(tpu) + 1 /\ Len(tpu) \in Nat
    BY <1>10, <1>11, AppendProperties, LenProperties DEF FanoutInv
  <2> QED
    BY <1>11, <2>1, FanoutAssumption
<1> QED
  BY <1>1, <1>4, <1>7, <1>8, <1>12, TaskReplaced DEF FanoutInv

LEMMA TaskEndsInv ==
  ASSUME ClusterInv, FanoutInv, NEW t \in DOMAIN transaction_send_set, TaskEnds(t)
  PROVE  FanoutInv'
<1>1. inflight_transactions' = inflight_transactions /\ tpu' = tpu /\ gateway' = gateway
      /\ responses' = responses /\ extra_fwd' = extra_fwd
  BY DEF TaskEnds
<1>2. PICK old : old = transaction_send_set[t]
  OBVIOUS
<1>3. PICK task : task = [old EXCEPT !.stage = "done", !.fanout_count = 0]
  OBVIOUS
<1>4. task \in Task /\ task.rest = old.rest /\ task.sig = old.sig
  <2>1. old \in Task /\ 0 \in 0..2
    BY <1>2, TaskFields
  <2> QED
    BY <1>3, <2>1 DEF Task
<1>5. transaction_send_set' = [transaction_send_set EXCEPT ![t] = task]
  BY <1>2, <1>3 DEF TaskEnds
<1> QED
  BY <1>1, <1>2, <1>4, <1>5, TaskFields, TaskReplaced DEF FanoutInv

LEMMA HandleGatewayResponseInv ==
  ASSUME FanoutInv, HandleGatewayResponse
  PROVE  FanoutInv'
<1>1. transaction_send_set' = transaction_send_set /\ tpu' = tpu /\ gateway' = gateway
      /\ inflight_transactions' \subseteq inflight_transactions /\ extra_fwd' = extra_fwd
  BY DEF HandleGatewayResponse
<1>2. responses' \in Seq(SUBSET Sigs)
  BY HeadTailProperties DEF HandleGatewayResponse, FanoutInv
<1> QED
  BY <1>1, <1>2 DEF FanoutInv

LEMMA GatewayTakesInv ==
  ASSUME FanoutInv, GatewayTakes
  PROVE  FanoutInv'
<1>1. transaction_send_set' = transaction_send_set /\ responses' = responses
      /\ inflight_transactions' = inflight_transactions /\ extra_fwd' = extra_fwd
  BY DEF GatewayTakes
<1>2. PICK copy : copy = Head(tpu)
  OBVIOUS
<1>3. copy \in PermittedCopies(extra_fwd) /\ tpu' \in Seq(PermittedCopies(extra_fwd)) /\ Len(tpu') = Len(tpu) - 1
      /\ Len(tpu) \in Nat
  BY <1>2, HeadTailProperties, LenProperties DEF GatewayTakes, FanoutInv
<1>4. copy \in Copies
  BY <1>3 DEF PermittedCopies
<1>5. gateway' = [gateway EXCEPT ![copy] = @ + 1]
  BY <1>2 DEF GatewayTakes
<1>6. gateway' \in [Copies -> Nat] /\ \A c \in Copies \ PermittedCopies(extra_fwd) : gateway'[c] = gateway[c]
  BY <1>3, <1>4, <1>5 DEF FanoutInv
<1>7. Len(tpu') <= Capacity
  BY <1>3, FanoutAssumption DEF FanoutInv
<1> QED
  BY <1>1, <1>3, <1>6, <1>7 DEF FanoutInv

LEMMA GatewayAnswersInv ==
  ASSUME FanoutInv, NEW p \in Peers, NEW S \in SUBSET Sigs, GatewayAnswers(p, S)
  PROVE  FanoutInv'
<1>1. transaction_send_set' = transaction_send_set /\ tpu' = tpu
      /\ inflight_transactions' = inflight_transactions /\ extra_fwd' = extra_fwd
  BY DEF GatewayAnswers
<1>2. ASSUME NEW c \in Copies
      PROVE  gateway'[c] \in Nat /\ gateway'[c] <= gateway[c]
  <2>1. c = <<c[1], c[2]>> /\ gateway[c] \in Nat
    BY DEF Copies, FanoutInv
  <2>2. CASE c[2] = p /\ c[1] \in S
    <3>1. gateway[c] > 0 /\ gateway'[c] = gateway[c] - 1
      BY <2>1, <2>2 DEF GatewayAnswers
    <3> QED
      BY <2>1, <3>1
  <2>3. CASE ~(c[2] = p /\ c[1] \in S)
    <3>1. gateway'[c] = gateway[c]
      BY <2>3 DEF GatewayAnswers
    <3> QED
      BY <2>1, <3>1
  <2> QED
    BY <2>2, <2>3
<1>3. gateway' \in [Copies -> Nat]
  <2>1. gateway' = [c \in Copies |-> gateway'[c]]
    BY DEF GatewayAnswers
  <2> QED
    BY <1>2, <2>1
<1>4. \A c \in Copies \ PermittedCopies(extra_fwd) : gateway'[c] = 0
  BY <1>2 DEF FanoutInv
<1>5. responses' \in Seq(SUBSET Sigs)
  BY AppendProperties DEF GatewayAnswers, FanoutInv
<1> QED
  BY <1>1, <1>3, <1>4, <1>5 DEF FanoutInv

\* Every step preserves the invariant, and the slot does not go back.
LEMMA FanoutStepInv ==
  ASSUME FanoutAndClusterInv, [Next]_vars
  PROVE  FanoutAndClusterInv' /\ slot' >= slot
<1> USE DEF FanoutAndClusterInv
<1>1. CASE ClusterStep /\ UNCHANGED <<extra_fwd, inflight_transactions, transaction_send_set, tpu, gateway, responses>>
  BY <1>1, ClusterStepInv DEF FanoutInv
<1>2. CASE UNCHANGED clusterVars
  <2>1. ClusterInv' /\ slot' >= slot
    BY <1>2, ClusterStutterInv
  <2>2. FanoutInv'
    <3>1. ASSUME NEW s \in Sigs, FwdTx(s) PROVE FanoutInv'
      BY <3>1, FwdTxInv
    <3>2. ASSUME NEW t \in DOMAIN transaction_send_set, TaskStep(t) PROVE FanoutInv'
      BY <3>2, TaskCountsInv, TaskLooksUpInv, TaskSendsInv, TaskEndsInv DEF TaskStep
    <3>3. CASE HandleGatewayResponse
      BY <3>3, HandleGatewayResponseInv
    <3>4. CASE GatewayTakes
      BY <3>4, GatewayTakesInv
    <3>5. ASSUME NEW p \in Peers, NEW S \in SUBSET Sigs, GatewayAnswers(p, S) PROVE FanoutInv'
      BY <3>5, GatewayAnswersInv
    <3>6. CASE UNCHANGED <<extra_fwd, inflight_transactions, transaction_send_set, tpu, gateway, responses>>
      BY <3>6 DEF FanoutInv
    <3> QED
      BY <3>1, <3>2, <3>3, <3>4, <3>5, <3>6 DEF Next, vars
  <2> QED
    BY <2>1, <2>2
<1> QED
  BY <1>1, <1>2 DEF Next, vars, FwdTx, TaskStep, TaskCounts, TaskLooksUp, TaskSends, TaskEnds,
                    HandleGatewayResponse, GatewayTakes, GatewayAnswers

-----------------------------------------------------------------------------
\* The invariant of the fanout and of the cluster's view holds of every
\* behaviour.
THEOREM FanoutInvariant == Spec => []FanoutAndClusterInv
<1>1. Init => FanoutAndClusterInv
  BY FanoutInitInv
<1>2. FanoutAndClusterInv /\ [Next]_vars => FanoutAndClusterInv'
  BY FanoutStepInv
<1> QED
  BY <1>1, <1>2, PTL DEF Spec

\* The schedule never names a wrong leader and knows the leader of the latest
\* slot unless it is being fetched or the answer to the fetch for that slot left
\* its leader out (update_latest_slot_and_leader_schedule), for every schedule,
\* epoch length, retention, channel capacity and whatever keys fail to parse.
THEOREM ScheduleIsFollowed == Spec => []ScheduleFollowsSlot
<1>1. FanoutAndClusterInv => ScheduleFollowsSlot
  BY DEF FanoutAndClusterInv, ClusterInv
<1> QED
  BY <1>1, FanoutInvariant, PTL

\* In whatever order slot updates come, latest_seen_slot never goes back: the
\* safety part of SlotFollowed.
THEOREM SlotIsMonotone == Spec => [][slot' >= slot]_clusterVars
<1>1. FanoutAndClusterInv /\ [Next]_vars => [slot' >= slot]_clusterVars
  BY FanoutStepInv
<1> QED
  BY <1>1, FanoutInvariant, PTL DEF Spec

\* Whatever leaders are looked up, at whatever slot, no copy for a peer that the
\* shield policies refuse is on its way, in the channel or in the gateway, unless
\* the peer is an extra destination (fwd_tx).
THEOREM NothingDeniedIsSent == Spec => []DeniedNotSent
<1>1. FanoutAndClusterInv => DeniedNotSent
  <2> SUFFICES ASSUME ClusterInv, FanoutInv PROVE DeniedNotSent
    BY DEF FanoutAndClusterInv
  <2>1. TypeOK
    <3>1. tpu \in Seq(Copies)
      BY SubsetSeq DEF FanoutInv, PermittedCopies
    <3> QED
      BY <3>1, ClusterInvTypes DEF FanoutInv, TypeOK
  <2>2. ASSUME NEW c \in Denied, c[2] \notin ToSet(extra_fwd)
        PROVE  gateway[c] = 0 /\ InChannel(c) = 0
    <3>1. c \in Copies /\ c = <<c[1], c[2]>>
      BY FanoutAssumption DEF Copies
    <3>2. c \notin PermittedCopies(extra_fwd)
      BY <2>2, <3>1 DEF PermittedCopies, Permitted
    <3>3. {i \in DOMAIN tpu : tpu[i] = c} = {}
      <4>1. \A i \in 1..Len(tpu) : tpu[i] \in PermittedCopies(extra_fwd)
        BY ElementOfSeq DEF FanoutInv
      <4>2. DOMAIN tpu = 1..Len(tpu)
        BY LenProperties DEF FanoutInv
      <4> QED
        BY <3>2, <4>1, <4>2
    <3> QED
      BY <3>1, <3>2, <3>3, FS_EmptySet DEF FanoutInv, InChannel
  <2> QED
    BY <2>1, <2>2 DEF DeniedNotSent
<1> QED
  BY <1>1, FanoutInvariant, PTL
=============================================================================
