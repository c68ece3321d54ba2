--------------------------- MODULE SchedulerProofs ---------------------------
(***************************************************************************)
(* Proofs about the rooted transactions, the blockhash queue and the retry *)
(* scheduler that is composed with them: what watched signatures are told, *)
(* which finalized transactions stay known, which blocks are known, and    *)
(* that the pool of the scheduler is tracked, bounded by the retries asked *)
(* for and left by what has landed.                                        *)
(***************************************************************************)
EXTENDS RetryScheduler, SequenceTheorems, FiniteSetTheorems, WellFoundedInduction, TLAPS

-----------------------------------------------------------------------------
(***************************************************************************)
(* Numbers                                                                 *)
(***************************************************************************)

\* A set of naturals has a least element.
LEMMA LeastNumber ==
  ASSUME NEW T \in SUBSET Nat, T # {}
  PROVE  \E m \in T : \A k \in T : m <= k
<1> DEFINE R == OpToRel(<, Nat)
<1>1. IsWellFoundedOn(R, Nat)
  BY NatLessThanWellFounded
<1> HIDE DEF R
<1>2. PICK x \in T : \A y \in T : ~(<<y, x>> \in R)
  BY <1>1, WFMin
<1>3. \A y \in T : ~(y < x)
  BY <1>2 DEF R, OpToRel
<1> QED
  BY <1>3

\* Induction up to a bound, for a set of the numbers that satisfy what is proved.
LEMMA BoundedInduction ==
  ASSUME NEW N \in Nat, NEW Good, 0 \in Good,
         \A n \in 0..(N - 1) : n \in Good => n + 1 \in Good
  PROVE  \A n \in 0..N : n \in Good
<1>1. PICK T : T = {n \in 0..N : n \notin Good}
  OBVIOUS
<1>2. CASE T = {}
  BY <1>1, <1>2
<1>3. CASE T # {}
  <2>1. T \in SUBSET Nat
    BY <1>1
  <2>2. PICK m \in T : \A k \in T : m <= k
    BY <1>3, <2>1, LeastNumber
  <2>3. m \in 0..N /\ m \notin Good /\ m # 0
    BY <1>1, <2>2
  <2>4. m - 1 \in 0..(N - 1) /\ m - 1 \in 0..N
    BY <2>3
  <2>5. m - 1 \notin T
    BY <2>2, <2>3, <2>4
  <2>6. m - 1 \in Good
    BY <1>1, <2>4, <2>5
  <2>7. (m - 1) + 1 \in Good
    BY <2>4, <2>6
  <2> QED
    BY <2>3, <2>7
<1> QED
  BY <1>2, <1>3

\* A finite set of naturals has a greatest element.
LEMMA GreatestNumber ==
  ASSUME NEW S \in SUBSET Nat, IsFiniteSet(S), S # {}
  PROVE  \E m \in S : \A k \in S : k <= m
<1>1. PICK N \in Nat : N = Cardinality(S)
  BY FS_CardinalityType
<1>2. IsFiniteSet(1..N) /\ Cardinality(1..N) = N
  BY FS_Interval
<1>3. PICK f \in [1..N -> S] : \A x \in S : \E i \in 1..N : f[i] = x
  <2>1. ExistsBijection(1..N, S)
    BY <1>1, <1>2, FS_SameCardinalityBij
  <2>2. PICK f : f \in Surjection(1..N, S)
    BY <2>1 DEF ExistsBijection, Bijection
  <2> QED
    BY <2>2 DEF Surjection
<1>4. PICK a : a \in S
  OBVIOUS
<1>5. PICK Good : Good = {n \in 0..N : \E m \in S : \A i \in 1..n : f[i] <= m}
  OBVIOUS
<1>6. 0 \in Good
  <2>1. \A i \in 1..0 : f[i] <= a
    OBVIOUS
  <2> QED
    BY <1>4, <1>5, <2>1
<1>7. ASSUME NEW n \in 0..(N - 1), n \in Good
      PROVE  n + 1 \in Good
  <2>1. PICK m \in S : \A i \in 1..n : f[i] <= m
    BY <1>5, <1>7
  <2>2. n + 1 \in 1..N /\ n + 1 \in 0..N
    OBVIOUS
  <2>3. PICK b \in S : b = f[n + 1]
    BY <2>2
  <2>4. CASE b <= m
    <3>1. \A i \in 1..(n + 1) : f[i] <= m
      BY <2>1, <2>3, <2>4
    <3> QED
      BY <1>5, <2>2, <3>1
  <2>5. CASE ~(b <= m)
    <3>1. ASSUME NEW i \in 1..(n + 1)
          PROVE  f[i] <= b
      <4>1. i \in 1..N /\ f[i] \in Nat /\ b \in Nat /\ m \in Nat
        <5>1. i \in 1..N
          OBVIOUS
        <5>2. f[i] \in S
          BY <5>1
        <5> QED
          BY <5>1, <5>2
      <4>2. CASE i = n + 1
        BY <4>1, <4>2, <2>3
      <4>3. CASE i # n + 1
        <5>1. i \in 1..n
          BY <4>3
        <5> QED
          BY <5>1, <4>1, <2>1, <2>5
      <4> QED
        BY <4>2, <4>3
    <3> QED
      BY <1>5, <2>2, <2>3, <3>1
  <2> QED
    BY <2>4, <2>5
<1>8. N \in Good
  <2>1. \A n \in 0..(N - 1) : n \in Good => n + 1 \in Good
    BY <1>7
  <2>2. \A n \in 0..N : n \in Good
    BY <1>6, <2>1, BoundedInduction
  <2> QED
    BY <2>2
<1>9. PICK m \in S : \A i \in 1..N : f[i] <= m
  BY <1>5, <1>8
<1> QED
  BY <1>3, <1>9

\* The last number of a set of numbers up to n.
LEMMA MaxOfNumbers ==
  ASSUME NEW n \in Nat, NEW s \in SUBSET (1..n), s # {}
  PROVE  Max(s) \in s /\ \A k \in s : k <= Max(s)
<1>1. IsFiniteSet(1..n) /\ s \subseteq Nat
  BY FS_Interval
<1>2. IsFiniteSet(s)
  BY <1>1, FS_Subset
<1>3. PICK m \in s : \A k \in s : k <= m
  BY <1>1, <1>2, GreatestNumber
<1>4. \A k \in s : m >= k
  BY <1>1, <1>3
<1>5. Max(s) \in s /\ \A k \in s : Max(s) >= k
  BY <1>4 DEF Max
<1> QED
  BY <1>1, <1>5

-----------------------------------------------------------------------------
(***************************************************************************)
(* FoldLeft.  The function MapThenFoldSet recurs with exists, and what     *)
(* FoldLeft returns is found by induction on the prefixes.                 *)
(***************************************************************************)

\* iter satisfies the recursion of a left fold over 1..n, where act says what
\* the element at each position makes of a value.
Folds(iter, base, act, n) ==
  \A s \in SUBSET (1..n) :
    iter[s] = IF s = {} THEN base ELSE act[Max(s)][iter[s \ {Max(s)}]]

LEMMA FoldExists ==
  ASSUME NEW N \in Nat, NEW V, NEW base \in V, NEW act \in [1..N -> [V -> V]]
  PROVE  \E iter \in [SUBSET (1..N) -> V] : Folds(iter, base, act, N)
<1>1. PICK Good : Good = {n \in 0..N : \E iter \in [SUBSET (1..n) -> V] : Folds(iter, base, act, n)}
  OBVIOUS
<1>2. 0 \in Good
  <2>1. PICK iter : iter = [s \in SUBSET (1..0) |-> base]
    OBVIOUS
  <2>2. iter \in [SUBSET (1..0) -> V]
    BY <2>1
  <2>3. \A s \in SUBSET (1..0) : s = {}
    OBVIOUS
  <2>4. Folds(iter, base, act, 0)
    BY <2>1, <2>3 DEF Folds
  <2>5. 0 \in 0..N
    OBVIOUS
  <2> QED
    BY <1>1, <2>2, <2>4, <2>5
<1>3. ASSUME NEW n \in 0..(N - 1), n \in Good
      PROVE  n + 1 \in Good
  <2>1. PICK old \in [SUBSET (1..n) -> V] : Folds(old, base, act, n)
    BY <1>1, <1>3
  <2>2. n + 1 \in 1..N /\ n + 1 \in 0..N
    OBVIOUS
  <2>3. PICK new : new = [s \in SUBSET (1..(n + 1)) |->
                           IF n + 1 \in s THEN act[n + 1][old[s \ {n + 1}]] ELSE old[s]]
    OBVIOUS
  <2>4. ASSUME NEW s \in SUBSET (1..(n + 1))
        PROVE  /\ s \ {n + 1} \in SUBSET (1..n)
               /\ n + 1 \notin s => s \in SUBSET (1..n)
               /\ n + 1 \in s => Max(s) = n + 1
    <3>1. s \ {n + 1} \in SUBSET (1..n)
      BY 1..(n + 1) = (1..n) \cup {n + 1}
    <3>2. n + 1 \notin s => s \in SUBSET (1..n)
      BY 1..(n + 1) = (1..n) \cup {n + 1}
    <3>3. ASSUME n + 1 \in s PROVE Max(s) = n + 1
      <4>1. n + 1 \in Nat /\ s # {}
        BY <3>3
      <4>2. Max(s) \in s /\ \A k \in s : k <= Max(s)
        BY <4>1, MaxOfNumbers
      <4>3. Max(s) \in 1..(n + 1) /\ n + 1 <= Max(s)
        BY <3>3, <4>2
      <4> QED
        BY <4>3
    <3> QED
      BY <3>1, <3>2, <3>3
  <2>5. new \in [SUBSET (1..(n + 1)) -> V]
    <3>1. ASSUME NEW s \in SUBSET (1..(n + 1))
          PROVE  (IF n + 1 \in s THEN act[n + 1][old[s \ {n + 1}]] ELSE old[s]) \in V
      <4>1. old[s \ {n + 1}] \in V /\ (n + 1 \notin s => old[s] \in V)
        BY <2>4
      <4> QED
        BY <2>2, <4>1
    <3> QED
      BY <2>3, <3>1
  <2>6. \A s \in SUBSET (1..n) : s \in SUBSET (1..(n + 1)) /\ n + 1 \notin s /\ new[s] = old[s]
    <3> TAKE s \in SUBSET (1..n)
    <3>1. s \in SUBSET (1..(n + 1)) /\ n + 1 \notin s
      BY 1..(n + 1) = (1..n) \cup {n + 1}
    <3> QED
      BY <2>3, <3>1
  <2>7. ASSUME NEW s \in SUBSET (1..(n + 1))
        PROVE  new[s] = IF s = {} THEN base ELSE act[Max(s)][new[s \ {Max(s)}]]
    <3>1. CASE n + 1 \in s
      <4>1. new[s] = act[n + 1][old[s \ {n + 1}]]
        BY <2>3, <3>1
      <4>2. new[s \ {n + 1}] = old[s \ {n + 1}]
        BY <2>4, <2>6
      <4> QED
        BY <3>1, <4>1, <4>2, <2>4
    <3>2. CASE n + 1 \notin s
      <4>1. s \in SUBSET (1..n) /\ new[s] = old[s]
        BY <2>4, <2>6, <3>2
      <4>2. s \ {Max(s)} \in SUBSET (1..n)
        BY <4>1
      <4>3. new[s \ {Max(s)}] = old[s \ {Max(s)}]
        BY <2>6, <4>2
      <4> QED
        BY <2>1, <4>1, <4>3 DEF Folds
    <3> QED
      BY <3>1, <3>2
  <2>8. Folds(new, base, act, n + 1)
    BY <2>7 DEF Folds
  <2> QED
    BY <1>1, <2>2, <2>5, <2>8
<1>4. N \in Good
  <2>1. \A n \in 0..(N - 1) : n \in Good => n + 1 \in Good
    BY <1>3
  <2>2. \A n \in 0..N : n \in Good
    BY <1>2, <2>1, BoundedInduction
  <2> QED
    BY <2>2
<1> QED
  BY <1>1, <1>4

\* The prefixes of 1..n.
LEMMA Initial ==
  ASSUME NEW n \in Nat, n # 0
  PROVE  /\ 1..n # {} /\ Max(1..n) = n
         /\ (1..n) \ {n} = 1..(n - 1)
<1>1. 1..n \in SUBSET (1..n) /\ 1..n # {} /\ n \in 1..n
  <2>1. n \in 1..n
    OBVIOUS
  <2>2. 1..n \in SUBSET (1..n)
    OBVIOUS
  <2> QED
    BY <2>1, <2>2, Zenon
<1>2. Max(1..n) \in 1..n /\ n <= Max(1..n)
  BY <1>1, MaxOfNumbers
<1>3. Max(1..n) = n
  BY <1>2
<1>4. (1..n) \ {n} = 1..(n - 1)
  OBVIOUS
<1> QED
  BY <1>1, <1>3, <1>4

-----------------------------------------------------------------------------
(***************************************************************************)
(* The invariants                                                          *)
(***************************************************************************)

\* Where a signature is looked up, it is.
Located == \A s \in Sigs : state.transactions[s] # NoSlot => s \in state.txs[state.transactions[s]]

\* What is buffered has been delivered.
Buffered == \A i \in DOMAIN transactions_bulk : transactions_bulk[i] \in delivered

LevelsTold ==
  \A s \in early, sl \in Slots :
    s \in state.txs[sl] /\ state.commitment[sl] # NoMeta
      => state.commitment[sl] \in notified[s] \/ Unsent(s, state.commitment[sl])

RootedInv ==
  /\ RootedTypeOK
  /\ IsFiniteSet(state.watched_signatures)
  /\ early \subseteq state.watched_signatures
  /\ Buffered
  /\ Located
  /\ LevelsTold

\* Nothing is expected of slot sl any more: it is old, or it lost against a
\* finalized slot after it.
Forgotten(sl) ==
  \/ ~Recent(sl)
  \/ level[sl] # Finalized /\ \E top \in Slots : top > sl /\ level[top] = Finalized

\* A signature that a slot holds was delivered for that slot, and is looked up
\* there if D, what was delivered, has it for no other slot.
Sole(st, D) ==
  \A sl \in Slots, s \in Sigs : s \in st.txs[sl] =>
    /\ <<sl, s>> \in D
    /\ (\A other \in Slots : <<other, s>> \in D => other = sl) => st.transactions[s] = sl

\* What is held is where it was executed, with the level of that slot; what was
\* processed is held until its slot is forgotten.
SlotInv ==
  /\ Sole(state, Received)
  /\ \A sl \in Slots : state.commitment[sl] # NoMeta => state.commitment[sl] = level[sl]
  /\ \A sl \in Slots : state.commitment[sl] = NoMeta /\ level[sl] = Finalized => ~Recent(sl)
  /\ \A sl \in Slots, s \in Sigs : <<sl, s>> \in Received => s \in state.txs[sl] \/ Forgotten(sl)

\* The queue holds levels that were reported.
QueueInv ==
  /\ QueueTypeOK
  /\ IsFiniteSet(KnownBlocks)
  /\ \A b \in Blocks : blockmeta_map[b] # 0 => blockmeta_map[b] = reported[b]
  /\ RecentBlockKnown

SchedulerTypeOK ==
  /\ last_known_block_height \in Nat
  /\ tx_pool \in SUBSET Sigs
  /\ leftover_attempt \in [Sigs -> Nat]
  /\ block_height_deadline_map \in SUBSET (Nat \X Sigs)
  /\ insertion_order \in Seq(Sigs)
  /\ due \in 0..Len(insertion_order)
  /\ adding \in Submission \cup {NoTx}
  /\ submissions \in [Sigs -> 0..MaxSubmissions]
  /\ sent \in [Sigs -> Nat]
  /\ allowed \in [Sigs -> Nat]

\* What was sent and what the pool may still send was asked for.
SendsAccounted ==
  \A s \in Sigs : sent[s] + (IF s \in tx_pool THEN leftover_attempt[s] ELSE 0) <= allowed[s]

\* The signatures in the pool and the one that is past its check.
Pooling == tx_pool \cup (IF adding # NoTx /\ adding.checked THEN {adding.sig} ELSE {})

LandedInv == \A s \in Pooling \cap early : GetTransactionCommitment(s) = Stop => StopPending(s)

SchedulerInv == RootedInv /\ QueueInv /\ SchedulerTypeOK /\ PooledIsTracked /\ SendsAccounted /\ LandedInv

LEMMA Constants ==
  /\ Slots \subseteq Nat /\ Executed \subseteq Slots \X Sigs /\ Height \in [Slots -> Nat] /\ Retain \in Nat
  /\ Blocks \subseteq Nat /\ BlockHeight \in [Blocks -> Nat] /\ MaxRecent \in Nat
  /\ Stop \in Levels /\ MaxRetry \in Nat /\ MaxAge \in Nat /\ MaxSubmissions \in Nat
  BY FeedAssumption, QueueAssumption, SchedulerAssumption

-----------------------------------------------------------------------------
(***************************************************************************)
(* The queue                                                               *)
(***************************************************************************)

LEMMA QueueInitial ==
  ASSUME QueueInit
  PROVE  QueueInv
<1>1. reported = [b \in Blocks |-> 0] /\ blockmeta_map = reported /\ queue_ended = FALSE
  BY DEF QueueInit, BlockFeed!Init
<1>2. KnownBlocks = {}
  BY <1>1 DEF KnownBlocks
<1>3. IsFiniteSet(KnownBlocks)
  BY <1>2, FS_EmptySet
<1> QED
  BY <1>1, <1>3 DEF QueueInv, QueueTypeOK, RecentBlockKnown

\* A block comes: the clean-up drops no block that is still recent.
LEMMA BlockMetaKeeps ==
  ASSUME QueueInv, NEW b \in Blocks, NEW commitment \in BlockFeed!Levels, BlockMeta(b, commitment)
  PROVE  QueueInv'
<1> DEFINE map == [blockmeta_map EXCEPT ![b] = commitment]
<1>1. /\ reported \in [Blocks -> 0..3] /\ blockmeta_map \in [Blocks -> 0..3] /\ commitment \in 1..3
      /\ queue_ended' = queue_ended /\ queue_ended \in BOOLEAN
  BY DEF QueueInv, QueueTypeOK, BlockFeed!Levels, BlockMeta
<1>2. /\ reported' = [reported EXCEPT ![b] = commitment] /\ commitment > reported[b]
      /\ \A higher \in Blocks : higher > b => reported[higher] # 3
  BY DEF BlockMeta, BlockFeed!Emit, BlockFeed!MayEmit, BlockFeed!Finalized
<1>3. blockmeta_map' = IF commitment = 3
        THEN [c \in Blocks |-> IF Retained(map, c, b) THEN map[c] ELSE 0] ELSE map
  BY DEF BlockMeta, BlockFeed!Finalized
<1>4. \A c \in Blocks : Retained(map, c, b) <=> IF map[c] = 3 THEN BlockHeight[c] + MaxRecent > BlockHeight[b] ELSE c > b
  BY DEF Retained, BlockFeed!Finalized
<1>5. map \in [Blocks -> 0..3] /\ \A c \in Blocks : map[c] = IF c = b THEN commitment ELSE blockmeta_map[c]
  BY <1>1
<1> HIDE DEF map
<1>6. \A c \in Blocks : blockmeta_map'[c] = IF commitment = 3 /\ ~Retained(map, c, b) THEN 0 ELSE map[c]
  BY <1>3, <1>5
<1>7. reported' \in [Blocks -> 0..3] /\ blockmeta_map' \in [Blocks -> 0..3]
  <2>1. reported' \in [Blocks -> 0..3]
    BY <1>1, <1>2
  <2>2. commitment = 3 => blockmeta_map' \in [Blocks -> 0..3]
    BY <1>3, <1>5
  <2>3. commitment # 3 => blockmeta_map' \in [Blocks -> 0..3]
    BY <1>3, <1>5
  <2> QED
    BY <2>1, <2>2, <2>3
<1>8. QueueTypeOK'
  BY <1>1, <1>7 DEF QueueTypeOK, BlockFeed!Levels
<1>9. IsFiniteSet(KnownBlocks')
  <2>1. KnownBlocks' \subseteq KnownBlocks \cup {b}
    BY <1>5, <1>6 DEF KnownBlocks
  <2>2. IsFiniteSet(KnownBlocks \cup {b})
    BY FS_AddElement DEF QueueInv
  <2> QED
    BY <2>1, <2>2, FS_Subset
<1>10. \A c \in Blocks : reported'[c] = IF c = b THEN commitment ELSE reported[c]
  BY <1>1, <1>2
<1>11. \A c \in Blocks : blockmeta_map[c] # 0 => blockmeta_map[c] = reported[c]
  BY DEF QueueInv
<1>12. \A c \in Blocks : blockmeta_map'[c] # 0 => blockmeta_map'[c] = reported'[c]
  BY <1>5, <1>6, <1>10, <1>11
<1>13. ASSUME NEW c \in Blocks, reported'[c] # 0,
              \A d \in Blocks : reported'[d] = 3 =>
                d < c \/ (reported'[c] = 3 /\ BlockHeight[c] + MaxRecent > BlockHeight[d])
       PROVE  blockmeta_map'[c] # 0
  <2>1. map[c] # 0
    <3>1. CASE c = b
      BY <1>1, <1>5, <3>1
    <3>2. CASE c # b
      <4>1. reported[c] # 0 /\ reported'[c] = reported[c]
        BY <1>10, <1>13, <3>2
      <4>2. \A d \in Blocks : reported[d] = 3 => reported'[d] = 3
        BY <1>1, <1>2, <1>10
      <4>3. \A d \in Blocks : reported[d] = 3 =>
              d < c \/ (reported[c] = 3 /\ BlockHeight[c] + MaxRecent > BlockHeight[d])
        BY <1>13, <4>1, <4>2
      <4>4. c \in KnownBlocks
        BY <4>1, <4>3 DEF QueueInv, RecentBlockKnown, BlockFeed!Finalized
      <4> QED
        BY <1>5, <3>2, <4>4 DEF KnownBlocks
    <3> QED
      BY <3>1, <3>2
  <2>2. commitment = 3 => Retained(map, c, b)
    <3>1. SUFFICES ASSUME commitment = 3 PROVE Retained(map, c, b)
      OBVIOUS
    <3>2. b < c \/ (reported'[c] = 3 /\ BlockHeight[c] + MaxRecent > BlockHeight[b])
      BY <1>10, <1>13, <3>1
    <3>3. map[c] = reported'[c]
      BY <1>5, <1>10, <1>11, <2>1
    <3>4. b \in Nat /\ c \in Nat
      BY Constants
    <3>5. CASE b < c
      <4>1. c > b /\ c # b
        BY <3>4, <3>5
      <4>2. reported'[c] # 3
        BY <1>2, <1>10, <4>1
      <4> QED
        BY <1>4, <3>3, <4>1, <4>2
    <3>6. CASE reported'[c] = 3 /\ BlockHeight[c] + MaxRecent > BlockHeight[b]
      BY <1>4, <3>3, <3>6
    <3> QED
      BY <3>2, <3>5, <3>6
  <2> QED
    BY <1>6, <2>1, <2>2
<1>14. RecentBlockKnown'
  BY <1>13 DEF RecentBlockKnown, KnownBlocks, BlockFeed!Finalized
<1> QED
  BY <1>8, <1>9, <1>12, <1>14 DEF QueueInv

LEMMA QueueKept ==
  ASSUME QueueInv, UNCHANGED queueVars
  PROVE  QueueInv'
<1>1. reported' = reported /\ blockmeta_map' = blockmeta_map /\ queue_ended' = queue_ended
  BY DEF queueVars
<1> QED
  BY <1>1 DEF QueueInv, QueueTypeOK, KnownBlocks, RecentBlockKnown

LEMMA QueueSteps ==
  ASSUME QueueInv, QueueStep
  PROVE  QueueInv'
<1>1. CASE QueueLagged
  <2>1. reported' = reported /\ blockmeta_map' = blockmeta_map /\ queue_ended' = TRUE
    BY <1>1 DEF QueueLagged
  <2> QED
    BY <2>1 DEF QueueInv, QueueTypeOK, KnownBlocks, RecentBlockKnown
<1> QED
  BY <1>1, BlockMetaKeeps DEF QueueStep

-----------------------------------------------------------------------------
(***************************************************************************)
(* The state machine: the buffered transactions                            *)
(***************************************************************************)

Outcomes == [state : State, effects : Seq(Notification)]

\* What a new transaction makes of the state, field by field.
Takes(out, sl, s, next) ==
  /\ next.state.txs = [out.state.txs EXCEPT ![sl] = @ \cup {s}]
  /\ next.state.commitment = out.state.commitment
  /\ next.state.transactions = [out.state.transactions EXCEPT ![s] = sl]
  /\ next.state.watched_signatures = out.state.watched_signatures
  /\ next.effects = IF NotifiesLate(out.state, sl, s)
                     THEN Append(out.effects, [sig |-> s, commitment |-> out.state.commitment[sl]])
                     ELSE out.effects

LEMMA TransactionFields ==
  ASSUME NEW out \in Outcomes, NEW sl \in Slots, NEW s \in Sigs, s \notin out.state.txs[sl]
  PROVE  /\ TransactionReceived(out, <<sl, s>>) \in Outcomes
         /\ Takes(out, sl, s, TransactionReceived(out, <<sl, s>>))
<1>1. PICK st \in State, before \in Seq(Notification) : st = out.state /\ before = out.effects
  BY DEF Outcomes
<1>2. PICK new : new = [st EXCEPT !.txs[sl] = @ \cup {s}, !.transactions[s] = sl]
  OBVIOUS
<1>3. PICK more : more = IF NotifiesLate(st, sl, s)
                         THEN Append(before, [sig |-> s, commitment |-> st.commitment[sl]]) ELSE before
  OBVIOUS
<1>4. PICK next : next = [state |-> new, effects |-> more]
  OBVIOUS
<1>5. next = TransactionReceived(out, <<sl, s>>)
  BY <1>1, <1>2, <1>3, <1>4 DEF TransactionReceived, Outcome
<1>6. /\ new.txs = [st.txs EXCEPT ![sl] = @ \cup {s}] /\ new.commitment = st.commitment
      /\ new.transactions = [st.transactions EXCEPT ![s] = sl]
      /\ new.watched_signatures = st.watched_signatures
  BY <1>2 DEF State
<1>7. new \in State
  <2>1. [st.txs EXCEPT ![sl] = @ \cup {s}] \in [Slots -> SUBSET Sigs]
    BY DEF State
  <2>2. [st.transactions EXCEPT ![s] = sl] \in [Sigs -> Slots \cup {NoSlot}]
    BY DEF State
  <2>3. new = [st EXCEPT !.txs = [st.txs EXCEPT ![sl] = @ \cup {s}],
                         !.transactions = [st.transactions EXCEPT ![s] = sl]]
    BY <1>2 DEF State
  <2> QED
    BY <2>1, <2>2, <2>3 DEF State
<1>8. more \in Seq(Notification)
  <2>1. CASE NotifiesLate(st, sl, s)
    <3>1. st.commitment[sl] \in Levels
      BY <2>1 DEF NotifiesLate, State
    <3>2. [sig |-> s, commitment |-> st.commitment[sl]] \in Notification
      BY <3>1 DEF Notification
    <3> QED
      BY <1>3, <2>1, <3>2
  <2>2. CASE ~NotifiesLate(st, sl, s)
    BY <1>3, <2>2
  <2> QED
    BY <2>1, <2>2
<1>9. next \in Outcomes /\ next.state = new /\ next.effects = more
  BY <1>4, <1>7, <1>8 DEF Outcomes
<1>10. Takes(out, sl, s, next)
  BY <1>1, <1>3, <1>6, <1>9 DEF Takes
<1> QED
  BY <1>5, <1>9, <1>10

LEMMA TransactionTypes ==
  ASSUME NEW out \in Outcomes, NEW tx \in Executed
  PROVE  TransactionReceived(out, tx) \in Outcomes
<1>1. PICK sl \in Slots, s \in Sigs : tx = <<sl, s>>
  <2>1. Executed \subseteq Slots \X Sigs
    BY Constants
  <2>2. tx \in Slots \X Sigs
    BY <2>1
  <2> QED
    BY <2>2
<1>2. CASE s \in out.state.txs[sl]
  BY <1>1, <1>2 DEF TransactionReceived
<1>3. CASE s \notin out.state.txs[sl]
  BY <1>1, <1>3, TransactionFields
<1> QED
  BY <1>2, <1>3

\* f gives the outcome after each of the buffered transactions.
Trace(f, st, bulk, N) ==
  /\ f \in [0..N -> Outcomes]
  /\ f[0] = Outcome(st, <<>>)
  /\ f[N] = FoldLeft(TransactionReceived, Outcome(st, <<>>), bulk)
  /\ \A n \in 1..N : f[n] = TransactionReceived(f[n - 1], bulk[n])

LEMMA BulkSteps ==
  ASSUME NEW st \in State, NEW N \in Nat, NEW bulk \in Seq(Executed), N = Len(bulk)
  PROVE  \E f : Trace(f, st, bulk, N)
<1> DEFINE Rec(iter) == [s \in SUBSET (DOMAIN bulk) |->
             IF s = {} THEN Outcome(st, <<>>) ELSE TransactionReceived(iter[s \ {Max(s)}], bulk[Max(s)])]
           Iter == CHOOSE iter : iter = Rec(iter)
<1>1. DOMAIN bulk = 1..N /\ \A i \in 1..N : bulk[i] \in Executed
  BY LenProperties, ElementOfSeq
<1>2. PICK act : act = [i \in 1..N |-> [v \in Outcomes |-> TransactionReceived(v, bulk[i])]]
  OBVIOUS
<1>3. act \in [1..N -> [Outcomes -> Outcomes]]
  BY <1>1, <1>2, TransactionTypes
<1>4. Outcome(st, <<>>) \in Outcomes
  <2>1. <<>> \in Seq(Notification)
    OBVIOUS
  <2> QED
    BY <2>1 DEF Outcomes, Outcome
<1>5. PICK h \in [SUBSET (1..N) -> Outcomes] : Folds(h, Outcome(st, <<>>), act, N)
  BY <1>3, <1>4, FoldExists
<1>6. h = Rec(h)
  <2>1. ASSUME NEW s \in SUBSET (1..N)
        PROVE  h[s] = IF s = {} THEN Outcome(st, <<>>)
                      ELSE TransactionReceived(h[s \ {Max(s)}], bulk[Max(s)])
    <3>1. CASE s = {}
      BY <1>5, <3>1 DEF Folds
    <3>2. CASE s # {}
      <4>1. Max(s) \in 1..N
        BY <3>2, MaxOfNumbers
      <4>2. h[s \ {Max(s)}] \in Outcomes
        OBVIOUS
      <4>3. h[s] = act[Max(s)][h[s \ {Max(s)}]]
        BY <1>5, <3>2 DEF Folds
      <4> QED
        BY <1>2, <3>2, <4>1, <4>2, <4>3
    <3> QED
      BY <3>1, <3>2
  <2> QED
    BY <1>1, <2>1
<1>7. Iter = Rec(Iter)
  BY <1>6
<1>8. FoldLeft(TransactionReceived, Outcome(st, <<>>), bulk) = Iter[DOMAIN bulk]
  BY DEF FoldLeft, MapThenFoldSet
<1> HIDE DEF Iter
<1>9. \A s \in SUBSET (1..N) :
        Iter[s] = IF s = {} THEN Outcome(st, <<>>) ELSE TransactionReceived(Iter[s \ {Max(s)}], bulk[Max(s)])
  BY <1>1, <1>7
<1>10. PICK f : f = [n \in 0..N |-> Iter[1..n]]
  OBVIOUS
<1>11. f[0] = Outcome(st, <<>>) /\ f[N] = FoldLeft(TransactionReceived, Outcome(st, <<>>), bulk)
  <2>1. 0 \in 0..N /\ N \in 0..N /\ 1..0 = {} /\ {} \in SUBSET (1..N)
    OBVIOUS
  <2>2. Iter[{}] = Outcome(st, <<>>)
    BY <1>9, <2>1
  <2> QED
    BY <1>1, <1>8, <1>10, <2>1, <2>2
<1>12. ASSUME NEW n \in 1..N
       PROVE  f[n] = TransactionReceived(f[n - 1], bulk[n])
  <2>1. n \in 0..N /\ n - 1 \in 0..N /\ n \in Nat /\ n # 0 /\ 1..n \in SUBSET (1..N)
    OBVIOUS
  <2>2. Iter[1..n] = TransactionReceived(Iter[1..(n - 1)], bulk[n])
    <3>1. 1..n # {} /\ Max(1..n) = n /\ (1..n) \ {n} = 1..(n - 1)
      BY <2>1, Initial
    <3>2. Iter[1..n] = TransactionReceived(Iter[(1..n) \ {Max(1..n)}], bulk[Max(1..n)])
      BY <1>9, <2>1, <3>1, Zenon
    <3> QED
      BY <3>1, <3>2, Zenon
  <2> QED
    BY <1>10, <2>1, <2>2
<1>13. f \in [0..N -> Outcomes]
  <2>1. PICK Good : Good = {n \in 0..N : f[n] \in Outcomes}
    OBVIOUS
  <2>2. 0 \in Good
    BY <1>4, <1>11, <2>1, 0 \in 0..N
  <2>3. ASSUME NEW n \in 0..(N - 1), n \in Good
        PROVE  n + 1 \in Good
    <3>1. n + 1 \in 1..N /\ n + 1 \in 0..N /\ (n + 1) - 1 = n
      OBVIOUS
    <3>2. f[n + 1] = TransactionReceived(f[n], bulk[n + 1])
      BY <1>12, <3>1
    <3> QED
      BY <1>1, <2>1, <2>3, <3>1, <3>2, TransactionTypes
  <2>4. \A n \in 0..(N - 1) : n \in Good => n + 1 \in Good
    BY <2>3
  <2>5. \A n \in 0..N : n \in Good
    BY <2>2, <2>4, BoundedInduction
  <2> QED
    BY <1>10, <2>1, <2>5
<1> QED
  BY <1>11, <1>12, <1>13 DEF Trace

\* x is an element of the sequence q.
Among(x, q) == \E i \in DOMAIN q : q[i] = x

LEMMA AppendAmong ==
  ASSUME NEW T, NEW q \in Seq(T), NEW x \in T
  PROVE  \A y : Among(y, Append(q, x)) <=> Among(y, q) \/ y = x
<1>1. PICK n \in Nat : n = Len(q) /\ DOMAIN q = 1..n
  BY LenProperties
<1>2. Append(q, x) \in Seq(T) /\ Len(Append(q, x)) = n + 1 /\ Append(q, x)[n + 1] = x
      /\ \A i \in 1..n : Append(q, x)[i] = q[i]
  BY <1>1, AppendProperties
<1>3. /\ DOMAIN Append(q, x) = 1..(n + 1) /\ n + 1 \in 1..(n + 1) /\ \A i \in 1..n : i \in 1..(n + 1)
      /\ \A i \in 1..(n + 1) : i \in 1..n \/ i = n + 1
  BY <1>2, LenProperties
<1> QED
  BY <1>1, <1>2, <1>3 DEF Among

LEMMA TailAmong ==
  ASSUME NEW T, NEW q \in Seq(T), q # <<>>, NEW x, Among(x, q), x # Head(q)
  PROVE  Among(x, Tail(q))
<1>1. PICK n \in Nat : n = Len(q) /\ DOMAIN q = 1..n /\ n # 0
  BY LenProperties, EmptySeq
<1>2. Tail(q) \in Seq(T) /\ Len(Tail(q)) = n - 1 /\ \A i \in 1..(n - 1) : Tail(q)[i] = q[i + 1]
  BY <1>1, HeadTailProperties
<1>3. DOMAIN Tail(q) = 1..(n - 1)
  BY <1>2, LenProperties
<1>4. PICK i \in 1..n : q[i] = x
  BY <1>1 DEF Among
<1>5. i # 1
  BY <1>4
<1>6. i - 1 \in 1..(n - 1) /\ (i - 1) + 1 = i
  BY <1>1, <1>5
<1>7. Tail(q)[i - 1] = x
  BY <1>2, <1>4, <1>6
<1> QED
  BY <1>3, <1>6, <1>7 DEF Among

LEMMA ConcatAmong ==
  ASSUME NEW T, NEW q \in Seq(T), NEW r \in Seq(T)
  PROVE  /\ q \o r \in Seq(T)
         /\ \A y : (Among(y, q) \/ Among(y, r)) => Among(y, q \o r)
<1>1. PICK m \in Nat, n \in Nat : m = Len(q) /\ n = Len(r) /\ DOMAIN q = 1..m /\ DOMAIN r = 1..n
  BY LenProperties
<1>2. q \o r \in Seq(T) /\ Len(q \o r) = m + n
      /\ \A i \in 1..(m + n) : (q \o r)[i] = IF i <= m THEN q[i] ELSE r[i - m]
  BY <1>1, ConcatProperties
<1>3. DOMAIN (q \o r) = 1..(m + n)
  BY <1>2, LenProperties
<1>4. ASSUME NEW y, Among(y, q) PROVE Among(y, q \o r)
  <2>1. PICK i \in 1..m : q[i] = y
    BY <1>1, <1>4 DEF Among
  <2>2. i \in 1..(m + n) /\ i <= m
    OBVIOUS
  <2>3. (q \o r)[i] = y
    BY <1>2, <2>1, <2>2
  <2> QED
    BY <1>3, <2>2, <2>3 DEF Among
<1>5. ASSUME NEW y, Among(y, r) PROVE Among(y, q \o r)
  <2>1. PICK i \in 1..n : r[i] = y
    BY <1>1, <1>5 DEF Among
  <2>2. m + i \in 1..(m + n) /\ ~(m + i <= m) /\ (m + i) - m = i
    OBVIOUS
  <2>3. (q \o r)[m + i] = y
    BY <1>2, <2>1, <2>2
  <2> QED
    BY <1>3, <2>2, <2>3 DEF Among
<1> QED
  BY <1>2, <1>4, <1>5

Notice(s, commitment) == [sig |-> s, commitment |-> commitment]

\* What holds of the outcome after the first n of the buffered transactions:
\* they are held, in addition to what was held; a signature is looked up where it
\* was or in a slot that is new for it; who watches a new one is told the level
\* of its slot.
KeepsLevels(out, st) ==
  out.state.commitment = st.commitment /\ out.state.watched_signatures = st.watched_signatures

HoldsAll(out, st, bulk, n) ==
  /\ \A sl \in Slots, s \in Sigs : s \in st.txs[sl] => s \in out.state.txs[sl]
  /\ \A i \in 1..n, sl \in Slots, s \in Sigs : bulk[i] = <<sl, s>> => s \in out.state.txs[sl]

LocatesNew(out, st) ==
  \A s \in Sigs :
    \/ out.state.transactions[s] = st.transactions[s]
    \/ \E sl \in Slots : /\ out.state.transactions[s] = sl
                         /\ s \in out.state.txs[sl] /\ s \notin st.txs[sl]

TellsNew(out, st) ==
  \A sl \in Slots, s \in st.watched_signatures :
    s \in out.state.txs[sl] /\ s \notin st.txs[sl] /\ st.commitment[sl] # NoMeta
      => Among(Notice(s, st.commitment[sl]), out.effects)

Replayed(out, st, bulk, n) ==
  KeepsLevels(out, st) /\ HoldsAll(out, st, bulk, n) /\ LocatesNew(out, st) /\ TellsNew(out, st)

LEMMA ReplayedStep ==
  ASSUME NEW st \in State, NEW out \in Outcomes, NEW n \in Nat, NEW bulk,
         NEW sl \in Slots, NEW s \in Sigs, bulk[n + 1] = <<sl, s>>, Replayed(out, st, bulk, n)
  PROVE  Replayed(TransactionReceived(out, <<sl, s>>), st, bulk, n + 1)
<1>1. \A i \in 1..(n + 1) : i \in 1..n \/ i = n + 1
  OBVIOUS
<1>2. KeepsLevels(out, st) /\ HoldsAll(out, st, bulk, n) /\ LocatesNew(out, st) /\ TellsNew(out, st)
  BY DEF Replayed
<1>3. CASE s \in out.state.txs[sl]
  <2>1. TransactionReceived(out, <<sl, s>>) = out
    BY <1>3 DEF TransactionReceived
  <2>2. HoldsAll(out, st, bulk, n + 1)
    BY <1>1, <1>2, <1>3 DEF HoldsAll
  <2> QED
    BY <1>2, <2>1, <2>2 DEF Replayed
<1>4. CASE s \notin out.state.txs[sl]
  <2>1. PICK next : next = TransactionReceived(out, <<sl, s>>)
    OBVIOUS
  <2>2. next \in Outcomes /\ Takes(out, sl, s, next)
    BY <1>4, <2>1, TransactionFields
  <2>3. out.state \in State /\ out.effects \in Seq(Notification)
    BY DEF Outcomes
  <2>4. \A x \in Slots : next.state.txs[x] = IF x = sl THEN out.state.txs[x] \cup {s} ELSE out.state.txs[x]
    BY <2>2, <2>3 DEF Takes, State
  <2>5. \A r \in Sigs : next.state.transactions[r] = IF r = s THEN sl ELSE out.state.transactions[r]
    BY <2>2, <2>3 DEF Takes, State
  <2>6. KeepsLevels(next, st)
    BY <1>2, <2>2 DEF KeepsLevels, Takes
  <2>7. HoldsAll(next, st, bulk, n + 1)
    <3>1. \A x \in Slots, r \in Sigs : r \in out.state.txs[x] => r \in next.state.txs[x]
      BY <2>4
    <3>2. s \in next.state.txs[sl]
      BY <2>4
    <3>3. \A x \in Slots, r \in Sigs : r \in st.txs[x] => r \in next.state.txs[x]
      BY <1>2, <3>1 DEF HoldsAll
    <3>4. ASSUME NEW i \in 1..(n + 1), NEW x \in Slots, NEW r \in Sigs, bulk[i] = <<x, r>>
          PROVE  r \in next.state.txs[x]
      <4>1. CASE i \in 1..n
        BY <1>2, <3>1, <3>4, <4>1 DEF HoldsAll
      <4>2. CASE i = n + 1
        <5>1. x = sl /\ r = s
          BY <3>4, <4>2
        <5> QED
          BY <3>2, <5>1
      <4> QED
        BY <1>1, <4>1, <4>2
    <3> QED
      BY <3>3, <3>4 DEF HoldsAll
  <2>8. s \notin st.txs[sl]
    BY <1>2, <1>4 DEF HoldsAll
  <2>9. LocatesNew(next, st)
    BY <1>2, <2>4, <2>5, <2>8 DEF LocatesNew
  <2>10. \A y : Among(y, out.effects) => Among(y, next.effects)
    <3>1. CASE NotifiesLate(out.state, sl, s)
      <4>1. out.state.commitment[sl] \in Levels
        BY <2>3, <3>1 DEF NotifiesLate, State
      <4>2. Notice(s, out.state.commitment[sl]) \in Notification
        BY <4>1 DEF Notification, Notice
      <4>3. next.effects = Append(out.effects, Notice(s, out.state.commitment[sl]))
        BY <2>2, <3>1 DEF Takes, Notice
      <4> QED
        BY <2>3, <4>2, <4>3, AppendAmong
    <3>2. CASE ~NotifiesLate(out.state, sl, s)
      BY <2>2, <3>2 DEF Takes
    <3> QED
      BY <3>1, <3>2
  <2>11. ASSUME s \in st.watched_signatures, st.commitment[sl] # NoMeta
         PROVE  Among(Notice(s, st.commitment[sl]), next.effects)
    <3>1. NotifiesLate(out.state, sl, s) /\ out.state.commitment[sl] = st.commitment[sl]
      BY <1>2, <2>11 DEF KeepsLevels, NotifiesLate
    <3>2. out.state.commitment[sl] \in Levels
      BY <2>3, <3>1 DEF NotifiesLate, State
    <3>3. Notice(s, st.commitment[sl]) \in Notification
      BY <3>1, <3>2 DEF Notification, Notice
    <3>4. next.effects = Append(out.effects, Notice(s, st.commitment[sl]))
      BY <2>2, <3>1 DEF Takes, Notice
    <3> QED
      BY <2>3, <3>3, <3>4, AppendAmong
  <2>12. TellsNew(next, st)
    <3>1. ASSUME NEW x \in Slots, NEW r \in st.watched_signatures, r \in next.state.txs[x],
                 r \notin st.txs[x], st.commitment[x] # NoMeta
          PROVE  Among(Notice(r, st.commitment[x]), next.effects)
      <4>1. CASE x = sl /\ r = s
        BY <2>11, <3>1, <4>1
      <4>2. CASE ~(x = sl /\ r = s)
        <5>1. r \in out.state.txs[x]
          BY <2>4, <3>1, <4>2
        <5>2. Among(Notice(r, st.commitment[x]), out.effects)
          BY <1>2, <3>1, <5>1 DEF TellsNew
        <5> QED
          BY <2>10, <5>2
      <4> QED
        BY <4>1, <4>2
    <3> QED
      BY <3>1 DEF TellsNew
  <2> QED
    BY <2>1, <2>6, <2>7, <2>9, <2>12 DEF Replayed
<1> QED
  BY <1>3, <1>4

LEMMA SoleStep ==
  ASSUME NEW out \in Outcomes, NEW sl \in Slots, NEW s \in Sigs, NEW D, <<sl, s>> \in D, Sole(out.state, D)
  PROVE  Sole(TransactionReceived(out, <<sl, s>>).state, D)
<1>1. CASE s \in out.state.txs[sl]
  BY <1>1 DEF TransactionReceived
<1>2. CASE s \notin out.state.txs[sl]
  <2>1. PICK next : next = TransactionReceived(out, <<sl, s>>)
    OBVIOUS
  <2>2. next \in Outcomes /\ Takes(out, sl, s, next) /\ out.state \in State
    BY <1>2, <2>1, TransactionFields DEF Outcomes
  <2>3. \A x \in Slots : next.state.txs[x] = IF x = sl THEN out.state.txs[x] \cup {s} ELSE out.state.txs[x]
    BY <2>2 DEF Takes, State
  <2>4. \A r \in Sigs : next.state.transactions[r] = IF r = s THEN sl ELSE out.state.transactions[r]
    BY <2>2 DEF Takes, State
  <2>5. ASSUME NEW x \in Slots, NEW r \in Sigs, r \in next.state.txs[x]
        PROVE  /\ <<x, r>> \in D
               /\ (\A other \in Slots : <<other, r>> \in D => other = x) => next.state.transactions[r] = x
    <3>1. CASE r \in out.state.txs[x]
      <4>1. /\ <<x, r>> \in D
            /\ (\A other \in Slots : <<other, r>> \in D => other = x) => out.state.transactions[r] = x
        BY <3>1 DEF Sole
      <4>2. r = s /\ (\A other \in Slots : <<other, r>> \in D => other = x) => sl = x
        OBVIOUS
      <4> QED
        BY <2>4, <4>1, <4>2
    <3>2. CASE r \notin out.state.txs[x]
      <4>1. x = sl /\ r = s
        BY <2>3, <2>5, <3>2
      <4> QED
        BY <2>4, <4>1
    <3> QED
      BY <3>1, <3>2
  <2> QED
    BY <2>1, <2>5 DEF Sole
<1> QED
  BY <1>1, <1>2

\* More was delivered: what is held is where it was.
LEMMA SoleGrows ==
  ASSUME NEW st, NEW D, NEW E, D \subseteq E, Sole(st, D)
  PROVE  Sole(st, E)
  BY DEF Sole

\* The buffered transactions as a whole.
LEMMA BulkReplayed ==
  ASSUME NEW st \in State, NEW bulk \in Seq(Executed), NEW D, \A i \in DOMAIN bulk : bulk[i] \in D
  PROVE  \E out \in Outcomes :
           /\ out = FoldLeft(TransactionReceived, Outcome(st, <<>>), bulk)
           /\ Replayed(out, st, bulk, Len(bulk))
           /\ Sole(st, D) => Sole(out.state, D)
<1>1. PICK N \in Nat : N = Len(bulk)
  BY LenProperties
<1>2. PICK f : Trace(f, st, bulk, N)
  BY <1>1, BulkSteps
<1>3. \A n \in 1..N : bulk[n] \in Executed /\ bulk[n] \in D
  BY <1>1, ElementOfSeq, LenProperties
<1>4. f[0].state = st /\ f[0].effects = <<>>
  BY <1>2 DEF Trace, Outcome
<1>5. PICK Good : Good = {n \in 0..N : Replayed(f[n], st, bulk, n) /\ (Sole(st, D) => Sole(f[n].state, D))}
  OBVIOUS
<1>6. 0 \in Good
  <2>1. \A i \in 1..0 : FALSE
    OBVIOUS
  <2>2. Replayed(f[0], st, bulk, 0)
    BY <1>4, <2>1 DEF Replayed, KeepsLevels, HoldsAll, LocatesNew, TellsNew
  <2>3. 0 \in 0..N
    OBVIOUS
  <2> QED
    BY <1>4, <1>5, <2>2, <2>3
<1>7. ASSUME NEW n \in 0..(N - 1), n \in Good
      PROVE  n + 1 \in Good
  <2>1. n \in Nat /\ n \in 0..N /\ n + 1 \in 1..N /\ n + 1 \in 0..N /\ (n + 1) - 1 = n
    OBVIOUS
  <2>2. f[n + 1] = TransactionReceived(f[n], bulk[n + 1]) /\ f[n] \in Outcomes
    BY <1>2, <2>1 DEF Trace
  <2>3. PICK sl \in Slots, s \in Sigs : bulk[n + 1] = <<sl, s>> /\ <<sl, s>> \in D
    <3>1. Executed \subseteq Slots \X Sigs
      BY Constants
    <3>2. bulk[n + 1] \in D /\ bulk[n + 1] \in Slots \X Sigs
      BY <1>3, <2>1, <3>1
    <3> QED
      BY <3>2
  <2>4. Replayed(f[n], st, bulk, n) /\ (Sole(st, D) => Sole(f[n].state, D))
    BY <1>5, <1>7
  <2>5. Replayed(f[n + 1], st, bulk, n + 1)
    BY <2>1, <2>2, <2>3, <2>4, ReplayedStep
  <2>6. Sole(st, D) => Sole(f[n + 1].state, D)
    BY <2>2, <2>3, <2>4, SoleStep
  <2> QED
    BY <1>5, <2>1, <2>5, <2>6
<1>8. N \in Good
  <2>1. \A n \in 0..(N - 1) : n \in Good => n + 1 \in Good
    BY <1>7
  <2>2. \A n \in 0..N : n \in Good
    BY <1>6, <2>1, BoundedInduction
  <2> QED
    BY <2>2
<1>9. f[N] \in Outcomes /\ f[N] = FoldLeft(TransactionReceived, Outcome(st, <<>>), bulk)
  BY <1>2, N \in 0..N DEF Trace
<1>10. Replayed(f[N], st, bulk, N) /\ (Sole(st, D) => Sole(f[N].state, D))
  BY <1>5, <1>8
<1> QED
  BY <1>1, <1>9, <1>10

-----------------------------------------------------------------------------
(***************************************************************************)
(* The state machine: block metadata                                       *)
(***************************************************************************)

LEMMA SetToSeqMembers ==
  ASSUME NEW T, NEW S \in SUBSET T, IsFiniteSet(S)
  PROVE  SetToSeq(S) \in Seq(T) /\ \A x \in S : Among(x, SetToSeq(S))
<1>1. PICK N \in Nat : N = Cardinality(S)
  BY FS_CardinalityType
<1>2. IsFiniteSet(1..N) /\ Cardinality(1..N) = N
  BY FS_Interval
<1>3. \E g \in [1..N -> S] : IsInjective(g)
  <2>1. ExistsBijection(1..N, S)
    BY <1>1, <1>2, FS_SameCardinalityBij
  <2>2. PICK g : g \in Injection(1..N, S)
    BY <2>1 DEF ExistsBijection, Bijection
  <2> QED
    BY <2>2 DEF Injection, IsInjective
<1>4. PICK f : f = SetToSeq(S)
  OBVIOUS
<1>5. f \in [1..N -> S] /\ IsInjective(f)
  BY <1>1, <1>3, <1>4 DEF SetToSeq
<1>6. f \in Surjection(1..N, S)
  <2>1. f \in Injection(1..N, S)
    BY <1>5 DEF Injection, IsInjective
  <2> QED
    BY <1>1, <1>2, <2>1, FS_Injection
<1>7. f \in Seq(T)
  <2>1. f \in [1..N -> T]
    BY <1>5
  <2> QED
    BY <2>1, SeqDef
<1>8. \A x \in S : Among(x, f)
  BY <1>5, <1>6 DEF Surjection, Among
<1> QED
  BY <1>4, <1>7, <1>8

Cleaned(st, slot, new) ==
  /\ new.watched_signatures = st.watched_signatures
  /\ \A x \in Slots : /\ new.txs[x] = IF ShouldRetain(st, x, slot) THEN st.txs[x] ELSE {}
                      /\ new.commitment[x] = IF ShouldRetain(st, x, slot) THEN st.commitment[x] ELSE NoMeta
  /\ \A s \in Sigs : new.transactions[s] = IF \E x \in Slots : ~ShouldRetain(st, x, slot) /\ s \in st.txs[x]
                                           THEN NoSlot ELSE st.transactions[s]

LEMMA CleanupFields ==
  ASSUME NEW st \in State, NEW slot \in Slots
  PROVE  CleanupOldSlots(st, slot) \in State /\ Cleaned(st, slot, CleanupOldSlots(st, slot))
<1>1. PICK dropped : dropped = {x \in Slots : ~ShouldRetain(st, x, slot)}
  OBVIOUS
<1>2. PICK removed : removed = UNION {st.txs[x] : x \in dropped}
  OBVIOUS
<1>3. PICK T, C, L : /\ T = [x \in Slots |-> IF x \in dropped THEN {} ELSE st.txs[x]]
                     /\ C = [x \in Slots |-> IF x \in dropped THEN NoMeta ELSE st.commitment[x]]
                     /\ L = [s \in Sigs |-> IF s \in removed THEN NoSlot ELSE st.transactions[s]]
  OBVIOUS
<1>4. CleanupOldSlots(st, slot) = [st EXCEPT !.txs = T, !.commitment = C, !.transactions = L]
  BY <1>1, <1>2, <1>3 DEF CleanupOldSlots, State
<1>5. T \in [Slots -> SUBSET Sigs] /\ C \in [Slots -> Levels \cup {NoMeta}]
      /\ L \in [Sigs -> Slots \cup {NoSlot}]
  BY <1>3 DEF State
<1>6. PICK new : new = CleanupOldSlots(st, slot)
  OBVIOUS
<1>7. new \in State
  BY <1>4, <1>5, <1>6 DEF State
<1>8. /\ new.watched_signatures = st.watched_signatures
      /\ new.txs = T /\ new.commitment = C /\ new.transactions = L
  BY <1>4, <1>6 DEF State
<1>9. \A s \in Sigs : s \in removed <=> \E x \in Slots : ~ShouldRetain(st, x, slot) /\ s \in st.txs[x]
  BY <1>1, <1>2
<1>10. \A x \in Slots : x \in dropped <=> ~ShouldRetain(st, x, slot)
  BY <1>1
<1>11. Cleaned(st, slot, new)
  BY <1>3, <1>8, <1>9, <1>10 DEF Cleaned
<1> QED
  BY <1>6, <1>7, <1>11

\* The level of slot x once the metadata of slot is stored.
Lvl(st, slot, commitment, x) == IF x = slot THEN commitment ELSE st.commitment[x]

\* A slot that is kept, and one that is cleaned up.
Kept(st, slot, commitment, new, x) ==
  new.txs[x] = st.txs[x] /\ new.commitment[x] = Lvl(st, slot, commitment, x)

Lost(st, slot, commitment, new, x) ==
  /\ new.txs[x] = {} /\ new.commitment[x] = NoMeta
  /\ commitment = Finalized
  /\ Lvl(st, slot, commitment, x) = Finalized => ~(Height[x] + Retain > Height[slot])
  /\ Lvl(st, slot, commitment, x) # Finalized => ~(x > slot)

\* The state after the metadata of slot: a signature that is looked up still
\* has lost none of its slots.
MetaState(st, slot, commitment, new) ==
  /\ new.watched_signatures = st.watched_signatures
  /\ \A x \in Slots : Kept(st, slot, commitment, new, x) \/ Lost(st, slot, commitment, new, x)
  /\ \A s \in Sigs :
       \/ new.transactions[s] = NoSlot /\ \E x \in Slots : s \in st.txs[x] /\ Lost(st, slot, commitment, new, x)
       \/ /\ new.transactions[s] = st.transactions[s]
          /\ \A x \in Slots : s \in st.txs[x] => Kept(st, slot, commitment, new, x)

LEMMA BlockMetaFields ==
  ASSUME NEW out \in Outcomes, NEW slot \in Slots, NEW commitment \in Levels,
         IsFiniteSet(out.state.watched_signatures)
  PROVE  \E res \in Outcomes :
           /\ res = BlockMetaUpdate(out, slot, commitment)
           /\ MetaState(out.state, slot, commitment, res.state)
           /\ \A y : Among(y, out.effects) => Among(y, res.effects)
           /\ \A s \in out.state.txs[slot] \cap out.state.watched_signatures :
                Among(Notice(s, commitment), res.effects)
<1>1. PICK old \in State, before \in Seq(Notification) : old = out.state /\ before = out.effects
  BY DEF Outcomes
<1>2. PICK st : st = [old EXCEPT !.commitment[slot] = commitment]
  OBVIOUS
<1>3. /\ st.txs = old.txs /\ st.transactions = old.transactions
      /\ st.watched_signatures = old.watched_signatures
      /\ st.commitment = [old.commitment EXCEPT ![slot] = commitment]
  BY <1>2 DEF State
<1>4. st \in State
  <2>1. [old.commitment EXCEPT ![slot] = commitment] \in [Slots -> Levels \cup {NoMeta}]
    BY DEF State
  <2>2. st = [old EXCEPT !.commitment = [old.commitment EXCEPT ![slot] = commitment]]
    BY <1>2 DEF State
  <2> QED
    BY <2>1, <2>2 DEF State
<1>5. \A x \in Slots : st.commitment[x] = Lvl(old, slot, commitment, x)
  BY <1>3 DEF State, Lvl
<1>6. PICK told : told = {Notice(s, commitment) : s \in old.txs[slot] \cap old.watched_signatures}
  OBVIOUS
<1>7. told \in SUBSET Notification /\ IsFiniteSet(told)
  <2>1. PICK W : W = old.txs[slot] \cap old.watched_signatures
    OBVIOUS
  <2>2. IsFiniteSet(W)
    <3>1. W \subseteq old.watched_signatures
      BY <2>1
    <3> QED
      BY <1>1, <3>1, FS_Subset
  <2>3. \A s \in W : Notice(s, commitment) \in Notification
    BY <2>1 DEF Notification, Notice, State
  <2>4. PICK g : g = [s \in W |-> Notice(s, commitment)]
    OBVIOUS
  <2>5. g \in Surjection(W, told)
    BY <1>6, <2>1, <2>4 DEF Surjection
  <2>6. IsFiniteSet(told)
    BY <2>2, <2>5, FS_Surjection DEF ExistsSurjection
  <2> QED
    BY <1>6, <2>1, <2>3, <2>6
<1>8. SetToSeq(told) \in Seq(Notification) /\ \A x \in told : Among(x, SetToSeq(told))
  BY <1>7, SetToSeqMembers
<1>9. PICK new : new = IF commitment = Finalized THEN CleanupOldSlots(st, slot) ELSE st
  OBVIOUS
<1>10. PICK res : res = [state |-> new, effects |-> before \o SetToSeq(told)]
  OBVIOUS
<1>11. res = BlockMetaUpdate(out, slot, commitment)
  <2>1. told = {[sig |-> s, commitment |-> commitment] : s \in st.txs[slot] \cap st.watched_signatures}
    BY <1>3, <1>6 DEF Notice
  <2> QED
    BY <1>1, <1>2, <1>9, <1>10, <2>1 DEF BlockMetaUpdate, Outcome
<1>12. /\ before \o SetToSeq(told) \in Seq(Notification)
       /\ \A y : Among(y, before) \/ Among(y, SetToSeq(told)) => Among(y, before \o SetToSeq(told))
  BY <1>8, ConcatAmong
<1>13. new \in State /\ MetaState(old, slot, commitment, new)
  <2>1. CASE commitment # Finalized
    <3>1. new = st
      BY <1>9, <2>1
    <3>2. \A x \in Slots : Kept(old, slot, commitment, new, x)
      BY <1>3, <1>5, <3>1 DEF Kept
    <3> QED
      BY <1>3, <1>4, <3>1, <3>2 DEF MetaState
  <2>2. CASE commitment = Finalized
    <3>1. new = CleanupOldSlots(st, slot)
      BY <1>9, <2>2
    <3>2. new \in State /\ Cleaned(st, slot, new)
      BY <1>4, <3>1, CleanupFields
    <3>3. ASSUME NEW x \in Slots, ShouldRetain(st, x, slot)
          PROVE  Kept(old, slot, commitment, new, x)
      BY <1>3, <1>5, <3>2, <3>3 DEF Kept, Cleaned
    <3>4. ASSUME NEW x \in Slots, ~ShouldRetain(st, x, slot)
          PROVE  Lost(old, slot, commitment, new, x)
      <4>1. new.txs[x] = {} /\ new.commitment[x] = NoMeta
        BY <3>2, <3>4 DEF Cleaned
      <4>2. st.commitment[x] = Finalized => ~(Height[x] + Retain > Height[slot])
        BY <3>4 DEF ShouldRetain, Finalized, NoMeta
      <4>3. st.commitment[x] # Finalized => ~(x > slot)
        BY <3>4 DEF ShouldRetain, Finalized, NoMeta
      <4> QED
        BY <1>5, <2>2, <4>1, <4>2, <4>3 DEF Lost
    <3>5. ASSUME NEW s \in Sigs
          PROVE  \/ /\ new.transactions[s] = NoSlot
                    /\ \E x \in Slots : s \in old.txs[x] /\ Lost(old, slot, commitment, new, x)
                 \/ /\ new.transactions[s] = old.transactions[s]
                    /\ \A x \in Slots : s \in old.txs[x] => Kept(old, slot, commitment, new, x)
      <4>1. CASE \E x \in Slots : ~ShouldRetain(st, x, slot) /\ s \in st.txs[x]
        BY <1>3, <3>2, <3>4, <4>1 DEF Cleaned
      <4>2. CASE ~(\E x \in Slots : ~ShouldRetain(st, x, slot) /\ s \in st.txs[x])
        BY <1>3, <3>2, <3>3, <4>2 DEF Cleaned
      <4> QED
        BY <4>1, <4>2
    <3>6. \A x \in Slots : Kept(old, slot, commitment, new, x) \/ Lost(old, slot, commitment, new, x)
      BY <3>3, <3>4
    <3>7. new.watched_signatures = old.watched_signatures
      BY <1>3, <3>2 DEF Cleaned
    <3> QED
      BY <3>2, <3>5, <3>6, <3>7 DEF MetaState
  <2> QED
    BY <2>1, <2>2
<1>14. res \in Outcomes /\ res.state = new /\ res.effects = before \o SetToSeq(told)
  BY <1>10, <1>12, <1>13 DEF Outcomes
<1>15. \A s \in old.txs[slot] \cap old.watched_signatures : Among(Notice(s, commitment), res.effects)
  BY <1>6, <1>8, <1>12, <1>14
<1> QED
  BY <1>1, <1>11, <1>12, <1>13, <1>14, <1>15

\* Both together, as the receiver's loop applies them: out after the buffered
\* transactions, res after the metadata.
MetaStep(out, res, slot, commitment) ==
  /\ Replayed(out, state, transactions_bulk, Len(transactions_bulk))
  /\ Sole(state, delivered) => Sole(out.state, delivered)
  /\ MetaState(out.state, slot, commitment, res.state)
  /\ state' = res.state /\ effects' = res.effects
  /\ effects = <<>> /\ rx' = rx /\ notified' = notified /\ early' = early
  /\ \A y : Among(y, out.effects) => Among(y, res.effects)
  /\ \A s \in out.state.txs[slot] \cap state.watched_signatures : Among(Notice(s, commitment), res.effects)

LEMMA MetaStepIs ==
  ASSUME RootedInv, NEW slot \in Slots, NEW commitment \in Levels, GrpcBlockMeta(slot, commitment)
  PROVE  \E out \in Outcomes, res \in Outcomes : MetaStep(out, res, slot, commitment)
<1>1. state \in State /\ transactions_bulk \in Seq(Executed) /\ IsFiniteSet(state.watched_signatures)
      /\ \A i \in DOMAIN transactions_bulk : transactions_bulk[i] \in delivered
  BY DEF RootedInv, RootedTypeOK, Buffered
<1>2. PICK out \in Outcomes :
        /\ out = FoldLeft(TransactionReceived, Outcome(state, <<>>), transactions_bulk)
        /\ Replayed(out, state, transactions_bulk, Len(transactions_bulk))
        /\ Sole(state, delivered) => Sole(out.state, delivered)
  BY <1>1, BulkReplayed
<1>3. out.state.watched_signatures = state.watched_signatures
  BY <1>2 DEF Replayed, KeepsLevels
<1>4. PICK res \in Outcomes :
        /\ res = BlockMetaUpdate(out, slot, commitment)
        /\ MetaState(out.state, slot, commitment, res.state)
        /\ \A y : Among(y, out.effects) => Among(y, res.effects)
        /\ \A s \in out.state.txs[slot] \cap out.state.watched_signatures :
             Among(Notice(s, commitment), res.effects)
  BY <1>1, <1>3, BlockMetaFields
<1>5. /\ state' = res.state /\ effects' = res.effects
      /\ effects = <<>> /\ rx' = rx /\ notified' = notified /\ early' = early
  BY <1>2, <1>4 DEF GrpcBlockMeta
<1> QED
  BY <1>2, <1>3, <1>4, <1>5 DEF MetaStep

\* A signature in a slot that the metadata leaves it in has been there before,
\* or it has just been added; the slot has the level of the metadata or of
\* before.
LEMMA MetaLevels ==
  ASSUME RootedInv, NEW slot \in Slots, NEW commitment \in Levels,
         NEW out \in Outcomes, NEW res \in Outcomes, MetaStep(out, res, slot, commitment),
         NEW s \in state.watched_signatures, NEW x \in Slots, s \in res.state.txs[x]
  PROVE  /\ s \in out.state.txs[x]
         /\ res.state.commitment[x] = Lvl(state, slot, commitment, x)
         /\ x = slot => Among(Notice(s, commitment), res.effects)
         /\ x # slot /\ s \notin state.txs[x] /\ state.commitment[x] # NoMeta
              => Among(Notice(s, state.commitment[x]), res.effects)
<1>1. out.state.commitment = state.commitment
  BY DEF MetaStep, Replayed, KeepsLevels
<1>2. Kept(out.state, slot, commitment, res.state, x)
  BY DEF MetaStep, MetaState, Lost
<1>3. s \in out.state.txs[x] /\ res.state.commitment[x] = Lvl(state, slot, commitment, x)
  BY <1>1, <1>2 DEF Kept, Lvl
<1>4. x = slot => Among(Notice(s, commitment), res.effects)
  BY <1>3 DEF MetaStep
<1>5. s \notin state.txs[x] /\ state.commitment[x] # NoMeta => Among(Notice(s, state.commitment[x]), res.effects)
  BY <1>3 DEF MetaStep, Replayed, TellsNew
<1> QED
  BY <1>3, <1>4, <1>5

LEMMA MetaKeepsRooted ==
  ASSUME RootedInv, NEW slot \in Slots, NEW commitment \in Levels, GrpcBlockMeta(slot, commitment)
  PROVE  RootedInv'
<1>1. PICK out \in Outcomes, res \in Outcomes : MetaStep(out, res, slot, commitment)
  BY MetaStepIs
<1>2. /\ state \in State /\ transactions_bulk \in Seq(Executed) /\ rx \in Seq(Notification)
      /\ level \in [Slots -> Levels \cup {NoMeta}] /\ delivered \in SUBSET Executed
      /\ early \in SUBSET Sigs /\ notified \in [Sigs -> SUBSET Levels]
  BY DEF RootedInv, RootedTypeOK
<1>3. /\ transactions_bulk' = <<>> /\ level' = [level EXCEPT ![slot] = commitment]
      /\ delivered' = delivered
  BY DEF GrpcBlockMeta
<1>4. /\ state' = res.state /\ effects' = res.effects /\ effects = <<>>
      /\ rx' = rx /\ notified' = notified /\ early' = early
  BY <1>1 DEF MetaStep
<1>5. res.state \in State /\ res.effects \in Seq(Notification)
  BY DEF Outcomes
<1>6. RootedTypeOK' /\ Buffered'
  <2>1. transactions_bulk' \in Seq(Executed) /\ Buffered'
    BY <1>3 DEF Buffered
  <2>2. level' \in [Slots -> Levels \cup {NoMeta}]
    BY <1>2, <1>3
  <2> QED
    BY <1>2, <1>3, <1>4, <1>5, <2>1, <2>2 DEF RootedTypeOK
<1>7. res.state.watched_signatures = state.watched_signatures
  BY <1>1 DEF MetaStep, MetaState, Replayed, KeepsLevels
<1>8. IsFiniteSet(state'.watched_signatures) /\ early' \subseteq state'.watched_signatures
  BY <1>4, <1>7 DEF RootedInv
<1>9. ASSUME NEW s \in Sigs, res.state.transactions[s] # NoSlot
      PROVE  s \in res.state.txs[res.state.transactions[s]]
  <2>1. /\ res.state.transactions[s] = out.state.transactions[s]
        /\ \A x \in Slots : s \in out.state.txs[x] => Kept(out.state, slot, commitment, res.state, x)
    BY <1>1, <1>9 DEF MetaStep, MetaState
  <2>2. PICK x \in Slots : x = out.state.transactions[s]
    BY <1>9, <2>1 DEF Outcomes, State
  <2>3. s \in out.state.txs[x]
    <3>1. CASE out.state.transactions[s] = state.transactions[s]
      <4>1. s \in state.txs[x]
        BY <1>9, <2>1, <2>2, <3>1 DEF RootedInv, Located
      <4> QED
        BY <1>1, <4>1 DEF MetaStep, Replayed, HoldsAll
    <3>2. CASE out.state.transactions[s] # state.transactions[s]
      BY <1>1, <2>2, <3>2 DEF MetaStep, Replayed, LocatesNew
    <3> QED
      BY <3>1, <3>2
  <2> QED
    BY <2>1, <2>2, <2>3 DEF Kept
<1>10. Located'
  BY <1>4, <1>9 DEF Located
<1>11. ASSUME NEW s \in early, NEW x \in Slots, s \in res.state.txs[x], res.state.commitment[x] # NoMeta
       PROVE  \/ res.state.commitment[x] \in notified[s]
              \/ Among(Notice(s, res.state.commitment[x]), res.effects)
  <2>1. s \in Sigs /\ s \in state.watched_signatures
    BY <1>2 DEF RootedInv
  <2>2. /\ res.state.commitment[x] = Lvl(state, slot, commitment, x)
        /\ x = slot => Among(Notice(s, commitment), res.effects)
        /\ x # slot /\ s \notin state.txs[x] /\ state.commitment[x] # NoMeta
              => Among(Notice(s, state.commitment[x]), res.effects)
    BY <1>1, <1>11, <2>1, MetaLevels
  <2>3. CASE x = slot
    BY <2>2, <2>3 DEF Lvl
  <2>4. CASE x # slot
    <3>1. res.state.commitment[x] = state.commitment[x]
      BY <2>2, <2>4 DEF Lvl
    <3>2. CASE s \in state.txs[x]
      <4>1. ~Unsent(s, state.commitment[x])
        BY <1>4 DEF Unsent
      <4> QED
        BY <1>11, <3>1, <3>2, <4>1 DEF RootedInv, LevelsTold
    <3>3. CASE s \notin state.txs[x]
      BY <1>11, <2>2, <2>4, <3>1, <3>3
    <3> QED
      BY <3>2, <3>3
  <2> QED
    BY <2>3, <2>4
<1>12. LevelsTold'
  <2>1. ASSUME NEW s \in early', NEW x \in Slots, s \in state'.txs[x], state'.commitment[x] # NoMeta
        PROVE  state'.commitment[x] \in notified'[s] \/ Unsent(s, state.commitment[x])'
    <3>1. \/ res.state.commitment[x] \in notified[s]
          \/ Among(Notice(s, res.state.commitment[x]), res.effects)
      BY <1>4, <1>11, <2>1
    <3> QED
      BY <1>4, <3>1 DEF Unsent, Among, Notice
  <2> QED
    BY <2>1 DEF LevelsTold
<1> QED
  BY <1>6, <1>8, <1>10, <1>12 DEF RootedInv

LEMMA TransactionKeepsRooted ==
  ASSUME RootedInv, NEW tx \in Executed, GrpcTransaction(tx)
  PROVE  RootedInv'
<1>1. /\ transactions_bulk' = Append(transactions_bulk, tx) /\ delivered' = delivered \cup {tx}
      /\ state' = state /\ effects' = effects /\ rx' = rx /\ level' = level /\ early' = early
      /\ notified' = notified
  BY DEF GrpcTransaction
<1>2. transactions_bulk' \in Seq(Executed) /\ delivered' \in SUBSET Executed
  BY <1>1 DEF RootedInv, RootedTypeOK
<1>3. transactions_bulk \in Seq(Executed)
  BY DEF RootedInv, RootedTypeOK
<1>4. \A y : Among(y, transactions_bulk') => Among(y, transactions_bulk) \/ y = tx
  BY <1>1, <1>3, AppendAmong
<1>5. Buffered'
  BY <1>1, <1>4 DEF RootedInv, Buffered, Among
<1>6. LevelsTold'
  BY <1>1 DEF RootedInv, LevelsTold, Unsent
<1> QED
  BY <1>1, <1>2, <1>5, <1>6 DEF RootedInv, RootedTypeOK, Located

\* One notification is sent.
LEMMA NotifyKeepsRooted ==
  ASSUME RootedInv, NotifyWatcher
  PROVE  RootedInv'
<1>1. /\ effects # <<>> /\ effects \in Seq(Notification) /\ rx \in Seq(Notification)
      /\ notified \in [Sigs -> SUBSET Levels]
      /\ effects' = Tail(effects) /\ rx' = Append(rx, Head(effects))
      /\ notified' = [notified EXCEPT ![Head(effects).sig] = notified[Head(effects).sig] \cup {Head(effects).commitment}]
      /\ UNCHANGED <<state, transactions_bulk, level, delivered, early>>
  BY DEF RootedInv, RootedTypeOK, NotifyWatcher
<1>2. PICK n \in Notification : n = Head(effects)
  BY <1>1
<1>3. n.sig \in Sigs /\ n.commitment \in Levels
  BY DEF Notification
<1>4. /\ notified' \in [Sigs -> SUBSET Levels]
      /\ \A s \in Sigs : notified[s] \subseteq notified'[s]
      /\ n.commitment \in notified'[n.sig]
  BY <1>1, <1>2, <1>3
<1>5. effects' \in Seq(Notification) /\ rx' \in Seq(Notification)
  BY <1>1, <1>2
<1>6. RootedTypeOK'
  BY <1>1, <1>4, <1>5 DEF RootedInv, RootedTypeOK
<1>7. Buffered' /\ Located'
  BY <1>1 DEF RootedInv, Buffered, Located
<1>8. ASSUME NEW s \in early, NEW x \in Slots, s \in state.txs[x], state.commitment[x] # NoMeta
      PROVE  state.commitment[x] \in notified'[s] \/ Unsent(s, state.commitment[x])'
  <2>1. s \in Sigs
    BY DEF RootedInv, RootedTypeOK
  <2>2. CASE state.commitment[x] \in notified[s]
    BY <1>4, <2>1, <2>2
  <2>3. CASE Unsent(s, state.commitment[x])
    <3>1. Among(Notice(s, state.commitment[x]), effects)
      BY <2>3 DEF Unsent, Among, Notice
    <3>2. CASE Notice(s, state.commitment[x]) = n
      BY <1>4, <3>2 DEF Notice
    <3>3. CASE Notice(s, state.commitment[x]) # n
      <4>1. Among(Notice(s, state.commitment[x]), effects')
        BY <1>1, <1>2, <3>1, <3>3, TailAmong
      <4> QED
        BY <1>1, <4>1 DEF Unsent, Among, Notice
    <3> QED
      BY <3>2, <3>3
  <2> QED
    BY <1>8, <2>2, <2>3 DEF RootedInv, LevelsTold
<1>9. LevelsTold'
  BY <1>1, <1>8 DEF LevelsTold
<1> QED
  BY <1>1, <1>6, <1>7, <1>9 DEF RootedInv

LEMMA SubscribeKeepsRooted ==
  ASSUME RootedInv, NEW s \in Sigs, SubscribeSignature(s), UNCHANGED <<transactions_bulk, effects, rx, level, delivered>>
  PROVE  RootedInv'
<1>1. /\ state \in State /\ early \in SUBSET Sigs /\ notified \in [Sigs -> SUBSET Levels]
      /\ IsFiniteSet(state.watched_signatures) /\ early \subseteq state.watched_signatures
  BY DEF RootedInv, RootedTypeOK
<1>2. state' = [state EXCEPT !.watched_signatures = state.watched_signatures \cup {s}]
  BY <1>1 DEF SubscribeSignature, State
<1>3. state' \in State
  BY <1>1, <1>2 DEF State
<1>4. /\ state'.txs = state.txs /\ state'.commitment = state.commitment
      /\ state'.transactions = state.transactions
      /\ state'.watched_signatures = state.watched_signatures \cup {s}
  BY <1>1, <1>2 DEF State
<1>5. IsFiniteSet(state'.watched_signatures)
  BY <1>1, <1>4, FS_AddElement
<1>6. Located'
  BY <1>4 DEF RootedInv, Located
<1>7. early' \in SUBSET Sigs /\ notified' \in [Sigs -> SUBSET Levels] /\ early' \subseteq early \cup {s}
  BY <1>1 DEF SubscribeSignature
<1>8. RootedTypeOK'
  BY <1>3, <1>7 DEF RootedInv, RootedTypeOK
<1>9. ASSUME NEW r \in early', NEW x \in Slots, r \in state.txs[x], state.commitment[x] # NoMeta
      PROVE  state.commitment[x] \in notified'[r] \/ Unsent(r, state.commitment[x])
  <2>1. CASE s \in state.watched_signatures
    <3>1. early' = early /\ notified' = notified
      BY <2>1 DEF SubscribeSignature
    <3> QED
      BY <1>9, <3>1 DEF RootedInv, LevelsTold
  <2>2. CASE s \notin state.watched_signatures
    <3>1. notified' = [notified EXCEPT ![s] = {}] /\ (early' = early \/ (early' = early \cup {s} /\ ~Held(s)))
      BY <2>2 DEF SubscribeSignature
    <3>2. s \notin early
      BY <1>1, <2>2
    <3>3. r # s
      BY <1>9, <3>1, <3>2 DEF Held
    <3>4. r \in early /\ r \in Sigs /\ notified'[r] = notified[r]
      BY <1>1, <1>7, <3>1, <3>3
    <3> QED
      BY <1>9, <3>4 DEF RootedInv, LevelsTold
  <2> QED
    BY <2>1, <2>2
<1>10. LevelsTold' /\ Buffered'
  BY <1>4, <1>9 DEF RootedInv, LevelsTold, Unsent, Buffered
<1> QED
  BY <1>1, <1>4, <1>5, <1>6, <1>7, <1>8, <1>10 DEF RootedInv

LEMMA UnsubscribeKeepsRooted ==
  ASSUME RootedInv, NEW S \in SUBSET Sigs, UnsubscribeSignatures(S),
         UNCHANGED <<transactions_bulk, effects, rx, level, delivered, notified>>
  PROVE  RootedInv'
<1>1. /\ state \in State /\ early \in SUBSET Sigs
      /\ IsFiniteSet(state.watched_signatures) /\ early \subseteq state.watched_signatures
  BY DEF RootedInv, RootedTypeOK
<1>2. state' = [state EXCEPT !.watched_signatures = state.watched_signatures \ S] /\ early' = early \ S
  BY <1>1 DEF UnsubscribeSignatures, State
<1>3. state' \in State
  BY <1>1, <1>2 DEF State
<1>4. /\ state'.txs = state.txs /\ state'.commitment = state.commitment
      /\ state'.transactions = state.transactions
      /\ state'.watched_signatures = state.watched_signatures \ S
  BY <1>1, <1>2 DEF State
<1>5. IsFiniteSet(state'.watched_signatures)
  BY <1>1, <1>4, FS_Subset, state.watched_signatures \ S \subseteq state.watched_signatures
<1>6. Located' /\ LevelsTold' /\ Buffered'
  BY <1>2, <1>4 DEF RootedInv, Located, LevelsTold, Unsent, Buffered
<1>7. RootedTypeOK'
  BY <1>1, <1>2, <1>3 DEF RootedInv, RootedTypeOK
<1> QED
  BY <1>1, <1>2, <1>4, <1>5, <1>6, <1>7 DEF RootedInv

LEMMA RecvKeepsRooted ==
  ASSUME RootedInv, Recv, UNCHANGED <<state, transactions_bulk, effects, level, delivered, early, notified>>
  PROVE  RootedInv'
<1>1. rx \in Seq(Notification) /\ rx # <<>> /\ rx' = Tail(rx)
  BY DEF RootedInv, RootedTypeOK, Recv
<1>2. rx' \in Seq(Notification)
  BY <1>1
<1> QED
  BY <1>2 DEF RootedInv, RootedTypeOK, Located, LevelsTold, Unsent, Buffered

LEMMA RootedKept ==
  ASSUME RootedInv, UNCHANGED rootedVars
  PROVE  RootedInv'
<1>1. /\ state' = state /\ transactions_bulk' = transactions_bulk /\ effects' = effects
      /\ rx' = rx /\ level' = level /\ delivered' = delivered /\ early' = early /\ notified' = notified
  BY DEF rootedVars
<1> QED
  BY <1>1 DEF RootedInv, RootedTypeOK, Located, LevelsTold, Unsent, Buffered

LEMMA RootedInitial ==
  ASSUME RootedInit
  PROVE  RootedInv
<1>1. state \in State /\ state.watched_signatures = {}
  BY DEF RootedInit, State, NoMeta, NoSlot
<1>2. <<>> \in Seq(Executed) /\ <<>> \in Seq(Notification)
  OBVIOUS
<1>3. RootedTypeOK
  BY <1>1, <1>2 DEF RootedInit, RootedTypeOK, NoMeta
<1>4. IsFiniteSet(state.watched_signatures)
  BY <1>1, FS_EmptySet
<1>5. Located
  BY DEF RootedInit, Located
<1>6. LevelsTold /\ Buffered
  BY DEF RootedInit, LevelsTold, Buffered
<1> QED
  BY <1>3, <1>4, <1>5, <1>6 DEF RootedInit, RootedInv

-----------------------------------------------------------------------------
(***************************************************************************)
(* The receiver alone                                                      *)
(***************************************************************************)

\* What metadata does to the levels of the feed: a finalized slot stays
\* finalized, so what is not recent or forgotten stays so.
LEMMA ForgottenStays ==
  ASSUME level \in [Slots -> Levels \cup {NoMeta}],
         NEW slot \in Slots, NEW commitment \in Levels, MayReach(slot, commitment),
         level' = [level EXCEPT ![slot] = commitment], NEW x \in Slots
  PROVE  /\ ~Recent(x) => ~Recent(x)'
         /\ Forgotten(x) => Forgotten(x)'
<1>1. commitment > level[slot] /\ \A higher \in Slots : higher > slot => level[higher] # Finalized
  BY DEF MayReach, Feed!MayEmit, Feed!Finalized, Finalized
<1>2. \A top \in Slots : level'[top] = IF top = slot THEN commitment ELSE level[top]
  OBVIOUS
<1>3. level[slot] # Finalized
  BY <1>1 DEF Finalized, Levels
<1>4. \A top \in Slots : level[top] = Finalized => level'[top] = Finalized
  BY <1>2, <1>3
<1>5. ~Recent(x) => ~Recent(x)'
  BY <1>4 DEF Recent
<1>6. ASSUME NEW top \in Slots, top > x, level[top] = Finalized, level[x] # Finalized
      PROVE  level'[x] # Finalized
  BY <1>1, <1>2, <1>6
<1> QED
  BY <1>4, <1>5, <1>6 DEF Forgotten

LEMMA MetaKeepsSlots ==
  ASSUME RootedInv, SlotInv, NEW slot \in Slots, NEW commitment \in Levels,
         GrpcBlockMeta(slot, commitment)
  PROVE  SlotInv'
<1>1. PICK out \in Outcomes, res \in Outcomes : MetaStep(out, res, slot, commitment)
  BY MetaStepIs
<1>2. /\ MayReach(slot, commitment) /\ level \in [Slots -> Levels \cup {NoMeta}]
      /\ level' = [level EXCEPT ![slot] = commitment] /\ delivered' = delivered
      /\ transactions_bulk' = <<>> /\ transactions_bulk \in Seq(Executed)
  BY DEF GrpcBlockMeta, RootedInv, RootedTypeOK
<1>3. \A x \in Slots : level'[x] = IF x = slot THEN commitment ELSE level[x]
  BY <1>2
<1>4. \A x \in Slots : (~Recent(x) => ~Recent(x)') /\ (Forgotten(x) => Forgotten(x)')
  BY <1>2, ForgottenStays
<1>15. Sole(state, delivered)
  <2>1. Received \subseteq delivered
    BY DEF Received
  <2> QED
    BY <2>1, SoleGrows DEF SlotInv
<1>5. /\ state' = res.state /\ Sole(out.state, delivered) /\ MetaState(out.state, slot, commitment, res.state)
      /\ out.state.commitment = state.commitment
      /\ HoldsAll(out, state, transactions_bulk, Len(transactions_bulk))
  BY <1>1, <1>15 DEF MetaStep, Replayed, KeepsLevels
<1>6. \A x \in Slots : Lvl(out.state, slot, commitment, x) = Lvl(state, slot, commitment, x)
  BY <1>5 DEF Lvl
<1>7. \A x \in Slots : \/ Kept(out.state, slot, commitment, res.state, x)
                      \/ Lost(out.state, slot, commitment, res.state, x)
  BY <1>5 DEF MetaState
<1>8. ASSUME NEW x \in Slots, Lost(out.state, slot, commitment, res.state, x)
      PROVE  Forgotten(x)' /\ (level'[x] = Finalized => ~Recent(x)')
  <2>1. commitment = Finalized /\ level'[slot] = Finalized
    BY <1>3, <1>8 DEF Lost
  <2>2. CASE Lvl(state, slot, commitment, x) = Finalized
    <3>1. ~(Height[x] + Retain > Height[slot])
      BY <1>6, <1>8, <2>2 DEF Lost
    <3>2. ~Recent(x)'
      BY <2>1, <3>1 DEF Recent
    <3> QED
      BY <3>2 DEF Forgotten
  <2>3. CASE Lvl(state, slot, commitment, x) # Finalized
    <3>1. x # slot /\ ~(x > slot) /\ state.commitment[x] # Finalized
      BY <1>6, <1>8, <2>1, <2>3 DEF Lost, Lvl
    <3>2. x \in Nat /\ slot \in Nat
      BY Constants
    <3>3. slot > x
      BY <3>1, <3>2
    <3>4. level'[x] = level[x]
      BY <1>3, <3>1
    <3>5. level[x] = Finalized => ~Recent(x)
      BY <3>1 DEF SlotInv
    <3>6. level'[x] = Finalized => ~Recent(x)'
      BY <1>4, <3>4, <3>5
    <3> QED
      BY <2>1, <3>3, <3>6 DEF Forgotten
  <2> QED
    BY <2>2, <2>3
<1>9. ASSUME NEW x \in Slots, NEW s \in Sigs, s \in res.state.txs[x]
      PROVE  /\ <<x, s>> \in delivered
             /\ (\A other \in Slots : <<other, s>> \in delivered => other = x) => res.state.transactions[s] = x
  <2>1. s \in out.state.txs[x]
    BY <1>7, <1>9 DEF Kept, Lost
  <2>2. <<x, s>> \in delivered
    BY <1>5, <2>1 DEF Sole
  <2>3. SUFFICES ASSUME \A other \in Slots : <<other, s>> \in delivered => other = x
                 PROVE  res.state.transactions[s] = x
    BY <2>2
  <2>4. out.state.transactions[s] = x
    BY <1>5, <2>1, <2>3 DEF Sole
  <2>5. ASSUME NEW y \in Slots, s \in out.state.txs[y], Lost(out.state, slot, commitment, res.state, y)
        PROVE  FALSE
    <3>1. y = x
      BY <1>5, <2>3, <2>5 DEF Sole
    <3> QED
      BY <1>9, <2>5, <3>1 DEF Lost
  <2>6. res.state.transactions[s] = out.state.transactions[s]
    BY <1>5, <2>5 DEF MetaState
  <2> QED
    BY <2>4, <2>6
<1>10. Sole(state', delivered)
  BY <1>5, <1>9 DEF Sole
<1>11. ASSUME NEW x \in Slots, res.state.commitment[x] # NoMeta
       PROVE  res.state.commitment[x] = level'[x]
  <2>1. res.state.commitment[x] = Lvl(state, slot, commitment, x)
    BY <1>6, <1>7, <1>11 DEF Kept, Lost
  <2> QED
    BY <1>3, <1>11, <2>1 DEF Lvl, SlotInv
<1>12. ASSUME NEW x \in Slots, res.state.commitment[x] = NoMeta, level'[x] = Finalized
       PROVE  ~Recent(x)'
  <2>1. CASE Lost(out.state, slot, commitment, res.state, x)
    BY <1>8, <1>12, <2>1
  <2>2. CASE Kept(out.state, slot, commitment, res.state, x)
    <3>1. Lvl(state, slot, commitment, x) = NoMeta
      BY <1>6, <1>12, <2>2 DEF Kept
    <3>2. x # slot /\ state.commitment[x] = NoMeta
      BY <3>1 DEF Lvl, Levels, NoMeta
    <3>3. ~Recent(x)
      BY <1>3, <1>12, <3>2 DEF SlotInv
    <3> QED
      BY <1>4, <3>3
  <2> QED
    BY <1>7, <2>1, <2>2
<1>13. ASSUME NEW x \in Slots, NEW s \in Sigs, <<x, s>> \in delivered
       PROVE  s \in res.state.txs[x] \/ Forgotten(x)'
  <2>1. s \in out.state.txs[x] \/ Forgotten(x)
    <3>1. CASE <<x, s>> \in Received
      BY <1>5, <3>1 DEF SlotInv, HoldsAll
    <3>2. CASE <<x, s>> \notin Received
      <4>1. PICK i \in DOMAIN transactions_bulk : transactions_bulk[i] = <<x, s>>
        BY <1>13, <3>2 DEF Received
      <4>2. i \in 1..Len(transactions_bulk)
        BY <1>2, LenProperties
      <4> QED
        BY <1>5, <4>1, <4>2 DEF HoldsAll
    <3> QED
      BY <3>1, <3>2
  <2>2. s \in out.state.txs[x] => s \in res.state.txs[x] \/ Lost(out.state, slot, commitment, res.state, x)
    BY <1>7 DEF Kept
  <2> QED
    BY <1>4, <1>8, <2>1, <2>2
<1>14. Received' = delivered
  BY <1>2 DEF Received
<1> QED
  BY <1>5, <1>10, <1>11, <1>12, <1>13, <1>14 DEF SlotInv

LEMMA TransactionKeepsSlots ==
  ASSUME RootedInv, SlotInv, NEW tx \in Executed, GrpcTransaction(tx)
  PROVE  SlotInv'
<1>1. /\ transactions_bulk' = Append(transactions_bulk, tx) /\ delivered' = delivered \cup {tx}
      /\ state' = state /\ level' = level /\ transactions_bulk \in Seq(Executed)
  BY DEF GrpcTransaction, RootedInv, RootedTypeOK
<1>2. \A y : Among(y, transactions_bulk') <=> Among(y, transactions_bulk) \/ y = tx
  BY <1>1, AppendAmong
<1>3. tx \notin delivered
  BY DEF GrpcTransaction
<1>4. /\ \A y : y \in Received <=> y \in delivered /\ ~Among(y, transactions_bulk)
      /\ \A y : y \in Received' <=> y \in delivered' /\ ~Among(y, transactions_bulk')
  BY DEF Received, Among
<1>5. Received' = Received
  BY <1>1, <1>2, <1>3, <1>4
<1> QED
  BY <1>1, <1>5 DEF SlotInv, Forgotten, Recent

\* Subscriptions and notifications do not touch the slots.
LEMMA SlotsKept ==
  ASSUME SlotInv, UNCHANGED <<transactions_bulk, level, delivered>>,
         state'.txs = state.txs, state'.commitment = state.commitment, state'.transactions = state.transactions
  PROVE  SlotInv'
<1>1. Received' = Received
  BY DEF Received
<1>2. \A x \in Slots : (Forgotten(x)' <=> Forgotten(x)) /\ (Recent(x)' <=> Recent(x))
  BY DEF Forgotten, Recent
<1>3. Sole(state', Received)
  BY DEF SlotInv, Sole
<1> QED
  BY <1>1, <1>2, <1>3 DEF SlotInv

LEMMA SlotsInitial ==
  ASSUME RootedInit
  PROVE  SlotInv
<1>1. /\ \A x \in Slots : state.txs[x] = {} /\ state.commitment[x] = NoMeta /\ level[x] # Finalized
      /\ delivered = {}
  BY DEF RootedInit, NoMeta, Finalized
<1>2. Received = {}
  BY <1>1 DEF Received
<1> QED
  BY <1>1, <1>2 DEF SlotInv, Sole

\* A subscriber's steps leave the slots as they are.
LEMMA SubscriptionFields ==
  ASSUME state \in State, NEW S \in SUBSET Sigs,
         \/ state' = [state EXCEPT !.watched_signatures = @ \cup S]
         \/ state' = [state EXCEPT !.watched_signatures = @ \ S]
  PROVE  state'.txs = state.txs /\ state'.commitment = state.commitment /\ state'.transactions = state.transactions
  BY DEF State

LEMMA RootedStep ==
  ASSUME RootedInv, [RootedNext]_rootedVars
  PROVE  RootedInv' /\ (SlotInv => SlotInv')
<1>1. ASSUME NEW tx \in Executed, GrpcTransaction(tx)
      PROVE  RootedInv' /\ (SlotInv => SlotInv')
  BY <1>1, TransactionKeepsRooted, TransactionKeepsSlots
<1>2. ASSUME NEW sl \in Slots, NEW commitment \in Levels, GrpcBlockMeta(sl, commitment)
      PROVE  RootedInv' /\ (SlotInv => SlotInv')
  BY <1>2, MetaKeepsRooted, MetaKeepsSlots
<1>3. state \in State
  BY DEF RootedInv, RootedTypeOK
<1>4. ASSUME NEW s \in Sigs, SubscribeSignature(s), UNCHANGED <<transactions_bulk, effects, rx, level, delivered>>
      PROVE  RootedInv' /\ (SlotInv => SlotInv')
  <2>1. state' = [state EXCEPT !.watched_signatures = @ \cup {s}]
    BY <1>4 DEF SubscribeSignature
  <2>2. state'.txs = state.txs /\ state'.commitment = state.commitment /\ state'.transactions = state.transactions
    BY <1>3, <2>1, SubscriptionFields
  <2> QED
    BY <1>4, <2>2, SubscribeKeepsRooted, SlotsKept
<1>5. ASSUME NEW s \in Sigs, UnsubscribeSignatures({s}),
             UNCHANGED <<transactions_bulk, effects, rx, level, delivered, notified>>
      PROVE  RootedInv' /\ (SlotInv => SlotInv')
  <2>1. state' = [state EXCEPT !.watched_signatures = @ \ {s}]
    BY <1>5 DEF UnsubscribeSignatures
  <2>2. state'.txs = state.txs /\ state'.commitment = state.commitment /\ state'.transactions = state.transactions
    BY <1>3, <2>1, SubscriptionFields
  <2>3. {s} \in SUBSET Sigs
    OBVIOUS
  <2> QED
    BY <1>5, <2>2, <2>3, UnsubscribeKeepsRooted, SlotsKept
<1>6. ASSUME Recv, UNCHANGED <<state, transactions_bulk, effects, level, delivered, early, notified>>
      PROVE  RootedInv' /\ (SlotInv => SlotInv')
  BY <1>6, RecvKeepsRooted, SlotsKept
<1>8. ASSUME NotifyWatcher
      PROVE  RootedInv' /\ (SlotInv => SlotInv')
  <2>1. UNCHANGED <<state, transactions_bulk, level, delivered>>
    BY <1>8 DEF NotifyWatcher
  <2> QED
    BY <1>8, <2>1, NotifyKeepsRooted, SlotsKept
<1>7. CASE UNCHANGED rootedVars
  BY <1>7, RootedKept, SlotsKept DEF rootedVars
<1> QED
  BY <1>1, <1>2, <1>4, <1>5, <1>6, <1>7, <1>8 DEF RootedNext

\* A signature watched before its transaction was processed has been told the
\* level of every slot that holds it, or is being told, in whatever order
\* transactions and block metadata come and whatever is subscribed between the
\* locked update and its notifications, for every set of slots, signatures,
\* forks and retention (process_event of RootedTxStateMachine, start_loop).
THEOREM EveryLevelIsNotified == RootedSpec => []EveryLevelNotified
<1>1. RootedInv => EveryLevelNotified
  BY DEF RootedInv, LevelsTold, EveryLevelNotified
<1> QED
  BY <1>1, RootedInitial, RootedStep, PTL DEF RootedSpec

\* A transaction of a recent finalized slot is known as finalized, whatever is
\* cleaned up, unless it was delivered for a second slot as well, and no level is
\* known for a transaction but one that a slot which executed it has reached
\* (process_event, cleanup_old_slots, should_retain_finalized_slot).
THEOREM FinalizedIsKnown == RootedSpec => []FinalizedStaysKnown
<1>1. RootedInit => RootedInv /\ SlotInv
  BY RootedInitial, SlotsInitial
<1>2. RootedInv /\ SlotInv /\ [RootedNext]_rootedVars => (RootedInv /\ SlotInv)'
  BY RootedStep
<1>3. ASSUME SlotInv, NEW s \in Sigs, NEW sl \in Slots, Reached(sl, s), Recent(sl), ~Forked(sl, s)
      PROVE  GetTransactionCommitment(s) = Finalized
  <2>1. <<sl, s>> \in Received /\ level[sl] = Finalized
    BY <1>3 DEF Reached
  <2>2. s \in state.txs[sl]
    BY <1>3, <2>1 DEF SlotInv, Forgotten
  <2>3. state.transactions[s] = sl
    BY <1>3, <2>2 DEF SlotInv, Sole, Forked
  <2>4. state.commitment[sl] = Finalized
    BY <1>3, <2>1 DEF SlotInv
  <2>5. sl \in Nat
    BY Constants
  <2>6. sl # NoSlot
    BY <2>5 DEF NoSlot
  <2> QED
    BY <2>3, <2>4, <2>6 DEF GetTransactionCommitment
<1>4. ASSUME RootedInv, SlotInv, NEW s \in Sigs, GetTransactionCommitment(s) # NoMeta
      PROVE  \E sl \in Slots : <<sl, s>> \in Received /\ level[sl] = GetTransactionCommitment(s)
  <2>1. state.transactions[s] # NoSlot
    BY <1>4 DEF GetTransactionCommitment
  <2>2. PICK sl \in Slots : sl = state.transactions[s]
    BY <1>4, <2>1 DEF RootedInv, RootedTypeOK, State
  <2>3. GetTransactionCommitment(s) = state.commitment[sl]
    BY <2>1, <2>2 DEF GetTransactionCommitment
  <2>4. s \in state.txs[sl]
    BY <1>4, <2>1, <2>2 DEF RootedInv, Located
  <2> QED
    BY <1>4, <2>3, <2>4 DEF SlotInv, Sole
<1>5. RootedInv /\ SlotInv => FinalizedStaysKnown
  BY <1>3, <1>4 DEF FinalizedStaysKnown
<1> QED
  BY <1>1, <1>2, <1>5, PTL DEF RootedSpec

-----------------------------------------------------------------------------
(***************************************************************************)
(* The scheduler                                                           *)
(***************************************************************************)

\* What the scheduler keeps for itself.
OwnInv == SchedulerTypeOK /\ PooledIsTracked /\ SendsAccounted

LEMMA StopIsALevel == Stop # NoMeta
  BY Constants DEF Levels, NoMeta

LEMMA PendingIsAmong ==
  ASSUME NEW s
  PROVE  StopPending(s) <=> Among(Notice(s, Stop), effects) \/ Among(Notice(s, Stop), rx)
  BY DEF StopPending, Unsent, Among, Notice

\* Metadata: a pooled signature that gets to the level asked for is told so.
LEMMA MetaKeepsLanded ==
  ASSUME RootedInv, LandedInv, NEW slot \in Slots, NEW commitment \in Levels, GrpcBlockMeta(slot, commitment),
         UNCHANGED <<tx_pool, adding>>, Pooling \subseteq Sigs
  PROVE  LandedInv'
<1>1. PICK out \in Outcomes, res \in Outcomes : MetaStep(out, res, slot, commitment)
  BY MetaStepIs
<1>2. RootedInv'
  BY MetaKeepsRooted
<1>3. /\ state' = res.state /\ effects = <<>> /\ effects' = res.effects /\ rx' = rx /\ early' = early
      /\ state \in State /\ res.state \in State
  BY <1>1 DEF MetaStep, RootedInv, RootedTypeOK, Outcomes
<1>4. \A s : StopPending(s) => Among(Notice(s, Stop), rx)
  BY <1>3 DEF StopPending, Unsent, Among, Notice
<1>5. Pooling' = Pooling
  BY DEF Pooling
<1>6. ASSUME NEW s \in Pooling \cap early, GetTransactionCommitment(s)' = Stop
      PROVE  Among(Notice(s, Stop), effects') \/ Among(Notice(s, Stop), rx')
  <2>1. s \in Sigs /\ s \in state.watched_signatures
    BY DEF RootedInv
  <2>2. res.state.transactions[s] # NoSlot
    BY <1>3, <1>6, StopIsALevel DEF GetTransactionCommitment
  <2>3. PICK x \in Slots : x = res.state.transactions[s]
    BY <1>3, <2>1, <2>2 DEF State
  <2>4. res.state.commitment[x] = Stop
    BY <1>3, <1>6, <2>2, <2>3 DEF GetTransactionCommitment
  <2>5. s \in res.state.txs[x]
    BY <1>2, <1>3, <2>1, <2>2, <2>3 DEF RootedInv, Located
  <2>6. /\ res.state.commitment[x] = Lvl(state, slot, commitment, x)
        /\ x = slot => Among(Notice(s, commitment), res.effects)
        /\ x # slot /\ s \notin state.txs[x] /\ state.commitment[x] # NoMeta
              => Among(Notice(s, state.commitment[x]), res.effects)
    BY <1>1, <2>1, <2>5, MetaLevels
  <2>7. CASE x = slot
    BY <1>3, <2>4, <2>6, <2>7 DEF Lvl
  <2>8. CASE x # slot
    <3>1. state.commitment[x] = Stop
      BY <2>4, <2>6, <2>8 DEF Lvl
    <3>2. CASE s \notin state.txs[x]
      BY <1>3, <2>6, <2>8, <3>1, <3>2, StopIsALevel
    <3>3. CASE s \in state.txs[x]
      <4>1. out.state.transactions[s] = x
        BY <1>1, <2>1, <2>2, <2>3 DEF MetaStep, MetaState
      <4>2. state.transactions[s] = x
        BY <1>1, <2>1, <3>3, <4>1 DEF MetaStep, Replayed, LocatesNew
      <4>3. GetTransactionCommitment(s) = Stop
        BY <2>2, <2>3, <3>1, <4>2 DEF GetTransactionCommitment
      <4>4. Among(Notice(s, Stop), rx)
        BY <1>4, <1>6, <4>3 DEF LandedInv
      <4> QED
        BY <1>3, <4>4
    <3> QED
      BY <3>2, <3>3
  <2> QED
    BY <2>7, <2>8
<1> QED
  BY <1>3, <1>5, <1>6 DEF LandedInv, StopPending, Unsent, Among, Notice

\* Nothing the property speaks of changes.
LEMMA LandedKept ==
  ASSUME LandedInv, Pooling' \subseteq Pooling, early' \subseteq early, effects' = effects, rx' = rx,
         state'.transactions = state.transactions, state'.commitment = state.commitment
  PROVE  LandedInv'
<1>1. \A s : GetTransactionCommitment(s)' = GetTransactionCommitment(s)
  BY DEF GetTransactionCommitment
<1>2. \A s : StopPending(s)' <=> StopPending(s)
  BY DEF StopPending, Unsent
<1> QED
  BY <1>1, <1>2 DEF LandedInv

LEMMA PoolingIsSigs ==
  ASSUME SchedulerTypeOK
  PROVE  Pooling \subseteq Sigs
  BY DEF SchedulerTypeOK, Pooling, Submission

LEMMA OwnKept ==
  ASSUME OwnInv, UNCHANGED schedulerVars, state'.watched_signatures = state.watched_signatures
  PROVE  OwnInv'
<1>1. /\ last_known_block_height' = last_known_block_height /\ tx_pool' = tx_pool
      /\ leftover_attempt' = leftover_attempt /\ block_height_deadline_map' = block_height_deadline_map
      /\ insertion_order' = insertion_order /\ due' = due /\ adding' = adding
      /\ submissions' = submissions /\ sent' = sent /\ allowed' = allowed
  BY DEF schedulerVars
<1>2. SchedulerTypeOK'
  BY <1>1 DEF OwnInv, SchedulerTypeOK
<1>3. PooledIsTracked'
  BY <1>1 DEF OwnInv, PooledIsTracked
<1>4. SendsAccounted'
  BY <1>1 DEF OwnInv, SendsAccounted
<1> QED
  BY <1>2, <1>3, <1>4 DEF OwnInv

\* A landing moves from the loop to rx.
LEMMA NotifyKeepsLanded ==
  ASSUME RootedInv, LandedInv, NotifyWatcher, Pooling' = Pooling
  PROVE  LandedInv'
<1>1. /\ effects # <<>> /\ effects \in Seq(Notification) /\ rx \in Seq(Notification)
      /\ effects' = Tail(effects) /\ rx' = Append(rx, Head(effects)) /\ state' = state /\ early' = early
  BY DEF RootedInv, RootedTypeOK, NotifyWatcher
<1>2. PICK n \in Notification : n = Head(effects)
  BY <1>1
<1>3. \A y : Among(y, rx') <=> Among(y, rx) \/ y = n
  BY <1>1, <1>2, AppendAmong
<1>4. \A y : Among(y, effects) /\ y # n => Among(y, effects')
  BY <1>1, <1>2, TailAmong
<1>5. \A s : StopPending(s) => StopPending(s)'
  BY <1>3, <1>4 DEF StopPending, Unsent, Among, Notice
<1>6. \A s : GetTransactionCommitment(s)' = GetTransactionCommitment(s)
  BY <1>1 DEF GetTransactionCommitment
<1> QED
  BY <1>1, <1>5, <1>6 DEF LandedInv

\* The receiver's loop moves.
LEMMA ReceiverKeeps ==
  ASSUME RootedInv, OwnInv, LandedInv, ReceiverStep
  PROVE  RootedInv' /\ OwnInv' /\ LandedInv'
<1>1. UNCHANGED schedulerVars /\ tx_pool' = tx_pool /\ adding' = adding
  BY DEF ReceiverStep, schedulerVars
<1>2. Pooling \subseteq Sigs /\ Pooling' = Pooling
  BY <1>1, PoolingIsSigs DEF OwnInv, Pooling
<1>3. ASSUME NEW tx \in Executed, GrpcTransaction(tx)
      PROVE  RootedInv' /\ OwnInv' /\ LandedInv'
  <2>1. state' = state /\ effects' = effects /\ rx' = rx /\ early' = early
    BY <1>3 DEF GrpcTransaction
  <2> QED
    BY <1>1, <1>2, <1>3, <2>1, TransactionKeepsRooted, OwnKept, LandedKept
<1>4. ASSUME NEW sl \in Slots, NEW commitment \in Levels, GrpcBlockMeta(sl, commitment)
      PROVE  RootedInv' /\ OwnInv' /\ LandedInv'
  <2>1. PICK out \in Outcomes, res \in Outcomes : MetaStep(out, res, sl, commitment)
    BY <1>4, MetaStepIs
  <2>2. state'.watched_signatures = state.watched_signatures
    BY <2>1 DEF MetaStep, MetaState, Replayed, KeepsLevels
  <2> QED
    BY <1>1, <1>2, <1>4, <2>2, MetaKeepsRooted, OwnKept, MetaKeepsLanded
<1>5. ASSUME NotifyWatcher
      PROVE  RootedInv' /\ OwnInv' /\ LandedInv'
  <2>1. state' = state /\ early' = early
    BY <1>5 DEF NotifyWatcher
  <2>2. LandedInv'
    BY <1>2, <1>5, <2>1, NotifyKeepsLanded
  <2> QED
    BY <1>1, <1>5, <2>1, <2>2, NotifyKeepsRooted, OwnKept
<1> QED
  BY <1>3, <1>4, <1>5 DEF ReceiverStep

\* The scheduler keeps its hands off the receiver's state.
LEMMA LandedWithoutReceiver ==
  ASSUME LandedInv, UNCHANGED rootedVars, Pooling' \subseteq Pooling
  PROVE  LandedInv'
<1>1. state' = state /\ effects' = effects /\ rx' = rx /\ early' = early
  BY DEF rootedVars
<1> QED
  BY <1>1, LandedKept

LEMMA HeightIsKnown ==
  ASSUME QueueInv, NEW commitment \in Levels
  PROVE  LatestHeight(commitment) \in Nat
<1>1. PICK held : held = {b \in Blocks : blockmeta_map[b] = commitment}
  OBVIOUS
<1>2. PICK heights : heights = {BlockHeight[b] : b \in held}
  OBVIOUS
<1>3. CASE heights = {}
  BY <1>1, <1>2, <1>3 DEF LatestHeight
<1>4. CASE heights # {}
  <2>1. commitment # 0
    BY DEF Levels
  <2>2. held \subseteq KnownBlocks
    BY <1>1, <2>1 DEF KnownBlocks
  <2>3. IsFiniteSet(held)
    BY <2>2, FS_Subset DEF QueueInv
  <2>4. IsFiniteSet(heights)
    <3>1. PICK f : f = [b \in held |-> BlockHeight[b]]
      OBVIOUS
    <3>2. f \in Surjection(held, heights)
      BY <1>2, <3>1 DEF Surjection
    <3> QED
      BY <2>3, <3>2, FS_Surjection
  <2>5. heights \in SUBSET Nat
    BY <1>1, <1>2, Constants
  <2>6. PICK m \in heights : \A c \in heights : c <= m
    BY <1>4, <2>4, <2>5, GreatestNumber
  <2>7. (CHOOSE h \in heights : \A g \in heights : g <= h) \in heights
    BY <2>6
  <2>8. LatestHeight(commitment) \in heights
    BY <1>1, <1>2, <1>4, <2>7 DEF LatestHeight
  <2> QED
    BY <2>5, <2>8
<1> QED
  BY <1>3, <1>4

\* Only adding and what is kept for the submission change.
LEMMA PoolKept ==
  ASSUME OwnInv, UNCHANGED <<tx_pool, leftover_attempt, block_height_deadline_map, insertion_order, due,
                             sent, allowed, state>>
  PROVE  PooledIsTracked' /\ SendsAccounted'
<1>1. PooledIsTracked'
  BY DEF OwnInv, PooledIsTracked
<1>2. SendsAccounted'
  BY DEF OwnInv, SendsAccounted
<1> QED
  BY <1>1, <1>2

\* add_new_transaction, up to its first read.
LEMMA AddReadsKeeps ==
  ASSUME QueueInv, OwnInv, LandedInv, NEW s \in Sigs, NEW max_retries \in 0..MaxRetry, AddReads(s, max_retries)
  PROVE  OwnInv' /\ LandedInv'
<1>1. /\ UNCHANGED rootedVars /\ state' = state
      /\ UNCHANGED <<tx_pool, leftover_attempt, block_height_deadline_map, insertion_order, due, sent, allowed>>
  BY DEF AddReads, rootedVars
<1>2. last_known_block_height' \in Nat
  <2>1. Confirmed \in Levels
    BY DEF Confirmed, Levels
  <2>2. last_known_block_height' = LatestHeight(Confirmed)
    BY DEF AddReads
  <2> QED
    BY <2>1, <2>2, HeightIsKnown
<1>3. adding' \in Submission /\ adding'.checked = FALSE
  BY DEF AddReads, Submission
<1>4. submissions' \in [Sigs -> 0..MaxSubmissions]
  <2>1. submissions \in [Sigs -> 0..MaxSubmissions]
    BY DEF OwnInv, SchedulerTypeOK
  <2>2. submissions[s] < MaxSubmissions /\ submissions' = [submissions EXCEPT ![s] = submissions[s] + 1]
    BY <2>1 DEF AddReads
  <2>3. MaxSubmissions \in Nat
    BY Constants
  <2>4. submissions[s] + 1 \in 0..MaxSubmissions
    BY <2>1, <2>2, <2>3
  <2> QED
    BY <2>1, <2>2, <2>4
<1>5. SchedulerTypeOK'
  BY <1>1, <1>2, <1>3, <1>4 DEF OwnInv, SchedulerTypeOK
<1>6. Pooling' \subseteq Pooling
  BY <1>1, <1>3 DEF Pooling
<1> QED
  BY <1>1, <1>5, <1>6, PoolKept, LandedWithoutReceiver DEF OwnInv

\* add_new_transaction: a submission past its check has not landed yet.
LEMMA AddChecksKeeps ==
  ASSUME RootedInv, QueueInv, OwnInv, LandedInv, NEW last_valid \in LastValidHeights, AddChecks(last_valid)
  PROVE  OwnInv' /\ LandedInv'
<1>1. /\ UNCHANGED rootedVars /\ state' = state
      /\ UNCHANGED <<tx_pool, leftover_attempt, block_height_deadline_map, insertion_order, due, sent, allowed>>
      /\ UNCHANGED <<last_known_block_height, submissions>>
  BY DEF AddChecks, rootedVars
<1>2. adding # NoTx /\ adding \in Submission /\ ~adding.checked
  BY DEF AddChecks, OwnInv, SchedulerTypeOK
<1>3. last_valid \in Nat
  <2>1. PICK h \in {BlockHeight[b] : b \in KnownBlocks} \cup {last_known_block_height} : last_valid = h + MaxAge
    BY DEF LastValidHeights
  <2>2. h \in Nat
    BY <2>1, Constants DEF KnownBlocks, OwnInv, SchedulerTypeOK
  <2>3. MaxAge \in Nat
    BY Constants
  <2> QED
    BY <2>1, <2>2, <2>3
<1>4. CASE adding' = NoTx
  <2>1. SchedulerTypeOK'
    BY <1>1, <1>4 DEF OwnInv, SchedulerTypeOK
  <2>2. Pooling' \subseteq Pooling
    BY <1>1, <1>4 DEF Pooling
  <2> QED
    BY <1>1, <2>1, <2>2, PoolKept, LandedWithoutReceiver DEF OwnInv
<1>5. CASE /\ ~IsLanded(adding.sig)
           /\ adding' = [adding EXCEPT !.checked = TRUE, !.last_valid = last_valid]
  <2>1. adding' \in Submission /\ adding'.sig = adding.sig
    BY <1>2, <1>3, <1>5 DEF Submission
  <2>2. SchedulerTypeOK'
    BY <1>1, <2>1 DEF OwnInv, SchedulerTypeOK
  <2>3. Pooling' \subseteq tx_pool \cup {adding.sig} /\ tx_pool \subseteq Pooling
    BY <1>1, <2>1 DEF Pooling
  <2>4. GetTransactionCommitment(adding.sig) # Stop
    <3>1. Stop \in Nat
      BY Constants DEF Levels
    <3> QED
      BY <1>5, <3>1 DEF IsLanded
  <2>5. /\ \A t : GetTransactionCommitment(t)' = GetTransactionCommitment(t)
        /\ \A t : StopPending(t)' <=> StopPending(t)
        /\ early' = early
    BY <1>1 DEF GetTransactionCommitment, StopPending, Unsent, rootedVars
  <2>6. LandedInv'
    BY <2>3, <2>4, <2>5 DEF LandedInv
  <2> QED
    BY <1>1, <2>2, <2>6, PoolKept DEF OwnInv
<1> QED
  BY <1>4, <1>5 DEF AddChecks

\* The rest of add_new_transaction.  The check made before the subscription may
\* be stale: the landing of a signature watched before is then pending in rx, and
\* a signature that a slot holds when it is subscribed is not early.
LEMMA AddSubscribesKeeps ==
  ASSUME RootedInv, OwnInv, LandedInv, AddSubscribes
  PROVE  RootedInv' /\ OwnInv' /\ LandedInv'
<1>1. adding # NoTx /\ adding \in Submission /\ adding.checked
  BY DEF AddSubscribes, OwnInv, SchedulerTypeOK
<1>2. PICK s \in Sigs, mr \in 0..MaxRetry, lv \in Nat :
        s = adding.sig /\ mr = adding.max_retries /\ lv = adding.last_valid
  BY <1>1 DEF Submission
<1>3. /\ SubscribeSignature(s)
      /\ tx_pool' = tx_pool \cup {s}
      /\ leftover_attempt' = [leftover_attempt EXCEPT ![s] = Leftover(mr)]
      /\ block_height_deadline_map' = block_height_deadline_map \cup {<<lv, s>>}
      /\ sent' = [sent EXCEPT ![s] = @ + 1]
      /\ insertion_order' = Append(insertion_order, s)
      /\ allowed' = [allowed EXCEPT ![s] = @ + AtLeastOne(mr)]
      /\ adding' = NoTx
      /\ UNCHANGED <<transactions_bulk, effects, rx, level, delivered, last_known_block_height, due, submissions>>
  BY <1>2 DEF AddSubscribes
<1>4. RootedInv'
  BY <1>3, SubscribeKeepsRooted
<1>5. /\ state'.txs = state.txs /\ state'.commitment = state.commitment /\ state'.transactions = state.transactions
      /\ state'.watched_signatures = state.watched_signatures \cup {s}
  <2>1. state \in State
    BY DEF RootedInv, RootedTypeOK
  <2>2. state' = [state EXCEPT !.watched_signatures = @ \cup {s}]
    BY <1>3 DEF SubscribeSignature
  <2> QED
    BY <2>1, <2>2 DEF State
<1>6. /\ leftover_attempt \in [Sigs -> Nat] /\ sent \in [Sigs -> Nat] /\ allowed \in [Sigs -> Nat]
      /\ insertion_order \in Seq(Sigs) /\ tx_pool \in SUBSET Sigs
      /\ block_height_deadline_map \in SUBSET (Nat \X Sigs) /\ due \in 0..Len(insertion_order)
  BY DEF OwnInv, SchedulerTypeOK
<1>7. MaxRetry \in Nat
  BY Constants
<1>8. /\ Leftover(mr) \in Nat /\ AtLeastOne(mr) \in Nat /\ Leftover(mr) + 1 = AtLeastOne(mr)
  BY <1>7 DEF Leftover, SaturatingSub, AtLeastOne
<1>9. /\ insertion_order' \in Seq(Sigs) /\ Len(insertion_order') = Len(insertion_order) + 1
      /\ \A t : Among(t, insertion_order) => Among(t, insertion_order')
      /\ Among(s, insertion_order')
  <2>1. insertion_order' \in Seq(Sigs) /\ Len(insertion_order') = Len(insertion_order) + 1
    BY <1>3, <1>6, AppendProperties
  <2> QED
    BY <1>3, <1>6, <2>1, AppendAmong
<1>10. due' \in 0..Len(insertion_order')
  <2>1. Len(insertion_order) \in Nat /\ due' = due
    BY <1>3, <1>6, LenProperties
  <2> QED
    BY <1>6, <1>9, <2>1
<1>11. /\ leftover_attempt' \in [Sigs -> Nat] /\ sent' \in [Sigs -> Nat] /\ allowed' \in [Sigs -> Nat]
       /\ \A t \in Sigs : leftover_attempt'[t] = IF t = s THEN Leftover(mr) ELSE leftover_attempt[t]
       /\ \A t \in Sigs : sent'[t] = IF t = s THEN sent[s] + 1 ELSE sent[t]
       /\ \A t \in Sigs : allowed'[t] = IF t = s THEN allowed[s] + AtLeastOne(mr) ELSE allowed[t]
  BY <1>3, <1>6, <1>8
<1>12. SchedulerTypeOK'
  <2>1. block_height_deadline_map' \in SUBSET (Nat \X Sigs) /\ tx_pool' \in SUBSET Sigs
    BY <1>3, <1>6
  <2>2. /\ adding' \in Submission \cup {NoTx} /\ last_known_block_height' \in Nat
        /\ submissions' \in [Sigs -> 0..MaxSubmissions]
    BY <1>3 DEF OwnInv, SchedulerTypeOK
  <2> QED
    BY <1>9, <1>10, <1>11, <2>1, <2>2 DEF SchedulerTypeOK
<1>13. PooledIsTracked'
  <2>1. ASSUME NEW t \in tx_pool'
        PROVE  Among(t, insertion_order')
    <3>1. CASE t = s
      BY <1>9, <3>1
    <3>2. CASE t # s
      BY <1>3, <1>9, <3>2 DEF OwnInv, PooledIsTracked, Among
    <3> QED
      BY <3>1, <3>2
  <2>2. ASSUME NEW t \in tx_pool'
        PROVE  \E entry \in block_height_deadline_map' : entry[2] = t
    <3>1. CASE t = s
      <4>1. <<lv, s>> \in block_height_deadline_map' /\ <<lv, s>>[2] = s
        BY <1>3
      <4> QED
        BY <3>1, <4>1, Zenon
    <3>2. CASE t # s
      BY <1>3, <3>2 DEF OwnInv, PooledIsTracked
    <3> QED
      BY <3>1, <3>2
  <2>3. ASSUME NEW t \in tx_pool'
        PROVE  t \in state'.watched_signatures
    BY <1>3, <1>5 DEF OwnInv, PooledIsTracked
  <2> QED
    BY <2>1, <2>2, <2>3 DEF PooledIsTracked, Among
<1>14. SendsAccounted'
  <2> SUFFICES ASSUME NEW t \in Sigs
               PROVE  sent'[t] + (IF t \in tx_pool' THEN leftover_attempt'[t] ELSE 0) <= allowed'[t]
    BY DEF SendsAccounted
  <2>1. /\ sent[t] + (IF t \in tx_pool THEN leftover_attempt[t] ELSE 0) <= allowed[t]
        /\ sent[t] \in Nat /\ leftover_attempt[t] \in Nat /\ allowed[t] \in Nat
    BY <1>6 DEF OwnInv, SendsAccounted
  <2>2. CASE t = s
    BY <1>3, <1>8, <1>11, <2>1, <2>2
  <2>3. CASE t # s
    BY <1>3, <1>11, <2>1, <2>3
  <2> QED
    BY <2>2, <2>3
<1>15. Pooling' \subseteq Pooling
  BY <1>1, <1>2, <1>3 DEF Pooling
<1>16. LandedInv'
  <2>1. CASE early' \subseteq early
    BY <1>3, <1>5, <1>15, <2>1, LandedKept
  <2>2. CASE ~Held(s) /\ early' = early \cup {s}
    <3>1. state.transactions[s] = NoSlot
      <4>1. state.transactions[s] \in Slots \cup {NoSlot}
        BY DEF RootedInv, RootedTypeOK, State
      <4> QED
        BY <2>2, <4>1 DEF RootedInv, Located, Held
    <3>2. GetTransactionCommitment(s) # Stop
      BY <3>1, StopIsALevel DEF GetTransactionCommitment
    <3>3. \A t : GetTransactionCommitment(t)' = GetTransactionCommitment(t) /\ (StopPending(t)' <=> StopPending(t))
      BY <1>3, <1>5 DEF GetTransactionCommitment, StopPending, Unsent
    <3> QED
      BY <1>15, <2>2, <3>2, <3>3 DEF LandedInv
  <2> QED
    BY <1>3, <2>1, <2>2 DEF SubscribeSignature
<1> QED
  BY <1>4, <1>12, <1>13, <1>14, <1>16 DEF OwnInv

\* interval.tick(): a signature with an expired deadline leaves the pool and the
\* watched signatures at once.
LEMMA TickKeeps ==
  ASSUME RootedInv, OwnInv, LandedInv, NEW k \in 0..Len(insertion_order), Tick(k)
  PROVE  RootedInv' /\ OwnInv' /\ LandedInv'
<1>1. PICK S : S = {entry[2] : entry \in Expired}
  OBVIOUS
<1>2. /\ block_height_deadline_map' = block_height_deadline_map \ Expired
      /\ tx_pool' = tx_pool \ S
      /\ UnsubscribeSignatures(S)
      /\ due' = k
      /\ UNCHANGED <<transactions_bulk, effects, rx, level, delivered, notified, last_known_block_height,
                     leftover_attempt, insertion_order, adding, submissions, sent, allowed>>
  BY <1>1 DEF Tick, PoolAfterGc
<1>3. SchedulerTypeOK /\ Expired \subseteq block_height_deadline_map
  BY DEF OwnInv, Expired
<1>4. S \in SUBSET Sigs
  <2>1. ASSUME NEW entry \in Expired PROVE entry[2] \in Sigs
    BY <1>3 DEF SchedulerTypeOK
  <2> QED
    BY <1>1, <2>1
<1>5. RootedInv'
  BY <1>2, <1>4, UnsubscribeKeepsRooted
<1>6. /\ state'.txs = state.txs /\ state'.commitment = state.commitment /\ state'.transactions = state.transactions
      /\ state'.watched_signatures = state.watched_signatures \ S
  <2>1. state \in State
    BY DEF RootedInv, RootedTypeOK
  <2>2. state' = [state EXCEPT !.watched_signatures = @ \ S]
    BY <1>2 DEF UnsubscribeSignatures
  <2> QED
    BY <2>1, <2>2 DEF State
<1>7. SchedulerTypeOK'
  BY <1>2, <1>3 DEF SchedulerTypeOK
<1>8. PooledIsTracked'
  <2>1. ASSUME NEW t \in tx_pool'
        PROVE  \E entry \in block_height_deadline_map' : entry[2] = t
    <3>1. t \in tx_pool /\ t \notin S
      BY <1>2
    <3>2. PICK entry \in block_height_deadline_map : entry[2] = t
      BY <3>1 DEF OwnInv, PooledIsTracked
    <3>3. entry \notin Expired
      BY <1>1, <3>1, <3>2
    <3> QED
      BY <1>2, <3>2, <3>3
  <2>2. ASSUME NEW t \in tx_pool'
        PROVE  /\ \E i \in DOMAIN insertion_order' : insertion_order'[i] = t
               /\ t \in state'.watched_signatures
    BY <1>2, <1>6 DEF OwnInv, PooledIsTracked
  <2> QED
    BY <2>1, <2>2 DEF PooledIsTracked
<1>9. SendsAccounted'
  <2> SUFFICES ASSUME NEW t \in Sigs
               PROVE  sent'[t] + (IF t \in tx_pool' THEN leftover_attempt'[t] ELSE 0) <= allowed'[t]
    BY DEF SendsAccounted
  <2>1. /\ sent[t] + (IF t \in tx_pool THEN leftover_attempt[t] ELSE 0) <= allowed[t]
        /\ sent[t] \in Nat /\ leftover_attempt[t] \in Nat /\ allowed[t] \in Nat
    BY <1>3 DEF OwnInv, SendsAccounted, SchedulerTypeOK
  <2>2. t \in tx_pool' => t \in tx_pool
    BY <1>2
  <2> QED
    BY <1>2, <2>1, <2>2
<1>10. Pooling' \subseteq Pooling
  BY <1>2 DEF Pooling
<1>11. early' \subseteq early
  BY <1>2 DEF UnsubscribeSignatures
<1>12. LandedInv'
  BY <1>2, <1>6, <1>10, <1>11, LandedKept
<1> QED
  BY <1>5, <1>7, <1>8, <1>9, <1>12 DEF OwnInv

\* A turn of resend_non_landed_tx: a transaction that keeps attempts goes to the
\* end, one that has none leaves the pool, other transactions keep their place.
LEMMA ResendKeeps ==
  ASSUME OwnInv, LandedInv, Resend
  PROVE  OwnInv' /\ LandedInv'
<1>1. /\ leftover_attempt \in [Sigs -> Nat] /\ sent \in [Sigs -> Nat] /\ allowed \in [Sigs -> Nat]
      /\ insertion_order \in Seq(Sigs) /\ tx_pool \in SUBSET Sigs /\ due \in 0..Len(insertion_order)
  BY DEF OwnInv, SchedulerTypeOK
<1>2. /\ due > 0 /\ due' = due - 1 /\ UNCHANGED rootedVars /\ state' = state
      /\ UNCHANGED <<last_known_block_height, block_height_deadline_map, adding, submissions, allowed>>
  BY DEF Resend, rootedVars
<1>3. PICK n \in Nat : n = Len(insertion_order) /\ DOMAIN insertion_order = 1..n
  BY <1>1, LenProperties
<1>4. n > 0 /\ insertion_order # <<>> /\ due' \in 0..(n - 1)
  BY <1>1, <1>2, <1>3
<1>5. PICK s : s = Head(insertion_order)
  OBVIOUS
<1>6. PICK rest : rest = Tail(insertion_order)
  OBVIOUS
<1>7. /\ s \in Sigs /\ s = insertion_order[1]
      /\ rest \in Seq(Sigs) /\ Len(rest) = n - 1 /\ \A i \in 1..(n - 1) : rest[i] = insertion_order[i + 1]
  BY <1>1, <1>3, <1>4, <1>5, <1>6, HeadTailProperties
<1>8. \A t : Among(t, insertion_order) => t = s \/ Among(t, rest)
  <2> SUFFICES ASSUME NEW t, Among(t, insertion_order), t # s PROVE Among(t, rest)
    OBVIOUS
  <2>1. PICK i \in 1..n : insertion_order[i] = t
    BY <1>3 DEF Among
  <2>2. i # 1
    BY <1>7, <2>1
  <2>3. PICK j \in 1..(n - 1) : i = j + 1
    BY <2>2
  <2>4. rest[j] = t
    BY <1>7, <2>1, <2>3
  <2>5. DOMAIN rest = 1..(n - 1)
    BY <1>7, LenProperties
  <2> QED
    BY <2>4, <2>5 DEF Among
<1>9. \A t \in tx_pool : Among(t, insertion_order)
  BY DEF OwnInv, PooledIsTracked, Among
<1>10. \A t \in tx_pool : /\ \E entry \in block_height_deadline_map : entry[2] = t
                          /\ t \in state.watched_signatures
  BY DEF OwnInv, PooledIsTracked
<1>11. \A t \in Sigs : sent[t] + (IF t \in tx_pool THEN leftover_attempt[t] ELSE 0) <= allowed[t]
  BY DEF OwnInv, SendsAccounted
<1>12. SchedulerTypeOK
  BY DEF OwnInv
<1>13. CASE s \in tx_pool /\ leftover_attempt[s] > 0
  <2>1. /\ insertion_order' = Append(rest, s)
        /\ leftover_attempt' = [leftover_attempt EXCEPT ![s] = SaturatingSub(leftover_attempt[s], 1)]
        /\ sent' = [sent EXCEPT ![s] = sent[s] + 1]
        /\ tx_pool' = tx_pool
    BY <1>1, <1>5, <1>6, <1>13 DEF Resend
  <2>2. SaturatingSub(leftover_attempt[s], 1) \in Nat
        /\ SaturatingSub(leftover_attempt[s], 1) + 1 = leftover_attempt[s]
    BY <1>1, <1>7, <1>13 DEF SaturatingSub
  <2>3. /\ leftover_attempt' \in [Sigs -> Nat] /\ sent' \in [Sigs -> Nat]
        /\ \A t \in Sigs : t # s => leftover_attempt'[t] = leftover_attempt[t] /\ sent'[t] = sent[t]
        /\ leftover_attempt'[s] + 1 = leftover_attempt[s] /\ sent'[s] = sent[s] + 1
    BY <1>1, <1>7, <2>1, <2>2
  <2>4. insertion_order' \in Seq(Sigs) /\ Len(insertion_order') = (n - 1) + 1
    BY <1>7, <2>1, AppendProperties
  <2>5. due' \in 0..Len(insertion_order')
    BY <1>4, <2>4
  <2>6. SchedulerTypeOK'
    BY <1>2, <1>12, <2>1, <2>3, <2>4, <2>5 DEF SchedulerTypeOK
  <2>7. \A t \in tx_pool : Among(t, insertion_order')
    BY <1>7, <1>8, <1>9, <2>1, AppendAmong
  <2>8. PooledIsTracked'
    BY <1>2, <1>10, <2>1, <2>7 DEF PooledIsTracked, Among
  <2>9. SendsAccounted'
    <3> SUFFICES ASSUME NEW t \in Sigs
                 PROVE  sent'[t] + (IF t \in tx_pool' THEN leftover_attempt'[t] ELSE 0) <= allowed'[t]
      BY DEF SendsAccounted
    <3>1. /\ sent[t] \in Nat /\ leftover_attempt[t] \in Nat /\ allowed[t] \in Nat
          /\ leftover_attempt'[t] \in Nat /\ sent'[t] \in Nat /\ allowed'[t] = allowed[t]
      BY <1>1, <1>2, <2>3
    <3>2. CASE t = s
      BY <1>11, <1>13, <2>1, <2>3, <3>1, <3>2
    <3>3. CASE t # s
      BY <1>11, <2>1, <2>3, <3>1, <3>3
    <3> QED
      BY <3>2, <3>3
  <2>10. Pooling' \subseteq Pooling
    BY <1>2, <2>1 DEF Pooling
  <2> QED
    BY <1>2, <2>6, <2>8, <2>9, <2>10, LandedWithoutReceiver DEF OwnInv
<1>14. CASE ~(s \in tx_pool /\ leftover_attempt[s] > 0)
  <2>1. insertion_order' = rest /\ tx_pool' = tx_pool \ {s}
    BY <1>5, <1>6, <1>14 DEF Resend, GivesUp
  <2>2. leftover_attempt' = leftover_attempt /\ sent' = sent
    <3>1. /\ leftover_attempt' = [leftover_attempt EXCEPT ![s] = leftover_attempt[s]]
          /\ sent' = [sent EXCEPT ![s] = sent[s]]
      BY <1>1, <1>5, <1>14 DEF Resend
    <3> QED
      BY <1>1, <3>1
  <2>3. SchedulerTypeOK'
    BY <1>2, <1>4, <1>7, <1>12, <2>1, <2>2 DEF SchedulerTypeOK
  <2>4. \A t \in tx_pool' : Among(t, insertion_order')
    BY <1>8, <1>9, <2>1
  <2>5. PooledIsTracked'
    BY <1>2, <1>10, <2>1, <2>4 DEF PooledIsTracked, Among
  <2>6. SendsAccounted'
    <3> SUFFICES ASSUME NEW t \in Sigs
                 PROVE  sent'[t] + (IF t \in tx_pool' THEN leftover_attempt'[t] ELSE 0) <= allowed'[t]
      BY DEF SendsAccounted
    <3>1. sent[t] \in Nat /\ leftover_attempt[t] \in Nat /\ allowed[t] \in Nat /\ allowed'[t] = allowed[t]
      BY <1>1, <1>2
    <3>2. t \in tx_pool' => t \in tx_pool
      BY <2>1
    <3> QED
      BY <1>11, <2>2, <3>1, <3>2
  <2>7. Pooling' \subseteq Pooling
    BY <1>2, <2>1 DEF Pooling
  <2> QED
    BY <1>2, <2>3, <2>5, <2>6, <2>7, LandedWithoutReceiver DEF OwnInv
<1> QED
  BY <1>13, <1>14

\* handle_tx_commitment_update: the notification that is read takes its
\* signature out of the pool when it is the one asked for.
LEMMA HandleKeeps ==
  ASSUME RootedInv, OwnInv, LandedInv, HandleTxCommitmentUpdate
  PROVE  RootedInv' /\ OwnInv' /\ LandedInv'
<1>1. /\ adding = NoTx /\ rx # <<>> /\ rx' = Tail(rx) /\ Recv
      /\ tx_pool' = IF Stops(Head(rx).commitment) THEN tx_pool \ {Head(rx).sig} ELSE tx_pool
      /\ UNCHANGED <<state, transactions_bulk, effects, level, delivered, early, notified>>
      /\ UNCHANGED <<last_known_block_height, leftover_attempt, block_height_deadline_map, insertion_order,
                     due, adding, submissions, sent, allowed>>
  BY DEF HandleTxCommitmentUpdate, Idle, Recv
<1>2. tx_pool' \subseteq tx_pool
  BY <1>1
<1>3. RootedInv'
  BY <1>1, RecvKeepsRooted
<1>4. SchedulerTypeOK'
  BY <1>1, <1>2 DEF OwnInv, SchedulerTypeOK
<1>5. PooledIsTracked'
  BY <1>1, <1>2 DEF OwnInv, PooledIsTracked
<1>6. SendsAccounted'
  <2> SUFFICES ASSUME NEW t \in Sigs
               PROVE  sent'[t] + (IF t \in tx_pool' THEN leftover_attempt'[t] ELSE 0) <= allowed'[t]
    BY DEF SendsAccounted
  <2>1. /\ sent[t] + (IF t \in tx_pool THEN leftover_attempt[t] ELSE 0) <= allowed[t]
        /\ sent[t] \in Nat /\ leftover_attempt[t] \in Nat /\ allowed[t] \in Nat
    BY DEF OwnInv, SendsAccounted, SchedulerTypeOK
  <2> QED
    BY <1>1, <1>2, <2>1
<1>7. Pooling = tx_pool /\ Pooling' = tx_pool'
  BY <1>1 DEF Pooling
<1>8. ASSUME NEW s \in tx_pool', s \in early, GetTransactionCommitment(s) = Stop
      PROVE  StopPending(s)'
  <2>1. rx \in Seq(Notification)
    BY DEF RootedInv, RootedTypeOK
  <2>2. PICK n \in Nat : n = Len(rx) /\ DOMAIN rx = 1..n
    BY <2>1, LenProperties
  <2>3. /\ Head(rx) = rx[1] /\ rx' \in Seq(Notification) /\ Len(rx') = n - 1
        /\ \A i \in 1..(n - 1) : rx'[i] = rx[i + 1]
    BY <1>1, <2>1, <2>2, HeadTailProperties
  <2>9. CASE Unsent(s, Stop)
    BY <1>1, <2>9 DEF StopPending, Unsent
  <2>10. SUFFICES ASSUME ~Unsent(s, Stop) PROVE StopPending(s)'
    BY <2>9
  <2>4. PICK i \in 1..n : rx[i] = [sig |-> s, commitment |-> Stop]
    BY <1>2, <1>7, <1>8, <2>2, <2>10 DEF LandedInv, StopPending
  <2>5. i # 1
    BY <1>1, <1>8, <2>3, <2>4 DEF Stops
  <2>6. PICK j \in 1..(n - 1) : i = j + 1
    BY <2>5
  <2>7. rx'[j] = [sig |-> s, commitment |-> Stop]
    BY <2>3, <2>4, <2>6
  <2>8. DOMAIN rx' = 1..(n - 1)
    BY <2>2, <2>3, LenProperties
  <2> QED
    BY <2>7, <2>8 DEF StopPending
<1>9. \A s : GetTransactionCommitment(s)' = GetTransactionCommitment(s)
  BY <1>1 DEF GetTransactionCommitment
<1>10. LandedInv'
  BY <1>1, <1>7, <1>8, <1>9 DEF LandedInv
<1> QED
  BY <1>3, <1>4, <1>5, <1>6, <1>10 DEF OwnInv

LEMMA SchedulerInitial ==
  ASSUME Init
  PROVE  SchedulerInv
<1>1. RootedInv /\ QueueInv
  BY RootedInitial, QueueInitial DEF Init
<1>2. SchedulerTypeOK
  <2>1. <<>> \in Seq(Sigs) /\ Len(<<>>) = 0
    OBVIOUS
  <2>2. MaxSubmissions \in Nat
    BY Constants
  <2> QED
    BY <2>1, <2>2 DEF Init, SchedulerTypeOK
<1>3. PooledIsTracked /\ SendsAccounted
  BY DEF Init, PooledIsTracked, SendsAccounted
<1>4. LandedInv
  BY DEF Init, LandedInv, Pooling
<1> QED
  BY <1>1, <1>2, <1>3, <1>4 DEF SchedulerInv

LEMMA SchedulerStep ==
  ASSUME SchedulerInv, [Next]_vars
  PROVE  SchedulerInv'
<1>1. RootedInv /\ QueueInv /\ OwnInv /\ LandedInv
  BY DEF SchedulerInv, OwnInv
<1>2. (RootedInv /\ QueueInv /\ OwnInv /\ LandedInv)' => SchedulerInv'
  BY DEF SchedulerInv, OwnInv
<1>3. UNCHANGED rootedVars /\ UNCHANGED schedulerVars => (RootedInv /\ OwnInv /\ LandedInv)'
  <2> SUFFICES ASSUME UNCHANGED rootedVars, UNCHANGED schedulerVars
               PROVE  (RootedInv /\ OwnInv /\ LandedInv)'
    OBVIOUS
  <2>1. state' = state
    BY DEF rootedVars
  <2>2. Pooling' \subseteq Pooling
    BY DEF schedulerVars, Pooling
  <2> QED
    BY <1>1, <2>1, <2>2, RootedKept, OwnKept, LandedWithoutReceiver
<1>4. CASE QueueStep /\ UNCHANGED <<rootedVars, schedulerVars>>
  BY <1>1, <1>2, <1>3, <1>4, QueueSteps
<1>5. CASE ReceiverStep
  BY <1>1, <1>2, <1>5, ReceiverKeeps, QueueKept DEF ReceiverStep
<1>6. CASE \E s \in Sigs, max_retries \in 0..MaxRetry : AddReads(s, max_retries)
  <2>1. PICK s \in Sigs, max_retries \in 0..MaxRetry : AddReads(s, max_retries)
    BY <1>6
  <2>2. UNCHANGED rootedVars /\ UNCHANGED queueVars
    BY <2>1 DEF AddReads
  <2> QED
    BY <1>1, <1>2, <2>1, <2>2, AddReadsKeeps, RootedKept, QueueKept
<1>7. CASE \E last_valid \in LastValidHeights : AddChecks(last_valid)
  <2>1. PICK last_valid \in LastValidHeights : AddChecks(last_valid)
    BY <1>7
  <2>2. UNCHANGED rootedVars /\ UNCHANGED queueVars
    BY <2>1 DEF AddChecks
  <2> QED
    BY <1>1, <1>2, <2>1, <2>2, AddChecksKeeps, RootedKept, QueueKept
<1>8. CASE AddSubscribes
  <2>1. UNCHANGED queueVars
    BY <1>8 DEF AddSubscribes
  <2> QED
    BY <1>1, <1>2, <1>8, <2>1, AddSubscribesKeeps, QueueKept
<1>9. CASE \E k \in 0..Len(insertion_order) : Tick(k)
  <2>1. PICK k \in 0..Len(insertion_order) : Tick(k)
    BY <1>9
  <2>2. UNCHANGED queueVars
    BY <2>1 DEF Tick
  <2> QED
    BY <1>1, <1>2, <2>1, <2>2, TickKeeps, QueueKept
<1>10. CASE Resend
  <2>1. UNCHANGED rootedVars /\ UNCHANGED queueVars
    BY <1>10 DEF Resend
  <2> QED
    BY <1>1, <1>2, <1>10, <2>1, ResendKeeps, RootedKept, QueueKept
<1>11. CASE HandleTxCommitmentUpdate
  <2>1. UNCHANGED queueVars
    BY <1>11 DEF HandleTxCommitmentUpdate
  <2> QED
    BY <1>1, <1>2, <1>11, <2>1, HandleKeeps, QueueKept
<1>12. CASE UNCHANGED vars
  BY <1>1, <1>2, <1>3, <1>12, QueueKept DEF vars
<1> QED
  BY <1>4, <1>5, <1>6, <1>7, <1>8, <1>9, <1>10, <1>11, <1>12 DEF Next

\* The invariant of the composition: the receiver's state machine, the queue and
\* the scheduler's pool, whatever the two tasks interleave between the check and
\* the subscription of add_new_transaction.
THEOREM SchedulerInvariant == Spec => []SchedulerInv
  BY SchedulerInitial, SchedulerStep, PTL DEF Spec

\* The queue knows every recent block of those its task has read, whatever the
\* clean-up drops (the retain of BlockhashQueue), for every retention.
THEOREM RecentBlocksAreKnown == Spec => []RecentBlockKnown
<1>1. SchedulerInv => RecentBlockKnown
  BY DEF SchedulerInv, QueueInv
<1> QED
  BY <1>1, SchedulerInvariant, PTL

\* A transaction in the pool is scheduled, has a deadline and is watched, for
\* any number of transactions and resubmissions (add_new_transaction,
\* gc_deadline_map, resend_non_landed_tx).
THEOREM PoolIsTracked == Spec => []PooledIsTracked
<1>1. SchedulerInv => PooledIsTracked
  BY DEF SchedulerInv
<1> QED
  BY <1>1, SchedulerInvariant, PTL

\* No transaction is sent more often than its submissions asked for
\* (leftover_attempt), for every max_retry.
THEOREM SendsAreWithinRetries == Spec => []SendsWithinRetries
<1>1. SchedulerInv => SendsWithinRetries
  <2> SUFFICES ASSUME SchedulerInv PROVE SendsWithinRetries
    OBVIOUS
  <2>1. TypeOK
    BY DEF SchedulerInv, RootedInv, QueueInv, SchedulerTypeOK, TypeOK
  <2>2. ASSUME NEW s \in Sigs PROVE sent[s] <= allowed[s]
    <3>1. /\ sent[s] + (IF s \in tx_pool THEN leftover_attempt[s] ELSE 0) <= allowed[s]
          /\ sent[s] \in Nat /\ leftover_attempt[s] \in Nat /\ allowed[s] \in Nat
      BY DEF SchedulerInv, SendsAccounted, SchedulerTypeOK
    <3> QED
      BY <3>1
  <2> QED
    BY <2>1, <2>2 DEF SendsWithinRetries
<1> QED
  BY <1>1, SchedulerInvariant, PTL

\* A transaction watched since before it was processed whose slot is at the level
\* asked for is out of the pool, or the scheduler has still to read that it landed:
\* no landing is missed, during a resubmission of it either
\* (handle_tx_commitment_update, add_new_transaction).
THEOREM LandedLeaves == Spec => []LandedWhileWatchedLeaves
<1>1. SchedulerInv => LandedWhileWatchedLeaves
  BY DEF SchedulerInv, LandedInv, LandedWhileWatchedLeaves, Pooling
<1> QED
  BY <1>1, SchedulerInvariant, PTL
=============================================================================
