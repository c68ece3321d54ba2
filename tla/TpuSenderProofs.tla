-------------------------- MODULE TpuSenderProofs --------------------------
(***************************************************************************)
(* Proofs about TpuSender: what the caches hold, whom a call sends to and  *)
(* what it reports, which leaders a window covers, and that nothing is     *)
(* written or begun once the overseer has returned.                        *)
(***************************************************************************)
EXTENDS TpuSender, SequenceTheorems, FiniteSetTheorems, WellFoundedInduction, TLAPS

-----------------------------------------------------------------------------
(***************************************************************************)
(* Numbers                                                                 *)
(***************************************************************************)

\* A set of naturals has a least element.
LEMMA LeastNumber ==
  ASSUME NEW T \in SUBSET Nat, T # {}
  PROVE  \E m \in T : \A k \in T : m <= k
<1> DEFINE R == OpToRel(<, Nat)
<1>1. IsWellFoundedOn(R, Nat)
  BY NatLessThanWellFounded
<1> HIDE DEF R
<1>2. PICK x \in T : \A y \in T : ~(<<y, x>> \in R)
  BY <1>1, WFMin
<1>3. \A y \in T : ~(y < x)
  BY <1>2 DEF R, OpToRel
<1> QED
  BY <1>3

\* Induction up to a bound, for a set of the numbers that satisfy what is proved.
LEMMA BoundedInduction ==
  ASSUME NEW N \in Nat, NEW Good, 0 \in Good,
         \A n \in 0..(N - 1) : n \in Good => n + 1 \in Good
  PROVE  \A n \in 0..N : n \in Good
<1>1. PICK T : T = {n \in 0..N : n \notin Good}
  OBVIOUS
<1>2. CASE T = {}
  BY <1>1, <1>2
<1>3. CASE T # {}
  <2>1. T \in SUBSET Nat
    BY <1>1
  <2>2. PICK m \in T : \A k \in T : m <= k
    BY <1>3, <2>1, LeastNumber
  <2>3. m \in 0..N /\ m \notin Good /\ m # 0
    BY <1>1, <2>2
  <2>4. m - 1 \in 0..(N - 1) /\ m - 1 \in 0..N
    BY <2>3
  <2>5. m - 1 \notin T
    BY <2>2, <2>3, <2>4
  <2>6. m - 1 \in Good
    BY <1>1, <2>4, <2>5
  <2>7. (m - 1) + 1 \in Good
    BY <2>4, <2>6
  <2> QED
    BY <2>3, <2>7
<1> QED
  BY <1>2, <1>3

\* A finite set of naturals has a greatest element.
LEMMA GreatestNumber ==
  ASSUME NEW S \in SUBSET Nat, IsFiniteSet(S), S # {}
  PROVE  \E m \in S : \A k \in S : k <= m
<1>1. PICK N \in Nat : N = Cardinality(S)
  BY FS_CardinalityType
<1>2. IsFiniteSet(1..N) /\ Cardinality(1..N) = N
  BY FS_Interval
<1>3. PICK f \in [1..N -> S] : \A x \in S : \E i \in 1..N : f[i] = x
  <2>1. ExistsBijection(1..N, S)
    BY <1>1, <1>2, FS_SameCardinalityBij
  <2>2. PICK f : f \in Surjection(1..N, S)
    BY <2>1 DEF ExistsBijection, Bijection
  <2> QED
    BY <2>2 DEF Surjection
<1>4. PICK a : a \in S
  OBVIOUS
<1>5. PICK Good : Good = {n \in 0..N : \E m \in S : \A i \in 1..n : f[i] <= m}
  OBVIOUS
<1>6. 0 \in Good
  <2>1. \A i \in 1..0 : f[i] <= a
    OBVIOUS
  <2> QED
    BY <1>4, <1>5, <2>1
<1>7. ASSUME NEW n \in 0..(N - 1), n \in Good
      PROVE  n + 1 \in Good
  <2>1. PICK m \in S : \A i \in 1..n : f[i] <= m
    BY <1>5, <1>7
  <2>2. n + 1 \in 1..N /\ n + 1 \in 0..N
    OBVIOUS
  <2>3. PICK b \in S : b = f[n + 1]
    BY <2>2
  <2>4. CASE b <= m
    <3>1. \A i \in 1..(n + 1) : f[i] <= m
      BY <2>1, <2>3, <2>4
    <3> QED
      BY <1>5, <2>2, <3>1
  <2>5. CASE ~(b <= m)
    <3>1. ASSUME NEW i \in 1..(n + 1)
          PROVE  f[i] <= b
      <4>1. i \in 1..N /\ f[i] \in Nat /\ b \in Nat /\ m \in Nat
        <5>1. i \in 1..N
          OBVIOUS
        <5>2. f[i] \in S
          BY <5>1
        <5> QED
          BY <5>1, <5>2
      <4>2. CASE i = n + 1
        BY <4>1, <4>2, <2>3
      <4>3. CASE i # n + 1
        <5>1. i \in 1..n
          BY <4>3
        <5> QED
          BY <5>1, <4>1, <2>1, <2>5
      <4> QED
        BY <4>2, <4>3
    <3> QED
      BY <1>5, <2>2, <2>3, <3>1
  <2> QED
    BY <2>4, <2>5
<1>8. N \in Good
  <2>1. \A n \in 0..(N - 1) : n \in Good => n + 1 \in Good
    BY <1>7
  <2>2. \A n \in 0..N : n \in Good
    BY <1>6, <2>1, BoundedInduction
  <2> QED
    BY <2>2
<1>9. PICK m \in S : \A i \in 1..N : f[i] <= m
  BY <1>5, <1>8
<1> QED
  BY <1>3, <1>9

\* The last number of a set of numbers up to n.
LEMMA MaxOfNumbers ==
  ASSUME NEW n \in Nat, NEW s \in SUBSET (1..n), s # {}
  PROVE  Max(s) \in s /\ \A k \in s : k <= Max(s)
<1>1. IsFiniteSet(1..n) /\ s \subseteq Nat
  BY FS_Interval
<1>2. IsFiniteSet(s)
  BY <1>1, FS_Subset
<1>3. PICK m \in s : \A k \in s : k <= m
  BY <1>1, <1>2, GreatestNumber
<1>4. \A k \in s : m >= k
  BY <1>1, <1>3
<1>5. Max(s) \in s /\ \A k \in s : Max(s) >= k
  BY <1>4 DEF Max
<1> QED
  BY <1>1, <1>5

-----------------------------------------------------------------------------
(***************************************************************************)
(* FoldLeft.  The function MapThenFoldSet recurs with exists, and what     *)
(* FoldLeft returns is found by induction on the prefixes.                 *)
(***************************************************************************)

\* iter satisfies the recursion of a left fold over 1..n, where act says what
\* the element at each position makes of a value.
Folds(iter, base, act, n) ==
  \A s \in SUBSET (1..n) :
    iter[s] = IF s = {} THEN base ELSE act[Max(s)][iter[s \ {Max(s)}]]

LEMMA FoldExists ==
  ASSUME NEW N \in Nat, NEW V, NEW base \in V, NEW act \in [1..N -> [V -> V]]
  PROVE  \E iter \in [SUBSET (1..N) -> V] : Folds(iter, base, act, N)
<1>1. PICK Good : Good = {n \in 0..N : \E iter \in [SUBSET (1..n) -> V] : Folds(iter, base, act, n)}
  OBVIOUS
<1>2. 0 \in Good
  <2>1. PICK iter : iter = [s \in SUBSET (1..0) |-> base]
    OBVIOUS
  <2>2. iter \in [SUBSET (1..0) -> V]
    BY <2>1
  <2>3. \A s \in SUBSET (1..0) : s = {}
    OBVIOUS
  <2>4. Folds(iter, base, act, 0)
    BY <2>1, <2>3 DEF Folds
  <2>5. 0 \in 0..N
    OBVIOUS
  <2> QED
    BY <1>1, <2>2, <2>4, <2>5
<1>3. ASSUME NEW n \in 0..(N - 1), n \in Good
      PROVE  n + 1 \in Good
  <2>1. PICK old \in [SUBSET (1..n) -> V] : Folds(old, base, act, n)
    BY <1>1, <1>3
  <2>2. n + 1 \in 1..N /\ n + 1 \in 0..N
    OBVIOUS
  <2>3. PICK new : new = [s \in SUBSET (1..(n + 1)) |->
                           IF n + 1 \in s THEN act[n + 1][old[s \ {n + 1}]] ELSE old[s]]
    OBVIOUS
  <2>4. ASSUME NEW s \in SUBSET (1..(n + 1))
        PROVE  /\ s \ {n + 1} \in SUBSET (1..n)
               /\ n + 1 \notin s => s \in SUBSET (1..n)
               /\ n + 1 \in s => Max(s) = n + 1
    <3>1. s \ {n + 1} \in SUBSET (1..n)
      BY 1..(n + 1) = (1..n) \cup {n + 1}
    <3>2. n + 1 \notin s => s \in SUBSET (1..n)
      BY 1..(n + 1) = (1..n) \cup {n + 1}
    <3>3. ASSUME n + 1 \in s PROVE Max(s) = n + 1
      <4>1. n + 1 \in Nat /\ s # {}
        BY <3>3
      <4>2. Max(s) \in s /\ \A k \in s : k <= Max(s)
        BY <4>1, MaxOfNumbers
      <4>3. Max(s) \in 1..(n + 1) /\ n + 1 <= Max(s)
        BY <3>3, <4>2
      <4> QED
        BY <4>3
    <3> QED
      BY <3>1, <3>2, <3>3
  <2>5. new \in [SUBSET (1..(n + 1)) -> V]
    <3>1. ASSUME NEW s \in SUBSET (1..(n + 1))
          PROVE  (IF n + 1 \in s THEN act[n + 1][old[s \ {n + 1}]] ELSE old[s]) \in V
      <4>1. old[s \ {n + 1}] \in V /\ (n + 1 \notin s => old[s] \in V)
        BY <2>4
      <4> QED
        BY <2>2, <4>1
    <3> QED
      BY <2>3, <3>1
  <2>6. \A s \in SUBSET (1..n) : s \in SUBSET (1..(n + 1)) /\ n + 1 \notin s /\ new[s] = old[s]
    <3> TAKE s \in SUBSET (1..n)
    <3>1. s \in SUBSET (1..(n + 1)) /\ n + 1 \notin s
      BY 1..(n + 1) = (1..n) \cup {n + 1}
    <3> QED
      BY <2>3, <3>1
  <2>7. ASSUME NEW s \in SUBSET (1..(n + 1))
        PROVE  new[s] = IF s = {} THEN base ELSE act[Max(s)][new[s \ {Max(s)}]]
    <3>1. CASE n + 1 \in s
      <4>1. new[s] = act[n + 1][old[s \ {n + 1}]]
        BY <2>3, <3>1
      <4>2. new[s \ {n + 1}] = old[s \ {n + 1}]
        BY <2>4, <2>6
      <4> QED
        BY <3>1, <4>1, <4>2, <2>4
    <3>2. CASE n + 1 \notin s
      <4>1. s \in SUBSET (1..n) /\ new[s] = old[s]
        BY <2>4, <2>6, <3>2
      <4>2. s \ {Max(s)} \in SUBSET (1..n)
        BY <4>1
      <4>3. new[s \ {Max(s)}] = old[s \ {Max(s)}]
        BY <2>6, <4>2
      <4> QED
        BY <2>1, <4>1, <4>3 DEF Folds
    <3> QED
      BY <3>1, <3>2
  <2>8. Folds(new, base, act, n + 1)
    BY <2>7 DEF Folds
  <2> QED
    BY <1>1, <2>2, <2>5, <2>8
<1>4. N \in Good
  <2>1. \A n \in 0..(N - 1) : n \in Good => n + 1 \in Good
    BY <1>3
  <2>2. \A n \in 0..N : n \in Good
    BY <1>2, <2>1, BoundedInduction
  <2> QED
    BY <2>2
<1> QED
  BY <1>1, <1>4

\* What one slot adds to the leaders found, and one leader to the unique ones.
Found(found, leader) == IF leader = {} THEN found ELSE Append(found, CHOOSE l \in leader : TRUE)
Once(found, l) == IF l \in ToSet(found) THEN found ELSE Append(found, l)

\* The prefixes of 1..n.
LEMMA Initial ==
  ASSUME NEW n \in Nat, n # 0
  PROVE  /\ 1..n # {} /\ Max(1..n) = n
         /\ (1..n) \ {n} = 1..(n - 1)
<1>1. 1..n \in SUBSET (1..n) /\ 1..n # {} /\ n \in 1..n
  <2>1. n \in 1..n
    OBVIOUS
  <2>2. 1..n \in SUBSET (1..n)
    OBVIOUS
  <2> QED
    BY <2>1, <2>2, Zenon
<1>2. Max(1..n) \in 1..n /\ n <= Max(1..n)
  BY <1>1, MaxOfNumbers
<1>3. Max(1..n) = n
  BY <1>2
<1>4. (1..n) \ {n} = 1..(n - 1)
  OBVIOUS
<1> QED
  BY <1>1, <1>3, <1>4

LeadersIn(buffer, slots, N, L) == \A i \in 1..N : GetLeader(buffer, slots[i]) \in SUBSET L

AddsLeaders(f, buffer, slots, N) ==
  /\ f[0] = <<>> /\ f[N] = LeadersAt(buffer, slots)
  /\ \A n \in 1..N : f[n] = Found(f[n - 1], GetLeader(buffer, slots[n]))

\* LeadersAt adds what is found at one slot after the other.
LEMMA LeadersAtSteps ==
  ASSUME NEW buffer, NEW N \in Nat, NEW slots, DOMAIN slots = 1..N, NEW L,
         LeadersIn(buffer, slots, N, L)
  PROVE  \E f : AddsLeaders(f, buffer, slots, N)
<1> DEFINE Rec(iter) == [s \in SUBSET (DOMAIN slots) |->
             IF s = {} THEN <<>>
             ELSE Found(iter[s \ {Max(s)}], GetLeader(buffer, slots[Max(s)]))]
           Iter == CHOOSE iter : iter = Rec(iter)
<1>1. PICK act : act = [i \in 1..N |-> [v \in Seq(L) |-> Found(v, GetLeader(buffer, slots[i]))]]
  OBVIOUS
<1>2. act \in [1..N -> [Seq(L) -> Seq(L)]]
  <2>1. ASSUME NEW i \in 1..N, NEW v \in Seq(L)
        PROVE  Found(v, GetLeader(buffer, slots[i])) \in Seq(L)
    <3>1. CASE GetLeader(buffer, slots[i]) = {}
      BY <3>1 DEF Found
    <3>2. CASE GetLeader(buffer, slots[i]) # {}
      <4>1. PICK l : l = CHOOSE m \in GetLeader(buffer, slots[i]) : TRUE
        OBVIOUS
      <4>2. l \in L
        BY <3>2, <4>1 DEF LeadersIn
      <4>3. Append(v, l) \in Seq(L)
        BY <4>2, AppendProperties
      <4> QED
        BY <3>2, <4>1, <4>3 DEF Found
    <3> QED
      BY <3>1, <3>2
  <2> QED
    BY <1>1, <2>1
<1>3. PICK h \in [SUBSET (1..N) -> Seq(L)] : Folds(h, <<>>, act, N)
  <2>1. <<>> \in Seq(L)
    OBVIOUS
  <2> QED
    BY <1>2, <2>1, FoldExists
<1>4. h = Rec(h)
  <2>1. ASSUME NEW s \in SUBSET (1..N)
        PROVE  h[s] = IF s = {} THEN <<>>
                      ELSE Found(h[s \ {Max(s)}], GetLeader(buffer, slots[Max(s)]))
    <3>1. CASE s = {}
      BY <1>3, <3>1 DEF Folds
    <3>2. CASE s # {}
      <4>1. Max(s) \in 1..N
        BY <3>2, MaxOfNumbers
      <4>2. h[s \ {Max(s)}] \in Seq(L)
        OBVIOUS
      <4>3. h[s] = act[Max(s)][h[s \ {Max(s)}]]
        BY <1>3, <3>2 DEF Folds
      <4> QED
        BY <1>1, <3>2, <4>1, <4>2, <4>3
    <3> QED
      BY <3>1, <3>2
  <2> QED
    BY <2>1
<1>5. Iter = Rec(Iter)
  BY <1>4
<1>6. LeadersAt(buffer, slots) = Iter[DOMAIN slots]
  BY DEF LeadersAt, FoldLeft, MapThenFoldSet, Found
<1> HIDE DEF Iter
<1>7. \A s \in SUBSET (1..N) : Iter[s] = IF s = {} THEN <<>>
                      ELSE Found(Iter[s \ {Max(s)}], GetLeader(buffer, slots[Max(s)]))
  BY <1>5
<1>8. PICK f : f = [n \in 0..N |-> Iter[1..n]]
  OBVIOUS
<1>9. f[0] = <<>> /\ f[N] = LeadersAt(buffer, slots)
  <2>1. 0 \in 0..N /\ N \in 0..N /\ 1..0 = {} /\ {} \in SUBSET (1..N)
    OBVIOUS
  <2>2. Iter[{}] = <<>>
    BY <1>7, <2>1
  <2> QED
    BY <1>6, <1>8, <2>1, <2>2
<1>10. ASSUME NEW n \in 1..N
       PROVE  f[n] = Found(f[n - 1], GetLeader(buffer, slots[n]))
  <2>1. n \in 0..N /\ n - 1 \in 0..N /\ n \in Nat /\ n # 0 /\ 1..n \in SUBSET (1..N)
    OBVIOUS
  <2>2. Iter[1..n] = Found(Iter[1..(n - 1)], GetLeader(buffer, slots[n]))
    <3>1. 1..n # {} /\ Max(1..n) = n /\ (1..n) \ {n} = 1..(n - 1)
      BY <2>1, Initial
    <3>2. Iter[1..n] = Found(Iter[(1..n) \ {Max(1..n)}], GetLeader(buffer, slots[Max(1..n)]))
      BY <1>7, <2>1, <3>1, Zenon
    <3> QED
      BY <3>1, <3>2, Zenon
  <2> QED
    BY <1>8, <2>1, <2>2
<1> QED
  BY <1>9, <1>10 DEF AddsLeaders

\* UniqueLeaders adds one leader after the other.
LEMMA UniqueLeadersSteps ==
  ASSUME NEW buffer, NEW slot, NEW L, NEW all \in Seq(L), NEW N \in Nat, N = Len(all),
         all = LeadersAt(buffer, Stride(slot, FanoutSlots))
  PROVE  \E f : /\ f[0] = <<>> /\ f[N] = UniqueLeaders(buffer, slot)
                /\ \A n \in 1..N : f[n] = Once(f[n - 1], all[n])
<1> DEFINE Rec(iter) == [s \in SUBSET (DOMAIN all) |->
             IF s = {} THEN <<>> ELSE Once(iter[s \ {Max(s)}], all[Max(s)])]
           Iter == CHOOSE iter : iter = Rec(iter)
<1>1. DOMAIN all = 1..N /\ \A i \in 1..N : all[i] \in L
  BY LenProperties, ElementOfSeq
<1>2. PICK act : act = [i \in 1..N |-> [v \in Seq(L) |-> Once(v, all[i])]]
  OBVIOUS
<1>3. act \in [1..N -> [Seq(L) -> Seq(L)]]
  <2>1. ASSUME NEW i \in 1..N, NEW v \in Seq(L)
        PROVE  Once(v, all[i]) \in Seq(L)
    <3>1. all[i] \in L
      BY <1>1
    <3>2. Append(v, all[i]) \in Seq(L)
      BY <3>1, AppendProperties
    <3> QED
      BY <3>2 DEF Once
  <2> QED
    BY <1>2, <2>1
<1>4. PICK h \in [SUBSET (1..N) -> Seq(L)] : Folds(h, <<>>, act, N)
  <2>1. <<>> \in Seq(L)
    OBVIOUS
  <2> QED
    BY <1>3, <2>1, FoldExists
<1>5. h = Rec(h)
  <2>1. ASSUME NEW s \in SUBSET (1..N)
        PROVE  h[s] = IF s = {} THEN <<>> ELSE Once(h[s \ {Max(s)}], all[Max(s)])
    <3>1. CASE s = {}
      BY <1>4, <3>1 DEF Folds
    <3>2. CASE s # {}
      <4>1. Max(s) \in 1..N
        BY <3>2, MaxOfNumbers
      <4>2. h[s \ {Max(s)}] \in Seq(L)
        OBVIOUS
      <4>3. h[s] = act[Max(s)][h[s \ {Max(s)}]]
        BY <1>4, <3>2 DEF Folds
      <4> QED
        BY <1>2, <3>2, <4>1, <4>2, <4>3
    <3> QED
      BY <3>1, <3>2
  <2> QED
    BY <1>1, <2>1
<1>6. Iter = Rec(Iter)
  BY <1>5
<1>7. UniqueLeaders(buffer, slot) = Iter[DOMAIN all]
  BY DEF UniqueLeaders, FoldLeft, MapThenFoldSet, Once
<1> HIDE DEF Iter
<1>8. \A s \in SUBSET (1..N) :
        Iter[s] = IF s = {} THEN <<>> ELSE Once(Iter[s \ {Max(s)}], all[Max(s)])
  BY <1>1, <1>6
<1>9. PICK f : f = [n \in 0..N |-> Iter[1..n]]
  OBVIOUS
<1>10. f[0] = <<>> /\ f[N] = UniqueLeaders(buffer, slot)
  <2>1. 0 \in 0..N /\ N \in 0..N /\ 1..0 = {} /\ {} \in SUBSET (1..N)
    OBVIOUS
  <2>2. Iter[{}] = <<>>
    BY <1>8, <2>1
  <2> QED
    BY <1>1, <1>7, <1>9, <2>1, <2>2
<1>11. ASSUME NEW n \in 1..N
       PROVE  f[n] = Once(f[n - 1], all[n])
  <2>1. n \in 0..N /\ n - 1 \in 0..N /\ n \in Nat /\ n # 0 /\ 1..n \in SUBSET (1..N)
    OBVIOUS
  <2>2. Iter[1..n] = Once(Iter[1..(n - 1)], all[n])
    <3>1. 1..n # {} /\ Max(1..n) = n /\ (1..n) \ {n} = 1..(n - 1)
      BY <2>1, Initial
    <3>2. Iter[1..n] = Once(Iter[(1..n) \ {Max(1..n)}], all[Max(1..n)])
      BY <1>8, <2>1, <3>1, Zenon
    <3> QED
      BY <3>1, <3>2, Zenon
  <2> QED
    BY <1>9, <2>1, <2>2
<1> QED
  BY <1>10, <1>11

\* The members of a sequence that grows by one, and its injectivity.
LEMMA AppendMembers ==
  ASSUME NEW L, NEW q \in Seq(L), NEW l \in L
  PROVE  /\ Append(q, l) \in Seq(L)
         /\ ToSet(Append(q, l)) = ToSet(q) \cup {l}
         /\ l \notin ToSet(q) /\ IsInjective(q) => IsInjective(Append(q, l))
<1>1. PICK n \in Nat : n = Len(q) /\ DOMAIN q = 1..n
  BY LenProperties
<1>2. Append(q, l) \in Seq(L) /\ Len(Append(q, l)) = n + 1
      /\ Append(q, l)[n + 1] = l /\ \A i \in 1..n : Append(q, l)[i] = q[i]
  BY <1>1, AppendProperties
<1>3. PICK r : r = Append(q, l)
  OBVIOUS
<1>4. DOMAIN r = 1..(n + 1)
  BY <1>2, <1>3, LenProperties
<1>5. ToSet(r) = ToSet(q) \cup {l}
  <2>1. ASSUME NEW x \in ToSet(r) PROVE x \in ToSet(q) \cup {l}
    <3>1. PICK i \in 1..(n + 1) : x = r[i]
      BY <1>4 DEF ToSet
    <3>2. i = n + 1 \/ i \in 1..n
      OBVIOUS
    <3> QED
      BY <1>1, <1>2, <1>3, <3>1, <3>2 DEF ToSet
  <2>2. ASSUME NEW x \in ToSet(q) PROVE x \in ToSet(r)
    <3>1. PICK i \in 1..n : x = q[i]
      BY <1>1 DEF ToSet
    <3>2. i \in 1..(n + 1) /\ r[i] = q[i]
      BY <1>2, <1>3
    <3> QED
      BY <1>4, <3>1, <3>2 DEF ToSet
  <2>3. l \in ToSet(r)
    <3>1. n + 1 \in 1..(n + 1)
      OBVIOUS
    <3> QED
      BY <1>2, <1>3, <1>4, <3>1 DEF ToSet
  <2> QED
    BY <2>1, <2>2, <2>3
<1>6. ASSUME l \notin ToSet(q), IsInjective(q) PROVE IsInjective(r)
  <2>1. ASSUME NEW i \in 1..(n + 1), NEW j \in 1..(n + 1), r[i] = r[j] PROVE i = j
    <3>1. \A k \in 1..n : r[k] = q[k] /\ q[k] # l
      BY <1>1, <1>2, <1>3, <1>6 DEF ToSet
    <3>2. CASE i \in 1..n /\ j \in 1..n
      BY <1>1, <1>6, <2>1, <3>1, <3>2 DEF IsInjective
    <3>3. CASE i = n + 1 /\ j \in 1..n
      BY <1>2, <1>3, <2>1, <3>1, <3>3
    <3>4. CASE i \in 1..n /\ j = n + 1
      BY <1>2, <1>3, <2>1, <3>1, <3>4
    <3>5. CASE i = n + 1 /\ j = n + 1
      BY <3>5
    <3> QED
      BY <3>2, <3>3, <3>4, <3>5
  <2> QED
    BY <1>4, <2>1 DEF IsInjective
<1> QED
  BY <1>2, <1>3, <1>5, <1>6

\* LeadersAt finds the leader of every slot that has one.
LEMMA LeadersAtMembers ==
  ASSUME NEW buffer, NEW N \in Nat, NEW slots, DOMAIN slots = 1..N, NEW L,
         \A i \in 1..N : GetLeader(buffer, slots[i]) = {}
                         \/ \E l \in L : GetLeader(buffer, slots[i]) = {l}
  PROVE  /\ LeadersAt(buffer, slots) \in Seq(L)
         /\ ToSet(LeadersAt(buffer, slots)) = UNION {GetLeader(buffer, slots[i]) : i \in 1..N}
<1>1. LeadersIn(buffer, slots, N, L)
  BY DEF LeadersIn
<1>2. PICK f : /\ f[0] = <<>> /\ f[N] = LeadersAt(buffer, slots)
               /\ \A n \in 1..N : f[n] = Found(f[n - 1], GetLeader(buffer, slots[n]))
  <2>1. PICK f : AddsLeaders(f, buffer, slots, N)
    BY <1>1, LeadersAtSteps
  <2> QED
    BY <2>1 DEF AddsLeaders
<1>3. PICK Good : Good = {n \in 0..N : /\ f[n] \in Seq(L)
                     /\ ToSet(f[n]) = UNION {GetLeader(buffer, slots[i]) : i \in 1..n}}
  OBVIOUS
<1>4. 0 \in Good
  <2>1. f[0] \in Seq(L)
    BY <1>2
  <2>2. ToSet(f[0]) = {} /\ UNION {GetLeader(buffer, slots[i]) : i \in 1..0} = {}
    BY <1>2 DEF ToSet
  <2>3. 0 \in 0..N
    OBVIOUS
  <2> QED
    BY <1>3, <2>1, <2>2, <2>3
<1>5. ASSUME NEW n \in 0..(N - 1), n \in Good PROVE n + 1 \in Good
  <2>1. n + 1 \in 1..N /\ n + 1 \in 0..N /\ (n + 1) - 1 = n
    OBVIOUS
  <2>2. f[n] \in Seq(L) /\ ToSet(f[n]) = UNION {GetLeader(buffer, slots[i]) : i \in 1..n}
    BY <1>3, <1>5
  <2>3. PICK g : g = GetLeader(buffer, slots[n + 1])
    OBVIOUS
  <2>4. f[n + 1] = Found(f[n], g)
    BY <1>2, <2>1, <2>3
  <2>5. UNION {GetLeader(buffer, slots[i]) : i \in 1..(n + 1)}
          = (UNION {GetLeader(buffer, slots[i]) : i \in 1..n}) \cup g
    <3>1. 1..(n + 1) = (1..n) \cup {n + 1}
      OBVIOUS
    <3> QED
      BY <2>3, <3>1
  <2>6. f[n + 1] \in Seq(L) /\ ToSet(f[n + 1]) = ToSet(f[n]) \cup g
    <3>1. CASE g = {}
      BY <2>2, <2>4, <3>1 DEF Found
    <3>2. CASE g # {}
      <4>1. PICK l \in L : g = {l}
        BY <2>1, <2>3, <3>2
      <4>2. f[n + 1] = Append(f[n], l)
        BY <2>4, <4>1 DEF Found
      <4> QED
        BY <2>2, <4>1, <4>2, AppendMembers
    <3> QED
      BY <3>1, <3>2
  <2> QED
    BY <1>3, <2>1, <2>2, <2>5, <2>6
<1>6. N \in Good
  <2>1. \A n \in 0..(N - 1) : n \in Good => n + 1 \in Good
    BY <1>5
  <2>2. \A n \in 0..N : n \in Good
    BY <1>4, <2>1, BoundedInduction
  <2> QED
    BY <2>2
<1> QED
  BY <1>2, <1>3, <1>6

\* UniqueLeaders names each of the leaders found once.
LEMMA UniqueLeadersMembers ==
  ASSUME NEW buffer, NEW slot, NEW L, NEW all \in Seq(L),
         all = LeadersAt(buffer, Stride(slot, FanoutSlots))
  PROVE  /\ UniqueLeaders(buffer, slot) \in Seq(L)
         /\ IsInjective(UniqueLeaders(buffer, slot))
         /\ ToSet(UniqueLeaders(buffer, slot)) = ToSet(all)
<1>1. PICK N \in Nat : N = Len(all) /\ DOMAIN all = 1..N
  BY LenProperties
<1>2. PICK f : /\ f[0] = <<>> /\ f[N] = UniqueLeaders(buffer, slot)
               /\ \A n \in 1..N : f[n] = Once(f[n - 1], all[n])
  BY <1>1, UniqueLeadersSteps
<1>3. PICK Good : Good = {n \in 0..N : /\ f[n] \in Seq(L) /\ IsInjective(f[n])
                                       /\ ToSet(f[n]) = {all[i] : i \in 1..n}}
  OBVIOUS
<1>4. 0 \in Good
  <2>1. f[0] \in Seq(L) /\ IsInjective(f[0])
    BY <1>2 DEF IsInjective
  <2>2. ToSet(f[0]) = {} /\ {all[i] : i \in 1..0} = {}
    BY <1>2 DEF ToSet
  <2>3. 0 \in 0..N
    OBVIOUS
  <2> QED
    BY <1>3, <2>1, <2>2, <2>3
<1>5. ASSUME NEW n \in 0..(N - 1), n \in Good PROVE n + 1 \in Good
  <2>1. n + 1 \in 1..N /\ n + 1 \in 0..N /\ (n + 1) - 1 = n
    OBVIOUS
  <2>2. f[n] \in Seq(L) /\ IsInjective(f[n]) /\ ToSet(f[n]) = {all[i] : i \in 1..n}
    BY <1>3, <1>5
  <2>3. PICK l \in L : l = all[n + 1]
    BY <1>1, <2>1, ElementOfSeq
  <2>4. f[n + 1] = Once(f[n], l)
    BY <1>2, <2>1, <2>3
  <2>5. {all[i] : i \in 1..(n + 1)} = {all[i] : i \in 1..n} \cup {l}
    <3>1. 1..(n + 1) = (1..n) \cup {n + 1}
      OBVIOUS
    <3> QED
      BY <2>3, <3>1
  <2>6. f[n + 1] \in Seq(L) /\ IsInjective(f[n + 1]) /\ ToSet(f[n + 1]) = ToSet(f[n]) \cup {l}
    <3>1. CASE l \in ToSet(f[n])
      BY <2>2, <2>4, <3>1 DEF Once
    <3>2. CASE l \notin ToSet(f[n])
      <4>1. f[n + 1] = Append(f[n], l)
        BY <2>4, <3>2 DEF Once
      <4> QED
        BY <2>2, <3>2, <4>1, AppendMembers
    <3> QED
      BY <3>1, <3>2
  <2> QED
    BY <1>3, <2>1, <2>2, <2>5, <2>6
<1>6. N \in Good
  <2>1. \A n \in 0..(N - 1) : n \in Good => n + 1 \in Good
    BY <1>5
  <2>2. \A n \in 0..N : n \in Good
    BY <1>4, <2>1, BoundedInduction
  <2> QED
    BY <2>2
<1>7. ToSet(all) = {all[i] : i \in 1..N}
  BY <1>1 DEF ToSet
<1> QED
  BY <1>2, <1>3, <1>6, <1>7

-----------------------------------------------------------------------------
(***************************************************************************)
(* Slots, groups and epochs                                                *)
(***************************************************************************)

\* What the constants are.
LEMMA SenderConstants ==
  /\ LastProduced \in Produced /\ LastProduced \in Nat /\ \A n \in Produced : n <= LastProduced
  /\ Produced \subseteq Nat
  /\ SlotsPerEpoch \in Nat /\ SlotsPerEpoch > 0 /\ \E k \in Nat : SlotsPerEpoch = 4 * k
  /\ FanoutSlots \in Nat /\ FanoutSlots > 0
  /\ LeaderOf \in [0..(LastProduced + FanoutSlots + 2 * SlotsPerEpoch) -> Leaders]
  /\ MaxSends \in Nat /\ MaxFaults \in Nat /\ Capacity \in Nat
  /\ \A t \in Topologies : t = [l \in DOMAIN t |-> t[l]]
<1>1. Produced \in SUBSET Nat /\ IsFiniteSet(Produced) /\ Produced # {}
  BY SenderAssumption
<1>2. \E m \in Produced : \A n \in Produced : n <= m
  BY <1>1, GreatestNumber
<1>3. LastProduced \in Produced /\ \A n \in Produced : n <= LastProduced
  BY <1>2 DEF LastProduced
<1>4. SlotsPerEpoch \in Nat /\ SlotsPerEpoch > 0 /\ SlotsPerEpoch % 4 = 0
  BY SenderAssumption
<1>5. SlotsPerEpoch = 4 * (SlotsPerEpoch \div 4) /\ SlotsPerEpoch \div 4 \in Nat
  BY <1>4
<1>6. LeaderOf \in [0..(LastProduced + FanoutSlots + 2 * SlotsPerEpoch) -> Leaders]
  BY SenderAssumption DEF LastProduced
<1>7. FanoutSlots \in Nat /\ FanoutSlots > 0
  BY SenderAssumption
<1>8. MaxSends \in Nat /\ MaxFaults \in Nat /\ Capacity \in Nat
  BY SenderAssumption
<1>9. \A t \in Topologies : t = [l \in DOMAIN t |-> t[l]]
  BY SenderAssumption
<1> QED
  BY <1>1, <1>3, <1>4, <1>5, <1>6, <1>7, <1>8, <1>9

\* Which slots an epoch holds.
LEMMA EpochHolds ==
  ASSUME NEW s \in Nat
  PROVE  /\ EpochOf(s) \in Nat
         /\ EpochOf(s) * SlotsPerEpoch <= s
         /\ s < EpochOf(s) * SlotsPerEpoch + SlotsPerEpoch
<1>1. SlotsPerEpoch \in Nat /\ SlotsPerEpoch > 0
  BY SenderConstants
<1> QED
  BY <1>1 DEF EpochOf

\* The first slot of an epoch is the first of a group.
LEMMA EpochAligned ==
  ASSUME NEW e \in Nat
  PROVE  \E m \in Nat : e * SlotsPerEpoch = 4 * m
<1>1. PICK k \in Nat : SlotsPerEpoch = 4 * k
  BY SenderConstants
<1>2. e * k \in Nat /\ e * (4 * k) = 4 * (e * k)
  OBVIOUS
<1> QED
  BY <1>1, <1>2

\* An epoch begins at a slot exactly when the slot's epoch is not before it.
LEMMA EpochBegun ==
  ASSUME NEW s \in Nat, NEW e \in Nat
  PROVE  (s >= e * SlotsPerEpoch) <=> (EpochOf(s) >= e)
<1>1. PICK d \in Nat : d = SlotsPerEpoch /\ d > 0
  BY SenderConstants
<1>2. PICK q \in Nat : q = EpochOf(s) /\ q * d <= s /\ s < q * d + d
  BY <1>1, EpochHolds
<1>3. ASSUME q >= e PROVE s >= e * d
  <2>1. PICK x \in Nat : q = e + x
    BY <1>3
  <2>2. q * d = e * d + x * d /\ x * d >= 0
    BY <2>1
  <2> QED
    BY <1>2, <2>2
<1>4. ASSUME ~(q >= e) PROVE ~(s >= e * d)
  <2>1. PICK x \in Nat : e = q + 1 + x
    <3>1. e - q - 1 \in Nat
      BY <1>4
    <3> QED
      BY <3>1
  <2>2. e * d = q * d + d + x * d /\ x * d >= 0
    BY <2>1
  <2> QED
    BY <1>2, <2>2
<1> QED
  BY <1>1, <1>2, <1>3, <1>4

LEMMA EpochMonotone ==
  ASSUME NEW s \in Nat, NEW t \in Nat, s <= t
  PROVE  EpochOf(s) <= EpochOf(t)
<1>1. PICK e \in Nat : e = EpochOf(s)
  BY EpochHolds
<1>2. PICK d \in Nat : d = SlotsPerEpoch
  BY SenderConstants
<1>3. e * d \in Nat /\ e * d <= s
  BY <1>1, <1>2, EpochHolds
<1>4. t >= e * SlotsPerEpoch
  BY <1>2, <1>3
<1>5. EpochOf(t) >= e /\ EpochOf(t) \in Nat
  BY <1>4, EpochBegun, EpochHolds
<1> QED
  BY <1>1, <1>5

\* Slots of a group are in one epoch, on one side of the beginning of any other.
LEMMA GroupInEpoch ==
  ASSUME NEW s \in Nat, NEW t \in Nat, s \div 4 = t \div 4
  PROVE  /\ EpochOf(s) = EpochOf(t)
         /\ \A e \in Nat : (s >= e * SlotsPerEpoch) <=> (t >= e * SlotsPerEpoch)
<1>1. ASSUME NEW e \in Nat
      PROVE  (s >= e * SlotsPerEpoch) <=> (t >= e * SlotsPerEpoch)
  <2>1. PICK m \in Nat : e * SlotsPerEpoch = 4 * m
    BY EpochAligned
  <2>2. (s >= 4 * m) <=> (t >= 4 * m)
    OBVIOUS
  <2> QED
    BY <2>1, <2>2
<1>2. EpochOf(s) \in Nat /\ EpochOf(t) \in Nat
  BY EpochHolds
<1>3. EpochOf(s) >= EpochOf(t) /\ EpochOf(t) >= EpochOf(s)
  <2>1. \A e \in Nat : (EpochOf(s) >= e) <=> (EpochOf(t) >= e)
    BY <1>1, EpochBegun
  <2> QED
    BY <1>2, <2>1
<1> QED
  BY <1>1, <1>2, <1>3

\* The leader of a slot is the leader of its group.
LEMMA ScheduleGetIs ==
  ASSUME NEW e \in Nat, NEW s \in Nat
  PROVE  ScheduleGet(e, s) = IF EpochOf(s) = e THEN {LeaderOf[s \div 4]} ELSE {}
<1>1. CASE EpochOf(s) # e
  BY <1>1 DEF ScheduleGet
<1>2. CASE EpochOf(s) = e
  <2>1. PICK m \in Nat : e * SlotsPerEpoch = 4 * m
    BY EpochAligned
  <2>2. 4 * m <= s
    BY <1>2, <2>1, EpochHolds
  <2>3. (4 * m) \div 4 + (s - 4 * m) \div 4 = s \div 4
    BY <2>2
  <2>4. ScheduleGet(e, s) = {LeaderOf[(4 * m) \div 4 + (s - 4 * m) \div 4]}
    BY <1>2, <2>1 DEF ScheduleGet
  <2> QED
    BY <1>2, <2>3, <2>4
<1> QED
  BY <1>1, <1>2

\* A double buffer: two epochs in a row, or none yet.
Buffers == {b \in Nat \X Nat : b = <<0, 0>> \/ b[2] = b[1] + 1}

\* The leader found is that of the slot's group; it is found when one of the
\* buffers is of the slot's epoch.
LEMMA GetLeaderIs ==
  ASSUME NEW b \in Buffers, NEW s \in Nat
  PROVE  GetLeader(b, s) = IF EpochOf(s) \in {b[1], b[2]} THEN {LeaderOf[s \div 4]} ELSE {}
<1>1. PICK x \in Nat, y \in Nat : x = b[1] /\ y = b[2] /\ (y = x + 1 \/ (x = 0 /\ y = 0))
  <2>1. b \in Nat \X Nat /\ (b = <<0, 0>> \/ b[2] = b[1] + 1)
    BY DEF Buffers
  <2>2. b[1] \in Nat /\ b[2] \in Nat
    BY <2>1
  <2>3. b = <<0, 0>> => b[1] = 0 /\ b[2] = 0
    OBVIOUS
  <2> QED
    BY <2>1, <2>2, <2>3
<1>2. PICK e \in Nat : e = EpochOf(s)
  BY EpochHolds
<1>3. (s >= y * SlotsPerEpoch) <=> (e >= y)
  BY <1>2, EpochBegun
<1>4. CASE e >= y
  <2>1. GetLeader(b, s) = ScheduleGet(y, s)
    BY <1>1, <1>3, <1>4 DEF GetLeader
  <2>2. e = x => e = y
    BY <1>1, <1>4
  <2> QED
    BY <1>1, <1>2, <2>1, <2>2, ScheduleGetIs
<1>5. CASE ~(e >= y)
  <2>1. GetLeader(b, s) = ScheduleGet(x, s)
    BY <1>1, <1>3, <1>5 DEF GetLeader
  <2>2. e # y
    BY <1>1, <1>5
  <2> QED
    BY <1>1, <1>2, <2>1, <2>2, ScheduleGetIs
<1> QED
  BY <1>4, <1>5

-----------------------------------------------------------------------------
(***************************************************************************)
(* The window                                                              *)
(***************************************************************************)

\* The slots a window may start at.
Starts == 0..LastProduced

\* The slots of Stride are in the window, and their leaders are known to the
\* schedule of the cluster.
LEMMA StrideInWindow ==
  ASSUME NEW s \in Starts
  PROVE  \E N \in Nat :
           /\ N = (FanoutSlots + 3) \div 4
           /\ DOMAIN Stride(s, FanoutSlots) = 1..N
           /\ \A i \in 1..N : /\ Stride(s, FanoutSlots)[i] = s + 4 * (i - 1)
                              /\ s + 4 * (i - 1) \in s..(s + FanoutSlots - 1)
<1>1. FanoutSlots \in Nat /\ FanoutSlots > 0 /\ s \in Nat
  BY SenderConstants DEF Starts
<1>2. PICK N \in Nat : N = (FanoutSlots + 3) \div 4 /\ 4 * N <= FanoutSlots + 3
  BY <1>1
<1>3. Stride(s, FanoutSlots) = [i \in 1..N |-> s + 4 * (i - 1)]
  BY <1>2 DEF Stride
<1>4. \A i \in 1..N : s + 4 * (i - 1) \in s..(s + FanoutSlots - 1)
  BY <1>1, <1>2
<1> QED
  BY <1>2, <1>3, <1>4

\* The leaders of a window, as of all the slots it may reach, are validators.
LEMMA WindowLeaders ==
  ASSUME NEW s \in Starts
  PROVE  /\ Window(s) \subseteq Leaders
         /\ \A n \in s..(s + FanoutSlots - 1) : n \in Nat /\ LeaderOf[n \div 4] \in Window(s)
<1>1. PICK p \in Nat, f \in Nat, e \in Nat :
        p = LastProduced /\ f = FanoutSlots /\ f > 0 /\ e = SlotsPerEpoch
  BY SenderConstants
<1>2. LeaderOf \in [0..(p + f + 2 * e) -> Leaders] /\ s \in 0..p
  BY <1>1, SenderConstants DEF Starts
<1>3. ASSUME NEW n \in s..(s + f - 1)
      PROVE  n \in Nat /\ LeaderOf[n \div 4] \in Leaders
  <2>1. n \in Nat /\ n <= p + f
    BY <1>1, <1>2
  <2>2. n \div 4 \in 0..(p + f + 2 * e)
    BY <1>1, <2>1
  <2> QED
    BY <1>2, <2>1, <2>2
<1> QED
  BY <1>1, <1>3 DEF Window

\* What a send looks up: leaders of the window, each once, those of every
\* slot of Stride that is in an epoch of the buffer.
LEMMA UniqueLeadersInWindow ==
  ASSUME NEW b \in Buffers, NEW s \in Starts
  PROVE  /\ UniqueLeaders(b, s) \in Seq(Window(s))
         /\ UniqueLeaders(b, s) \in Seq(Leaders)
         /\ IsInjective(UniqueLeaders(b, s))
         /\ ToSet(UniqueLeaders(b, s)) =
              UNION {GetLeader(b, s + 4 * (i - 1)) : i \in 1..((FanoutSlots + 3) \div 4)}
<1>1. PICK slots : slots = Stride(s, FanoutSlots)
  OBVIOUS
<1>2. PICK N \in Nat :
        /\ N = (FanoutSlots + 3) \div 4 /\ DOMAIN slots = 1..N
        /\ \A i \in 1..N : slots[i] = s + 4 * (i - 1) /\ slots[i] \in s..(s + FanoutSlots - 1)
  BY <1>1, StrideInWindow
<1>3. ASSUME NEW i \in 1..N
      PROVE  GetLeader(b, slots[i]) = {} \/ \E l \in Window(s) : GetLeader(b, slots[i]) = {l}
  <2>1. slots[i] \in Nat /\ LeaderOf[slots[i] \div 4] \in Window(s)
    BY <1>2, WindowLeaders
  <2> QED
    BY <2>1, GetLeaderIs
<1>4. PICK all : all = LeadersAt(b, slots)
  OBVIOUS
<1>5. all \in Seq(Window(s)) /\ ToSet(all) = UNION {GetLeader(b, slots[i]) : i \in 1..N}
  BY <1>2, <1>3, <1>4, LeadersAtMembers
<1>6. /\ UniqueLeaders(b, s) \in Seq(Window(s)) /\ IsInjective(UniqueLeaders(b, s))
      /\ ToSet(UniqueLeaders(b, s)) = ToSet(all)
  BY <1>1, <1>4, <1>5, UniqueLeadersMembers
<1>7. UniqueLeaders(b, s) \in Seq(Leaders)
  <2>1. Window(s) \subseteq Leaders
    BY WindowLeaders
  <2> QED
    BY <1>6, <2>1
<1>8. UNION {GetLeader(b, slots[i]) : i \in 1..N} = UNION {GetLeader(b, s + 4 * (i - 1)) : i \in 1..N}
  BY <1>2
<1> QED
  BY <1>2, <1>5, <1>6, <1>7, <1>8

\* Sampling every fourth slot steps over the last group of the window at most.
LEMMA WindowSampled ==
  ASSUME NEW b \in Buffers, NEW s \in Starts,
         EpochOf(s) \in {b[1], b[2]}, EpochOf(s + FanoutSlots - 1) \in {b[1], b[2]}
  PROVE  Window(s) \ {LeaderOf[(s + FanoutSlots - 1) \div 4]} \subseteq ToSet(UniqueLeaders(b, s))
<1>1. PICK f \in Nat : f = FanoutSlots /\ f > 0
  BY SenderConstants
<1>2. s \in Nat
  BY SenderConstants DEF Starts
<1>3. PICK last \in Nat : last = s + f - 1
  BY <1>1, <1>2
<1> SUFFICES ASSUME NEW n \in s..last, LeaderOf[n \div 4] # LeaderOf[last \div 4]
             PROVE  LeaderOf[n \div 4] \in ToSet(UniqueLeaders(b, s))
  BY <1>1, <1>3 DEF Window
<1>4. n \in Nat /\ n \div 4 # last \div 4
  BY <1>2
<1>5. PICK g \in Nat, gs \in Nat, gl \in Nat : /\ g = n \div 4 /\ gs = s \div 4 /\ gl = last \div 4
                                              /\ gs <= g /\ g < gl
  BY <1>2, <1>4
<1>6. PICK i : i = g - gs + 1
  OBVIOUS
<1>7. i \in Nat /\ i >= 1
  BY <1>5, <1>6
<1>8. PICK m \in Nat : m = s + 4 * (i - 1)
  BY <1>2, <1>7
<1>9. m \div 4 = g
  BY <1>2, <1>5, <1>6, <1>8
<1>10. m < last /\ s <= m
  BY <1>2, <1>5, <1>7, <1>8, <1>9
<1>11. i \in 1..((f + 3) \div 4)
  BY <1>1, <1>2, <1>3, <1>7, <1>8, <1>10
<1>12. EpochOf(m) \in {b[1], b[2]}
  <2>1. EpochOf(s) <= EpochOf(m) /\ EpochOf(m) <= EpochOf(last)
    BY <1>2, <1>10, EpochMonotone
  <2>2. PICK x \in Nat, y \in Nat : x = b[1] /\ y = b[2] /\ (y = x + 1 \/ (x = 0 /\ y = 0))
    <3>1. b \in Nat \X Nat /\ (b = <<0, 0>> \/ b[2] = b[1] + 1)
      BY DEF Buffers
    <3>2. b[1] \in Nat /\ b[2] \in Nat
      BY <3>1
    <3>3. b = <<0, 0>> => b[1] = 0 /\ b[2] = 0
      OBVIOUS
    <3> QED
      BY <3>1, <3>2, <3>3
  <2>3. PICK es \in Nat, em \in Nat, el \in Nat : es = EpochOf(s) /\ em = EpochOf(m) /\ el = EpochOf(last)
    BY <1>2, EpochHolds
  <2>4. es \in {x, y} /\ el \in {x, y}
    BY <1>1, <1>3, <2>2, <2>3
  <2> QED
    BY <2>1, <2>2, <2>3, <2>4
<1>13. GetLeader(b, m) = {LeaderOf[g]}
  BY <1>9, <1>12, GetLeaderIs
<1>14. GetLeader(b, s + 4 * (i - 1)) \subseteq ToSet(UniqueLeaders(b, s))
  BY <1>1, <1>11, UniqueLeadersInWindow
<1> QED
  BY <1>5, <1>8, <1>13, <1>14

\* LeadersAt finds the leaders of all the slots it is asked about.
LEMMA LeadersFound ==
  ASSUME NEW b \in Buffers, NEW M \in Nat, NEW slots, DOMAIN slots = 1..M,
         \A i \in 1..M : slots[i] \in Nat
  PROVE  ToSet(LeadersAt(b, slots)) = UNION {GetLeader(b, slots[i]) : i \in 1..M}
<1>1. PICK L : L = {LeaderOf[slots[i] \div 4] : i \in 1..M}
  OBVIOUS
<1>2. ASSUME NEW i \in 1..M
      PROVE  GetLeader(b, slots[i]) = {} \/ \E l \in L : GetLeader(b, slots[i]) = {l}
  <2>1. slots[i] \in Nat /\ LeaderOf[slots[i] \div 4] \in L
    BY <1>1
  <2> QED
    BY <2>1, GetLeaderIs
<1> QED
  BY <1>2, LeadersAtMembers

\* The prediction asks for a slot of every group that a send samples.
LEMMA PredictionCovers ==
  ASSUME schedule.buffer \in Buffers, NEW s \in Starts, NEW M \in Nat, M >= (FanoutSlots + 3) \div 4
  PROVE  ToSet(UniqueLeaders(schedule.buffer, s)) \subseteq ToSet(TryPredictNextNLeaders(s, M))
<1>1. PICK b \in Buffers : b = schedule.buffer
  OBVIOUS
<1>2. PICK N \in Nat : N = (FanoutSlots + 3) \div 4 /\ N <= M
  BY StrideInWindow
<1>3. s \in Nat
  BY SenderConstants DEF Starts
<1>4. PICK r \in Nat : r = s - (s % 4) /\ r \div 4 = s \div 4
  BY <1>3
<1>5. PICK slots : slots = [i \in 1..M |-> r + 4 * (i - 1)]
  OBVIOUS
<1>6. DOMAIN slots = 1..M
  BY <1>5
<1>8. ASSUME NEW i \in 1..M
      PROVE  slots[i] \in Nat /\ GetLeader(b, slots[i]) = GetLeader(b, s + 4 * (i - 1))
  <2>1. PICK t \in Nat, u \in Nat : t = s + 4 * (i - 1) /\ u = r + 4 * (i - 1) /\ t \div 4 = u \div 4
    BY <1>3, <1>4
  <2>2. EpochOf(t) = EpochOf(u)
    BY <2>1, GroupInEpoch
  <2>3. slots[i] = u
    BY <1>5, <2>1
  <2> QED
    BY <2>1, <2>2, <2>3, GetLeaderIs
<1>9. ToSet(LeadersAt(b, slots)) = UNION {GetLeader(b, slots[i]) : i \in 1..M}
  BY <1>6, <1>8, LeadersFound
<1>10. ToSet(UniqueLeaders(b, s)) = UNION {GetLeader(b, s + 4 * (i - 1)) : i \in 1..N}
  BY <1>2, UniqueLeadersInWindow
<1>11. ASSUME NEW i \in 1..N
       PROVE  GetLeader(b, s + 4 * (i - 1)) \subseteq UNION {GetLeader(b, slots[k]) : k \in 1..M}
  <2>1. i \in 1..M
    BY <1>2
  <2> QED
    BY <1>8, <2>1
<1>12. TryPredictNextNLeaders(s, M) = LeadersAt(b, slots)
  BY <1>1, <1>4, <1>5 DEF TryPredictNextNLeaders
<1> QED
  BY <1>1, <1>9, <1>10, <1>11, <1>12

-----------------------------------------------------------------------------
(***************************************************************************)
(* Tasks, creation and overseer                                            *)
(***************************************************************************)

OverseerTypes == [pc : {"none", "waiting", "aborted", "joining", "returned", "dropped"},
                  rest : Seq(Tasks)]

\* A handle the overseer no longer waits for is that of a task that has ended.
HandlesAwaited ==
  /\ overseer.pc = "joining" => \A d \in Tasks : task[d] = "ended" \/ d \in ToSet(overseer.rest)
  /\ overseer.pc = "returned" => \A d \in Tasks : task[d] = "ended"

\* The overseer exists once the creation is done.  Tasks are spawned by the
\* creation alone.
LifeInv ==
  /\ task \in [Tasks -> TaskStates]
  /\ creation \in {"running", "failed", "done"}
  /\ overseer \in OverseerTypes
  /\ handles \in SUBSET Senders
  /\ faults \in 0..MaxFaults
  /\ overseer.pc # "none" => creation = "done"
  /\ HandlesAwaited

LEMMA TasksAre ==
  /\ Tasks = {"tpu-info-service", "managed-leader-schedule", "stake-info-service", "slot-tracker"}
  /\ IsFiniteSet(Tasks)
  /\ Len(Dependencies) = 4 /\ \A i \in 1..4 : Dependencies[i] \in Tasks
<1>1. DOMAIN Dependencies = 1..4 /\ Len(Dependencies) = 4
  BY DEF Dependencies
<1>2. Tasks = {Dependencies[i] : i \in 1..4}
  BY <1>1 DEF Tasks, ToSet
<1>3. Tasks = {"tpu-info-service", "managed-leader-schedule", "stake-info-service", "slot-tracker"}
  <2>1. 1..4 = {1, 2, 3, 4}
    OBVIOUS
  <2> QED
    BY <1>2, <2>1 DEF Dependencies
<1>4. IsFiniteSet(Tasks)
  <2>1. \A n \in Nat : IsFiniteSet(1..n)
    BY FS_Interval
  <2>2. PICK f : f = [i \in 1..4 |-> Dependencies[i]]
    OBVIOUS
  <2>3. f \in Surjection(1..4, Tasks)
    BY <1>2, <2>2 DEF Surjection
  <2> QED
    BY <2>1, <2>3, FS_Surjection, IsFiniteSet(1..4) DEF ExistsSurjection
<1> QED
  BY <1>1, <1>2, <1>3, <1>4

\* A step of the creation is about one of the tasks, which is not there yet.
LEMMA CreateIs ==
  ASSUME Create
  PROVE  \E d \in Tasks : Fetches(d) /\ task[d] = "none" /\ task' = [task EXCEPT ![d] = "running"]
  BY TasksAre DEF Create, Awaits

\* abort() does nothing to a task that has ended.
LEMMA AbortedType ==
  ASSUME NEW t \in [Tasks -> TaskStates]
  PROVE  /\ Aborted(t) \in [Tasks -> TaskStates]
         /\ \A d \in Tasks : t[d] = "ended" => Aborted(t)[d] = "ended"
  BY DEF Aborted, TaskStates

LEMMA FaultType ==
  ASSUME faults \in 0..MaxFaults, FaultHappens
  PROVE  faults' \in 0..MaxFaults
  BY SenderConstants DEF FaultHappens

\* What swap_remove leaves is every handle but the one that was ready.
LEMMA RestOfHandles ==
  ASSUME NEW i \in 1..4
  PROVE  /\ SwapRemove(Dependencies, i) \in Seq(Tasks)
         /\ \A d \in Tasks : d = Dependencies[i] \/ d \in ToSet(SwapRemove(Dependencies, i))
<1>1. PICK rest : rest = SwapRemove(Dependencies, i)
  OBVIOUS
<1>2. rest = [j \in 1..3 |-> IF j = i THEN Dependencies[4] ELSE Dependencies[j]]
  BY <1>1, TasksAre DEF SwapRemove
<1>3. \A j \in 1..3 : rest[j] \in Tasks
  BY <1>2, TasksAre
<1>4. rest \in [1..3 -> Tasks] /\ DOMAIN rest = 1..3
  BY <1>2, <1>3
<1>5. rest \in Seq(Tasks)
  BY <1>4, 3 \in Nat, SeqDef
<1>6. ASSUME NEW d \in Tasks, d # Dependencies[i]
      PROVE  d \in ToSet(rest)
  <2>1. PICK k \in 1..4 : d = Dependencies[k]
    BY TasksAre DEF Tasks, ToSet, Dependencies
  <2>2. k # i
    BY <1>6, <2>1
  <2>3. CASE k = 4
    <3>1. i \in 1..3 /\ rest[i] = d
      BY <1>2, <2>1, <2>2, <2>3
    <3> QED
      BY <1>4, <3>1 DEF ToSet
  <2>4. CASE k # 4
    <3>1. k \in 1..3 /\ rest[k] = d
      BY <1>2, <2>1, <2>2, <2>4
    <3> QED
      BY <1>4, <3>1 DEF ToSet
  <2> QED
    BY <2>3, <2>4
<1> QED
  BY <1>1, <1>5, <1>6

\* A member of a sequence is its head or a member of its tail.
LEMMA HeadOrTail ==
  ASSUME NEW T, NEW q \in Seq(T), q # <<>>
  PROVE  /\ Tail(q) \in Seq(T)
         /\ \A x \in ToSet(q) : x = Head(q) \/ x \in ToSet(Tail(q))
<1>1. PICK n \in Nat : n = Len(q) /\ n > 0 /\ DOMAIN q = 1..n
  BY EmptySeq, LenProperties
<1>2. Head(q) = q[1] /\ Tail(q) \in Seq(T) /\ Len(Tail(q)) = n - 1
  BY <1>1, HeadTailProperties
<1>3. DOMAIN Tail(q) = 1..(n - 1) /\ \A i \in 1..(n - 1) : Tail(q)[i] = q[i + 1]
  BY <1>1, <1>2, HeadTailProperties, LenProperties
<1>4. ASSUME NEW x \in ToSet(q), x # Head(q)
      PROVE  x \in ToSet(Tail(q))
  <2>1. PICK i \in 1..n : x = q[i]
    BY <1>1 DEF ToSet
  <2>2. i - 1 \in 1..(n - 1) /\ (i - 1) + 1 = i
    BY <1>2, <1>4, <2>1
  <2>3. x = Tail(q)[i - 1]
    BY <1>3, <2>1, <2>2
  <2> QED
    BY <1>3, <2>2, <2>3 DEF ToSet
<1> QED
  BY <1>2, <1>4

\* A task that is dropped had not ended.
LEMMA DropsIs ==
  ASSUME NEW d \in Tasks, TaskStops(d) \/ TaskCancelled(d) \/ TaskFails(d)
  PROVE  /\ Drops(d) /\ task[d] \in {"running", "aborting"}
         /\ UNCHANGED faults \/ FaultHappens
  BY DEF TaskStops, TaskCancelled, TaskFails

LEMMA LifeStep ==
  ASSUME LifeInv, [Next]_vars
  PROVE  LifeInv'
<1> USE DEF LifeInv
<1>0. overseer.pc \in {"none", "waiting", "aborted", "joining", "returned", "dropped"}
      /\ overseer.rest \in Seq(Tasks)
  BY DEF OverseerTypes
<1>1. CASE Create
  <2>1. PICK d \in Tasks : task' = [task EXCEPT ![d] = "running"]
    BY <1>1, CreateIs
  <2>2. creation = "running" /\ UNCHANGED <<creation, overseer, handles, faults>>
    BY <1>1 DEF Create, Awaits
  <2>3. task' \in [Tasks -> TaskStates]
    BY <2>1 DEF TaskStates
  <2> QED
    BY <2>2, <2>3 DEF HandlesAwaited
<1>2. CASE CreationFails
  <2>1. faults' \in 0..MaxFaults
    BY <1>2, FaultType DEF CreationFails
  <2>2. task' = Aborted(task) /\ creation = "running" /\ creation' = "failed"
        /\ overseer' = overseer /\ handles' = handles
    BY <1>2 DEF CreationFails, Awaits
  <2> QED
    BY <2>1, <2>2, AbortedType DEF HandlesAwaited
<1>3. CASE Created
  <2>1. overseer' = [pc |-> "waiting", rest |-> <<>>] /\ creation' = "done" /\ handles' = Senders
        /\ UNCHANGED <<task, faults>>
    BY <1>3 DEF Created
  <2>2. overseer' \in OverseerTypes /\ overseer'.pc = "waiting"
    BY <2>1 DEF OverseerTypes
  <2> QED
    BY <2>1, <2>2 DEF HandlesAwaited
<1>4. CASE OverseerAborts
  <2>1. task' = Aborted(task) /\ overseer.pc = "waiting" /\ overseer' = [overseer EXCEPT !.pc = "aborted"]
        /\ creation' = creation /\ handles' = handles /\ faults' = faults
    BY <1>4 DEF OverseerAborts
  <2>2. overseer' \in OverseerTypes /\ overseer'.pc = "aborted"
    BY <2>1 DEF OverseerTypes
  <2> QED
    BY <2>1, <2>2, AbortedType DEF HandlesAwaited
<1>5. CASE OverseerReturns
  <2>1. overseer.pc = "joining" /\ overseer.rest = <<>> /\ overseer' = [pc |-> "returned", rest |-> <<>>]
        /\ UNCHANGED <<task, creation, handles, faults>>
    BY <1>5 DEF OverseerReturns, Joined
  <2>2. overseer' \in OverseerTypes /\ overseer'.pc = "returned"
    BY <2>1 DEF OverseerTypes
  <2>3. ToSet(overseer.rest) = {}
    BY <2>1 DEF ToSet
  <2>4. \A d \in Tasks : task[d] = "ended"
    BY <2>1, <2>3 DEF HandlesAwaited
  <2> QED
    BY <2>1, <2>2, <2>4 DEF HandlesAwaited
<1>6. CASE OverseerDropped
  <2>1. faults' \in 0..MaxFaults
    BY <1>6, FaultType DEF OverseerDropped
  <2>2. task' = Aborted(task) /\ overseer.pc # "none" /\ overseer' = [pc |-> "dropped", rest |-> <<>>]
        /\ creation' = creation /\ handles' = handles
    BY <1>6 DEF OverseerDropped
  <2>3. overseer' \in OverseerTypes /\ overseer'.pc = "dropped"
    BY <2>2 DEF OverseerTypes
  <2> QED
    BY <2>1, <2>2, <2>3, AbortedType DEF HandlesAwaited
<1>17. ASSUME NEW i \in 1..Len(Dependencies), OverseerSelects(i)
       PROVE  LifeInv'
  <2>1. PICK rest : rest = SwapRemove(Dependencies, i)
    OBVIOUS
  <2>2. task' = Aborted(task) /\ overseer.pc # "none" /\ overseer' = [pc |-> "joining", rest |-> rest]
        /\ creation' = creation /\ handles' = handles /\ faults' = faults
        /\ task[Dependencies[i]] = "ended"
    BY <1>17, <2>1 DEF OverseerSelects
  <2>3. rest \in Seq(Tasks) /\ \A d \in Tasks : d = Dependencies[i] \/ d \in ToSet(rest)
    BY <2>1, TasksAre, RestOfHandles
  <2>4. overseer' \in OverseerTypes /\ overseer'.pc = "joining" /\ overseer'.rest = rest
    BY <2>2, <2>3 DEF OverseerTypes
  <2>5. \A d \in Tasks : task'[d] = "ended" \/ d \in ToSet(rest)
    BY <2>2, <2>3, AbortedType
  <2> QED
    BY <2>2, <2>4, <2>5, AbortedType DEF HandlesAwaited
<1>18. CASE OverseerJoins
  <2>1. overseer.pc = "joining" /\ overseer.rest # <<>> /\ task[Head(overseer.rest)] = "ended"
        /\ overseer' = [overseer EXCEPT !.rest = Tail(overseer.rest)]
        /\ UNCHANGED <<task, creation, handles, faults>>
    BY <1>0, <1>18 DEF OverseerJoins, OverseerTypes
  <2>2. Tail(overseer.rest) \in Seq(Tasks)
        /\ \A d \in ToSet(overseer.rest) : d = Head(overseer.rest) \/ d \in ToSet(Tail(overseer.rest))
    BY <1>0, <2>1, HeadOrTail
  <2>3. overseer' \in OverseerTypes /\ overseer'.pc = "joining" /\ overseer'.rest = Tail(overseer.rest)
    BY <2>1, <2>2 DEF OverseerTypes
  <2>4. \A d \in Tasks : task[d] = "ended" \/ d \in ToSet(overseer'.rest)
    BY <2>1, <2>2, <2>3 DEF HandlesAwaited
  <2> QED
    BY <2>1, <2>3, <2>4 DEF HandlesAwaited
<1>7. ASSUME NEW d \in Tasks, TaskStops(d) \/ TaskCancelled(d) \/ TaskFails(d) \/ TaskEnds(d)
      PROVE  LifeInv'
  <2>1. faults' \in 0..MaxFaults
    BY <1>7, FaultType DEF TaskStops, TaskCancelled, TaskFails, TaskEnds
  <2>2. PICK state \in {"dropped", "ended"} : task' = [task EXCEPT ![d] = state]
    BY <1>7, DropsIs DEF Drops, TaskEnds
  <2>3. task[d] # "ended" /\ UNCHANGED <<creation, overseer, handles>>
    BY <1>7, DropsIs DEF Drops, TaskEnds
  <2>4. task' \in [Tasks -> TaskStates] /\ \A e \in Tasks : task[e] = "ended" => task'[e] = "ended"
    BY <2>2, <2>3 DEF TaskStates
  <2> QED
    BY <2>1, <2>3, <2>4 DEF HandlesAwaited
<1>8. CASE StreamLost
  BY <1>8, FaultType DEF StreamLost, trackerFrame, lifecycle, HandlesAwaited
<1>9. CASE DriverEnds
  BY <1>9, FaultType DEF DriverEnds, lifecycle, HandlesAwaited
<1>10. ASSUME NEW s \in Senders, DropSender(s)
       PROVE  LifeInv'
  BY <1>10 DEF DropSender, HandlesAwaited
<1>11. CASE UNCHANGED <<lifecycle, faults>>
  BY <1>11 DEF lifecycle, HandlesAwaited
<1>12. ASSUME Produce \/ StoreClosed \/ StreamReconnected \/ ScheduleWakes \/ RefreshTpuInfo \/ DriverTakes
       PROVE  UNCHANGED <<lifecycle, faults>>
  BY <1>12 DEF Produce, StoreClosed, StreamReconnected, ScheduleWakes, RefreshTpuInfo, DriverTakes,
               trackerFrame
<1>13. ASSUME NEW slot \in Produced, SlotUpdate(slot)
       PROVE  UNCHANGED <<lifecycle, faults>>
  BY <1>13 DEF SlotUpdate, trackerFrame
<1>14. ASSUME NEW ok \in BOOLEAN, ScheduleFetched(ok)
       PROVE  UNCHANGED <<lifecycle, faults>>
  BY <1>14 DEF ScheduleFetched
<1>15. ASSUME NEW s \in Senders, LoadClosed(s) \/ LoadSlot(s) \/ Lookup(s) \/ SendToLeader(s) \/ SendReturns(s)
       PROVE  UNCHANGED <<lifecycle, faults>>
  BY <1>15 DEF LoadClosed, LoadSlot, Lookup, SendToLeader, SendReturns, Return, Step
<1>16. CASE UNCHANGED vars
  BY <1>11, <1>16 DEF vars, lifecycle
<1> QED
  BY <1>1, <1>2, <1>3, <1>4, <1>5, <1>6, <1>7, <1>8, <1>9, <1>10, <1>11, <1>12, <1>13, <1>14, <1>15,
     <1>16, <1>17, <1>18 DEF Next

-----------------------------------------------------------------------------
(***************************************************************************)
(* Slot tracker                                                            *)
(***************************************************************************)

TrackerTypes == [slot : Produced \cup {0}, closed : BOOLEAN,
                 stream : {"up", "storing", "down"}, current : Produced \cup {0}]

\* A slot is published only by the tracker's task, and a task whose future was
\* dropped has left its mark.
MarkInv ==
  /\ task["slot-tracker"] = "none" => tracker.slot = 0
  /\ task["slot-tracker"] \in {"dropped", "ended"} => tracker.closed
  /\ task["managed-leader-schedule"] \in {"dropped", "ended"} => schedule.fail

\* The slot a stream compares with is the slot that is published.
TrackerInv ==
  /\ tip \in Produced
  /\ tracker \in TrackerTypes
  /\ tracker.current = tracker.slot
  /\ tracker.slot <= tip

LEMMA MarkedTracker ==
  ASSUME NEW d, tracker \in TrackerTypes, MarkOnDrop(d)
  PROVE  /\ tracker' \in TrackerTypes
         /\ tracker'.slot = tracker.slot /\ tracker'.current = tracker.current
  BY DEF MarkOnDrop, TrackerTypes

LEMMA TrackerStep ==
  ASSUME TrackerInv, MarkInv, [Next]_vars
  PROVE  TrackerInv' /\ tracker'.slot >= tracker.slot
<1> USE DEF TrackerInv
<1>1. tip \in Nat /\ tracker.slot \in Nat /\ tracker.slot \in Produced \cup {0}
  BY SenderConstants DEF TrackerTypes
<1>2. CASE Produce
  <2>1. \E m \in Produced : m > tip
    BY <1>2 DEF Produce
  <2>2. PICK Later : Later = {m \in Produced : m > tip}
    OBVIOUS
  <2>3. PICK m \in Later : \A n \in Later : m <= n
    BY <2>1, <2>2, LeastNumber, SenderConstants
  <2>4. tip' = CHOOSE k \in Produced : k > tip /\ \A n \in Produced : n > tip => k <= n
    BY <1>2 DEF Produce
  <2>5. tip' \in Produced /\ tip' > tip
    BY <2>2, <2>3, <2>4
  <2>6. tip' \in Nat
    BY <2>5, SenderConstants
  <2>7. tracker' = tracker
    BY <1>2 DEF Produce, services
  <2> QED
    BY <1>1, <2>5, <2>6, <2>7
<1>3. CASE Create
  <2>1. PICK d \in Tasks : Fetches(d) /\ task[d] = "none"
    BY <1>3, CreateIs
  <2>2. tip' = tip
    BY <1>3 DEF Create
  <2>3. CASE d = "slot-tracker"
    <3>1. PICK slot \in Produced :
            /\ slot <= tip
            /\ tracker' = [slot |-> slot, closed |-> FALSE, stream |-> "up", current |-> slot]
      BY <2>1, <2>3 DEF Fetches
    <3>2. slot \in Nat /\ tracker.slot = 0
      BY <2>1, <2>3, SenderConstants DEF MarkInv
    <3> QED
      BY <1>1, <2>2, <3>1, <3>2 DEF TrackerTypes
  <2>4. CASE d # "slot-tracker"
    <3>1. tracker' = tracker
      BY <2>1, <2>4 DEF Fetches
    <3> QED
      BY <1>1, <2>2, <3>1
  <2> QED
    BY <2>3, <2>4
<1>4. ASSUME NEW d \in Tasks, TaskStops(d) \/ TaskCancelled(d) \/ TaskFails(d)
      PROVE  TrackerInv' /\ tracker'.slot >= tracker.slot
  <2>1. MarkOnDrop(d) /\ tip' = tip
    BY <1>4, DropsIs DEF Drops
  <2> QED
    BY <1>1, <2>1, MarkedTracker
<1>5. ASSUME NEW slot \in Produced, SlotUpdate(slot)
      PROVE  TrackerInv' /\ tracker'.slot >= tracker.slot
  <2>1. tip' = tip /\ slot <= tip /\ slot > tracker.current /\ slot \in Nat
        /\ tracker' = [tracker EXCEPT !.current = slot, !.slot = slot, !.stream = "storing"]
    BY <1>5, SenderConstants DEF SlotUpdate, trackerFrame
  <2>2. tracker' \in TrackerTypes /\ tracker'.slot = slot /\ tracker'.current = slot
    BY <2>1 DEF TrackerTypes
  <2> QED
    BY <1>1, <2>1, <2>2
<1>6. ASSUME tip' = tip, tracker' \in TrackerTypes,
             tracker'.slot = tracker.slot, tracker'.current = tracker'.slot
      PROVE  TrackerInv' /\ tracker'.slot >= tracker.slot
  BY <1>1, <1>6
<1>7. CASE StoreClosed \/ StreamLost \/ StreamReconnected
  <2>1. tip' = tip
    BY <1>7 DEF StoreClosed, StreamLost, StreamReconnected, trackerFrame
  <2>2. CASE StoreClosed
    <3>1. tracker' = [tracker EXCEPT !.closed = FALSE, !.stream = "up"]
      BY <2>2 DEF StoreClosed
    <3>2. tracker' \in TrackerTypes /\ tracker'.slot = tracker.slot /\ tracker'.current = tracker.current
      BY <3>1 DEF TrackerTypes
    <3> QED
      BY <1>6, <2>1, <3>2
  <2>3. CASE StreamLost
    <3>1. tracker' = [tracker EXCEPT !.closed = TRUE, !.stream = "down"]
      BY <2>3 DEF StreamLost
    <3>2. tracker' \in TrackerTypes /\ tracker'.slot = tracker.slot /\ tracker'.current = tracker.current
      BY <3>1 DEF TrackerTypes
    <3> QED
      BY <1>6, <2>1, <3>2
  <2>4. CASE StreamReconnected
    <3>1. tracker' = [tracker EXCEPT !.stream = "up", !.current = tracker.slot]
      BY <2>4 DEF StreamReconnected, Resumed
    <3>2. tracker' \in TrackerTypes /\ tracker'.slot = tracker.slot /\ tracker'.current = tracker.slot
      BY <3>1 DEF TrackerTypes
    <3> QED
      BY <1>6, <2>1, <3>2
  <2> QED
    BY <1>7, <2>2, <2>3, <2>4
<1>9. CASE UNCHANGED <<tip, tracker>>
  BY <1>1, <1>9
<1>10. ASSUME CreationFails \/ Created \/ OverseerAborts \/ OverseerJoins \/ OverseerReturns
              \/ OverseerDropped \/ DriverTakes \/ DriverEnds
              \/ (\E i \in 1..Len(Dependencies) : OverseerSelects(i)) \/ (\E d \in Tasks : TaskEnds(d))
       PROVE  UNCHANGED <<tip, tracker>>
  BY <1>10 DEF CreationFails, Created, OverseerAborts, OverseerSelects, OverseerJoins, OverseerReturns,
               OverseerDropped, TaskEnds, DriverTakes, DriverEnds, services
<1>11. ASSUME ScheduleWakes \/ RefreshTpuInfo \/ \E ok \in BOOLEAN : ScheduleFetched(ok)
       PROVE  UNCHANGED <<tip, tracker>>
  BY <1>11 DEF ScheduleWakes, RefreshTpuInfo, ScheduleFetched
<1>12. ASSUME NEW s \in Senders,
              LoadClosed(s) \/ LoadSlot(s) \/ Lookup(s) \/ SendToLeader(s) \/ SendReturns(s) \/ DropSender(s)
       PROVE  UNCHANGED <<tip, tracker>>
  BY <1>12 DEF LoadClosed, LoadSlot, Lookup, SendToLeader, SendReturns, DropSender, Return, Step, services
<1>13. CASE UNCHANGED vars
  BY <1>9, <1>13 DEF vars
<1> QED
  BY <1>2, <1>3, <1>4, <1>5, <1>7, <1>9, <1>10, <1>11, <1>12, <1>13 DEF Next

-----------------------------------------------------------------------------
(***************************************************************************)
(* Leader schedule and addresses                                           *)
(***************************************************************************)

\* The epochs of the slots that are produced.
Reached == 0..EpochOf(LastProduced)

ScheduleTypes == [buffer : Epochs \X Epochs, fail : BOOLEAN, epoch : Reached,
                  pc : {"sleep", "fetch"}, seen : Reached]

\* What the loops read and write is of epochs that were reached.
CacheInv ==
  /\ schedule \in ScheduleTypes
  /\ schedule.buffer \in Buffers
  /\ BufferContiguous
  /\ tpu_info \in Topologies \cup {NoInfo}
  /\ TpuInfoIsSnapshot

\* Two epochs in a row are a buffer.
LEMMA InARow ==
  ASSUME NEW e \in Reached
  PROVE  e \in Nat /\ <<e, e + 1>> \in Epochs \X Epochs /\ <<e, e + 1>> \in Buffers
<1>1. EpochOf(LastProduced) \in Nat
  BY SenderConstants, EpochHolds
<1>2. e \in Nat /\ e \in Epochs /\ e + 1 \in Epochs /\ e + 1 \in Nat
  BY <1>1 DEF Reached, Epochs
<1>3. <<e, e + 1>> \in Nat \X Nat /\ <<e, e + 1>>[2] = <<e, e + 1>>[1] + 1
  BY <1>2
<1> QED
  BY <1>2, <1>3 DEF Buffers

LEMMA RpcEpochsReached ==
  ASSUME tip \in Produced
  PROVE  RpcEpochs \subseteq Reached
<1>1. tip \in Nat /\ tip <= LastProduced /\ LastProduced \in Nat
  BY SenderConstants
<1>2. EpochOf(tip) \in Nat /\ EpochOf(LastProduced) \in Nat /\ EpochOf(tip) <= EpochOf(LastProduced)
  BY <1>1, EpochHolds, EpochMonotone
<1>3. EpochOf(tip) \in Reached /\ (EpochOf(tip) > 0 => EpochOf(tip) - 1 \in Reached)
  BY <1>2 DEF Reached
<1> QED
  BY <1>3 DEF RpcEpochs

\* The difference that is applied leads from any nodes to the new ones.
LEMMA DiffLeadsToNew ==
  ASSUME NEW current, NEW new \in Topologies
  PROVE  ApplyDiff(current, new, Diff(current, new)) = new
<1>1. PICK up : up = {l \in DOMAIN new : l \in DOMAIN current => current[l] # new[l]}
  OBVIOUS
<1>2. PICK rm : rm = DOMAIN current \ DOMAIN new
  OBVIOUS
<1>3. ApplyDiff(current, new, Diff(current, new))
        = [l \in (DOMAIN current \cup up) \ rm |-> IF l \in up THEN new[l] ELSE current[l]]
  BY <1>1, <1>2 DEF ApplyDiff, Diff
<1>4. (DOMAIN current \cup up) \ rm = DOMAIN new
  BY <1>1, <1>2
<1>5. \A l \in DOMAIN new : (IF l \in up THEN new[l] ELSE current[l]) = new[l]
  BY <1>1
<1>6. new = [l \in DOMAIN new |-> new[l]]
  BY SenderConstants
<1> QED
  BY <1>3, <1>4, <1>5, <1>6

LEMMA MarkedSchedule ==
  ASSUME NEW d, schedule \in ScheduleTypes, MarkOnDrop(d)
  PROVE  /\ schedule' \in ScheduleTypes
         /\ schedule'.buffer = schedule.buffer /\ schedule'.epoch = schedule.epoch
  BY DEF MarkOnDrop, ScheduleTypes

\* No step but the creation's makes a task exist, and none unmakes it.
LEMMA NoNewTask ==
  ASSUME LifeInv, [Next]_vars, ~Create, NEW d \in Tasks
  PROVE  task'[d] # "none" <=> task[d] # "none"
<1> USE DEF LifeInv
<1>1. CASE task' = task
  BY <1>1
<1>2. CASE task' = Aborted(task)
  BY <1>2 DEF Aborted
<1>3. ASSUME NEW e \in Tasks, TaskStops(e) \/ TaskCancelled(e) \/ TaskFails(e) \/ TaskEnds(e)
      PROVE  task'[d] # "none" <=> task[d] # "none"
  BY <1>3, DropsIs DEF Drops, TaskEnds
<1>4. ASSUME CreationFails \/ OverseerAborts \/ OverseerDropped
             \/ \E i \in 1..Len(Dependencies) : OverseerSelects(i)
      PROVE  task' = Aborted(task)
  BY <1>4 DEF CreationFails, OverseerAborts, OverseerSelects, OverseerDropped
<1>5. ASSUME Produce \/ Created \/ OverseerJoins \/ OverseerReturns \/ StoreClosed \/ StreamLost
             \/ StreamReconnected \/ ScheduleWakes \/ RefreshTpuInfo \/ DriverTakes \/ DriverEnds
      PROVE  task' = task
  BY <1>5 DEF Produce, Created, OverseerJoins, OverseerReturns, StoreClosed, StreamLost, StreamReconnected,
              ScheduleWakes, RefreshTpuInfo, DriverTakes, DriverEnds, trackerFrame, lifecycle
<1>6. ASSUME \/ \E slot \in Produced : SlotUpdate(slot)
             \/ \E ok \in BOOLEAN : ScheduleFetched(ok)
      PROVE  task' = task
  BY <1>6 DEF SlotUpdate, ScheduleFetched, trackerFrame, lifecycle
<1>7. ASSUME NEW s \in Senders,
             LoadClosed(s) \/ LoadSlot(s) \/ Lookup(s) \/ SendToLeader(s) \/ SendReturns(s) \/ DropSender(s)
      PROVE  task' = task
  BY <1>7 DEF LoadClosed, LoadSlot, Lookup, SendToLeader, SendReturns, DropSender, Return, Step, lifecycle
<1>8. CASE UNCHANGED vars
  BY <1>8 DEF vars
<1> QED
  BY <1>1, <1>2, <1>3, <1>4, <1>5, <1>6, <1>7, <1>8 DEF Next

\* A schedule that is fetched is of an epoch that was reached and of the next.
LEMMA FetchedSchedule ==
  ASSUME schedule \in ScheduleTypes, schedule.buffer = <<schedule.epoch, schedule.epoch + 1>>
  PROVE  /\ Fetched \in ScheduleTypes /\ Fetched.buffer \in Buffers
         /\ Fetched.buffer = <<Fetched.epoch, Fetched.epoch + 1>>
<1>1. PICK e \in Reached : e = schedule.epoch
  BY DEF ScheduleTypes
<1>2. PICK n \in Reached : n = schedule.seen
  BY DEF ScheduleTypes
<1>3. CASE n = e
  <2>1. Fetched = [schedule EXCEPT !.buffer[2] = e + 1]
    BY <1>1, <1>2, <1>3 DEF Fetched
  <2>2. Fetched.buffer = [<<e, e + 1>> EXCEPT ![2] = e + 1] /\ Fetched.epoch = e
    BY <1>1, <2>1 DEF ScheduleTypes
  <2>3. [<<e, e + 1>> EXCEPT ![2] = e + 1] = <<e, e + 1>>
    OBVIOUS
  <2>4. Fetched.buffer = <<e, e + 1>>
    BY <2>2, <2>3
  <2>5. Fetched = [schedule EXCEPT !.buffer = <<e, e + 1>>]
    BY <1>1, <2>1, <2>3 DEF ScheduleTypes
  <2>6. Fetched \in ScheduleTypes
    BY <2>5, InARow DEF ScheduleTypes
  <2> QED
    BY <2>2, <2>4, <2>6, InARow
<1>4. CASE n # e
  <2>1. Fetched = [schedule EXCEPT !.epoch = n, !.buffer = <<n, n + 1>>]
    BY <1>1, <1>2, <1>4 DEF Fetched
  <2>2. Fetched.buffer = <<n, n + 1>> /\ Fetched.epoch = n
    BY <2>1 DEF ScheduleTypes
  <2>3. Fetched \in ScheduleTypes
    BY <2>1, InARow DEF ScheduleTypes
  <2> QED
    BY <2>2, <2>3, InARow
<1> QED
  BY <1>3, <1>4

LEMMA CacheStep ==
  ASSUME LifeInv, TrackerInv, CacheInv, [Next]_vars
  PROVE  CacheInv'
<1>1. PICK LS, TI : LS = "managed-leader-schedule" /\ TI = "tpu-info-service" /\ LS \in Tasks /\ TI \in Tasks
                    /\ LS # TI
  BY TasksAre
<1>2. /\ schedule \in ScheduleTypes /\ schedule.buffer \in Buffers
      /\ task[LS] # "none" => schedule.buffer = <<schedule.epoch, schedule.epoch + 1>>
      /\ tpu_info \in Topologies \cup {NoInfo}
      /\ task[TI] # "none" => tpu_info \in Topologies
  BY <1>1 DEF CacheInv, BufferContiguous, TpuInfoIsSnapshot
<1>3. task \in [Tasks -> TaskStates] /\ tip \in Produced
  BY DEF LifeInv, TrackerInv
<1>4. SUFFICES
        /\ schedule' \in ScheduleTypes /\ schedule'.buffer \in Buffers
        /\ task'[LS] # "none" => schedule'.buffer = <<schedule'.epoch, schedule'.epoch + 1>>
        /\ tpu_info' \in Topologies \cup {NoInfo}
        /\ task'[TI] # "none" => tpu_info' \in Topologies
  BY <1>1, <1>4 DEF CacheInv, BufferContiguous, TpuInfoIsSnapshot
<1>5. CASE Create
  <2>1. PICK d \in Tasks : Fetches(d) /\ task' = [task EXCEPT ![d] = "running"]
    BY <1>5, CreateIs
  <2>2. CASE d = LS
    <3>1. PICK e \in RpcEpochs : schedule' = [schedule EXCEPT !.buffer = <<e, e + 1>>, !.epoch = e]
      BY <1>1, <2>1, <2>2 DEF Fetches
    <3>2. e \in Reached
      BY <1>3, RpcEpochsReached
    <3>3. schedule' \in ScheduleTypes
      BY <1>2, <3>1, <3>2, InARow DEF ScheduleTypes
    <3>4. schedule'.buffer = <<e, e + 1>> /\ schedule'.epoch = e
      BY <1>2, <3>1 DEF ScheduleTypes
    <3>5. tpu_info' = tpu_info /\ task'[TI] = task[TI]
      BY <1>1, <1>3, <2>1, <2>2 DEF Fetches
    <3> QED
      BY <1>2, <3>2, <3>3, <3>4, <3>5, InARow
  <2>3. CASE d = TI
    <3>1. tpu_info' \in Topologies
      BY <1>1, <2>1, <2>3 DEF Fetches
    <3>2. schedule' = schedule /\ task'[LS] = task[LS]
      BY <1>1, <1>3, <2>1, <2>3 DEF Fetches
    <3> QED
      BY <1>2, <3>1, <3>2
  <2>4. CASE d # LS /\ d # TI
    <3>1. schedule' = schedule /\ tpu_info' = tpu_info /\ task'[LS] = task[LS] /\ task'[TI] = task[TI]
      BY <1>1, <1>3, <2>1, <2>4 DEF Fetches
    <3> QED
      BY <1>2, <3>1
  <2> QED
    BY <2>2, <2>3, <2>4
<1>6. CASE ~Create
  <2>1. (task'[LS] # "none" => task[LS] # "none") /\ (task'[TI] # "none" => task[TI] # "none")
    BY <1>1, <1>6, NoNewTask
  <2>2. CASE UNCHANGED <<schedule, tpu_info>>
    BY <1>2, <2>1, <2>2
  <2>3. ASSUME NEW d \in Tasks, TaskStops(d) \/ TaskCancelled(d) \/ TaskFails(d)
        PROVE  /\ schedule' \in ScheduleTypes /\ tpu_info' = tpu_info
               /\ schedule'.buffer = schedule.buffer /\ schedule'.epoch = schedule.epoch
    <3>1. MarkOnDrop(d) /\ tpu_info' = tpu_info
      BY <2>3, DropsIs DEF Drops
    <3> QED
      BY <1>2, <3>1, MarkedSchedule
  <2>4. CASE ScheduleWakes
    <3>1. PICK e \in RpcEpochs : schedule' = [schedule EXCEPT !.pc = "fetch", !.seen = e]
      BY <2>4 DEF ScheduleWakes
    <3>2. e \in Reached
      BY <1>3, RpcEpochsReached
    <3>3. schedule' \in ScheduleTypes /\ schedule'.buffer = schedule.buffer /\ schedule'.epoch = schedule.epoch
      BY <1>2, <3>1, <3>2 DEF ScheduleTypes
    <3>4. tpu_info' = tpu_info
      BY <2>4 DEF ScheduleWakes
    <3> QED
      BY <1>2, <2>1, <3>3, <3>4
  <2>5. ASSUME NEW ok \in BOOLEAN, ScheduleFetched(ok)
        PROVE  /\ schedule' \in ScheduleTypes /\ schedule'.buffer \in Buffers
               /\ schedule'.buffer = <<schedule'.epoch, schedule'.epoch + 1>>
               /\ tpu_info' = tpu_info
    <3>1. schedule.buffer = <<schedule.epoch, schedule.epoch + 1>>
      BY <1>1, <1>2, <2>5 DEF ScheduleFetched, Runs
    <3>2. PICK new : new = IF ok THEN Fetched ELSE schedule
      OBVIOUS
    <3>3. new \in ScheduleTypes /\ new.buffer \in Buffers /\ new.buffer = <<new.epoch, new.epoch + 1>>
      BY <1>2, <3>1, <3>2, FetchedSchedule
    <3>4. schedule' = [new EXCEPT !.pc = "sleep", !.seen = 0] /\ tpu_info' = tpu_info
      BY <2>5, <3>2 DEF ScheduleFetched
    <3>5. 0 \in Reached
      BY SenderConstants, EpochHolds DEF Reached
    <3>6. schedule' \in ScheduleTypes /\ schedule'.buffer = new.buffer /\ schedule'.epoch = new.epoch
      BY <3>3, <3>4, <3>5 DEF ScheduleTypes
    <3> QED
      BY <3>3, <3>4, <3>6
  <2>6. CASE RefreshTpuInfo
    <3>1. PICK new \in Topologies : tpu_info' = ApplyDiff(tpu_info, new, Diff(tpu_info, new))
      BY <2>6 DEF RefreshTpuInfo
    <3>2. tpu_info' = new /\ schedule' = schedule
      BY <2>6, <3>1, DiffLeadsToNew DEF RefreshTpuInfo
    <3> QED
      BY <1>2, <2>1, <3>2
  <2>7. ASSUME \/ Produce \/ CreationFails \/ Created \/ OverseerAborts \/ OverseerJoins \/ OverseerReturns
               \/ OverseerDropped \/ (\E i \in 1..Len(Dependencies) : OverseerSelects(i))
               \/ (\E d \in Tasks : TaskEnds(d)) \/ StoreClosed \/ StreamLost \/ StreamReconnected \/ DriverTakes \/ DriverEnds
               \/ \E slot \in Produced : SlotUpdate(slot)
        PROVE  UNCHANGED <<schedule, tpu_info>>
    BY <2>7 DEF Produce, CreationFails, Created, OverseerAborts, OverseerSelects, OverseerJoins,
                OverseerReturns, OverseerDropped, TaskEnds, StoreClosed, StreamLost, StreamReconnected, DriverTakes, DriverEnds, SlotUpdate,
                services, trackerFrame
  <2>8. ASSUME NEW s \in Senders,
               LoadClosed(s) \/ LoadSlot(s) \/ Lookup(s) \/ SendToLeader(s) \/ SendReturns(s) \/ DropSender(s)
        PROVE  UNCHANGED <<schedule, tpu_info>>
    BY <2>8 DEF LoadClosed, LoadSlot, Lookup, SendToLeader, SendReturns, DropSender, Return, Step, services
  <2>9. CASE UNCHANGED vars
    BY <2>2, <2>9 DEF vars
  <2>10. CASE \E d \in Tasks : TaskStops(d) \/ TaskCancelled(d) \/ TaskFails(d)
    BY <1>2, <2>1, <2>3, <2>10
  <2>11. CASE \E ok \in BOOLEAN : ScheduleFetched(ok)
    BY <1>2, <2>1, <2>5, <2>11
  <2>12. CASE \E s \in Senders : \/ LoadClosed(s) \/ LoadSlot(s) \/ Lookup(s)
                                  \/ SendToLeader(s) \/ SendReturns(s) \/ DropSender(s)
    BY <2>2, <2>8, <2>12
  <2> QED
    BY <1>6, <2>2, <2>4, <2>6, <2>7, <2>9, <2>10, <2>11, <2>12 DEF Next
<1> QED
  BY <1>5, <1>6

\* What a task leaves behind when it is dropped stays: only a running task
\* publishes slots and schedules.
LEMMA MarkStep ==
  ASSUME LifeInv, TrackerInv, CacheInv, MarkInv, [Next]_vars
  PROVE  MarkInv'
<1>1. PICK LS, ST : LS = "managed-leader-schedule" /\ ST = "slot-tracker" /\ LS \in Tasks /\ ST \in Tasks
                    /\ LS # ST
  BY TasksAre
<1>2. /\ task[ST] = "none" => tracker.slot = 0
      /\ task[ST] \in {"dropped", "ended"} => tracker.closed
      /\ task[LS] \in {"dropped", "ended"} => schedule.fail
  BY <1>1 DEF MarkInv
<1>3. task \in [Tasks -> TaskStates] /\ tracker \in TrackerTypes /\ schedule \in ScheduleTypes
  BY DEF LifeInv, TrackerInv, CacheInv
<1>4. SUFFICES /\ task'[ST] = "none" => tracker'.slot = 0
               /\ task'[ST] \in {"dropped", "ended"} => tracker'.closed
               /\ task'[LS] \in {"dropped", "ended"} => schedule'.fail
  BY <1>1, <1>4 DEF MarkInv
<1>5. CASE Create
  <2>1. PICK d \in Tasks : Fetches(d) /\ task' = [task EXCEPT ![d] = "running"]
    BY <1>5, CreateIs
  <2>2. CASE d = ST
    <3>1. schedule' = schedule /\ task'[ST] = "running" /\ task'[LS] = task[LS]
      BY <1>1, <1>3, <2>1, <2>2 DEF Fetches
    <3> QED
      BY <1>2, <3>1
  <2>3. CASE d # ST
    <3>1. tracker' = tracker /\ task'[ST] = task[ST]
      BY <1>1, <1>3, <2>1, <2>3 DEF Fetches
    <3>2. task'[LS] \in {"dropped", "ended"} => d # LS /\ task'[LS] = task[LS]
      BY <1>1, <1>3, <2>1
    <3>3. d # LS => schedule' = schedule
      BY <1>1, <2>1 DEF Fetches
    <3> QED
      BY <1>2, <3>1, <3>2, <3>3
  <2> QED
    BY <2>2, <2>3
<1>6. CASE UNCHANGED <<tracker, schedule, task>>
  BY <1>2, <1>6
<1>7. CASE UNCHANGED <<tracker, schedule>> /\ task' = Aborted(task)
  <2>1. \A d \in Tasks : task'[d] = task[d] \/ task'[d] = "aborting"
    BY <1>7 DEF Aborted
  <2> QED
    BY <1>1, <1>2, <1>7, <2>1
<1>8. ASSUME NEW d \in Tasks, TaskEnds(d)
      PROVE  /\ task'[ST] = "none" => tracker'.slot = 0
             /\ task'[ST] \in {"dropped", "ended"} => tracker'.closed
             /\ task'[LS] \in {"dropped", "ended"} => schedule'.fail
  <2>1. task[d] = "dropped" /\ task' = [task EXCEPT ![d] = "ended"] /\ UNCHANGED <<tracker, schedule>>
    BY <1>8 DEF TaskEnds, services
  <2>2. \A e \in Tasks : task'[e] = task[e] \/ (task[e] = "dropped" /\ task'[e] = "ended")
    BY <1>3, <2>1
  <2> QED
    BY <1>1, <1>2, <2>1, <2>2
<1>9. ASSUME NEW d \in Tasks, TaskStops(d) \/ TaskCancelled(d) \/ TaskFails(d)
      PROVE  /\ task'[ST] = "none" => tracker'.slot = 0
             /\ task'[ST] \in {"dropped", "ended"} => tracker'.closed
             /\ task'[LS] \in {"dropped", "ended"} => schedule'.fail
  <2>1. Drops(d) /\ task[d] \in {"running", "aborting"}
    BY <1>9, DropsIs
  <2>2. PICK state \in {"dropped", "ended"} : task' = [task EXCEPT ![d] = state]
    BY <2>1 DEF Drops
  <2>3. tracker' = (IF d = ST THEN [tracker EXCEPT !.closed = TRUE] ELSE tracker)
        /\ schedule' = (IF d = LS THEN [schedule EXCEPT !.fail = TRUE] ELSE schedule)
    BY <1>1, <2>1 DEF Drops, MarkOnDrop
  <2>4. tracker'.slot = tracker.slot /\ (d = ST => tracker'.closed) /\ (d = LS => schedule'.fail)
    BY <1>3, <2>3 DEF TrackerTypes, ScheduleTypes
  <2>5. \A e \in Tasks : task'[e] = IF e = d THEN state ELSE task[e]
    BY <1>3, <2>2
  <2> QED
    BY <1>1, <1>2, <2>3, <2>4, <2>5
<1>10. ASSUME \/ \E slot \in Produced : SlotUpdate(slot)
              \/ StoreClosed \/ StreamLost \/ StreamReconnected
       PROVE  task' = task /\ schedule' = schedule /\ task[ST] \in {"running", "aborting"}
  BY <1>1, <1>10 DEF SlotUpdate, StoreClosed, StreamLost, StreamReconnected, trackerFrame, lifecycle, Runs
<1>11. ASSUME ScheduleWakes \/ \E ok \in BOOLEAN : ScheduleFetched(ok)
       PROVE  task' = task /\ tracker' = tracker /\ task[LS] \in {"running", "aborting"}
  BY <1>1, <1>11 DEF ScheduleWakes, ScheduleFetched, lifecycle, Runs
<1>12. ASSUME CreationFails \/ OverseerAborts \/ OverseerDropped
              \/ \E i \in 1..Len(Dependencies) : OverseerSelects(i)
       PROVE  UNCHANGED <<tracker, schedule>> /\ task' = Aborted(task)
  BY <1>12 DEF CreationFails, OverseerAborts, OverseerSelects, OverseerDropped, services
<1>13. ASSUME Produce \/ Created \/ OverseerJoins \/ OverseerReturns \/ RefreshTpuInfo \/ DriverTakes \/ DriverEnds
       PROVE  UNCHANGED <<tracker, schedule, task>>
  BY <1>13 DEF Produce, Created, OverseerJoins, OverseerReturns, RefreshTpuInfo, DriverTakes, DriverEnds,
               services, lifecycle
<1>14. ASSUME NEW s \in Senders,
              LoadClosed(s) \/ LoadSlot(s) \/ Lookup(s) \/ SendToLeader(s) \/ SendReturns(s) \/ DropSender(s)
       PROVE  UNCHANGED <<tracker, schedule, task>>
  BY <1>14 DEF LoadClosed, LoadSlot, Lookup, SendToLeader, SendReturns, DropSender, Return, Step, services,
               lifecycle
<1>15. CASE UNCHANGED vars
  BY <1>6, <1>15 DEF vars
<1>16. CASE \/ \E slot \in Produced : SlotUpdate(slot)
            \/ StoreClosed \/ StreamLost \/ StreamReconnected
  BY <1>2, <1>10, <1>16
<1>17. CASE ScheduleWakes \/ \E ok \in BOOLEAN : ScheduleFetched(ok)
  BY <1>2, <1>11, <1>17
<1> QED
  BY <1>5, <1>6, <1>7, <1>8, <1>9, <1>12, <1>13, <1>14, <1>15, <1>16, <1>17 DEF Next

-----------------------------------------------------------------------------
(***************************************************************************)
(* Calls                                                                   *)
(***************************************************************************)

\* A call knows what it did: it remembers an address, and that something was
\* sent, only when a copy is on the channel; the leaders it still has to send
\* to are other leaders of the window of its slot.
CallSound(c) ==
  /\ c.pc # "idle" => c.result = "none"
  /\ c.pc # "idle" => (c.sent_any <=> c.queued # {}) /\ (c.sent_addr # {} => c.queued # {})
  /\ c.pc \in {"slot", "leaders"} => c.queued = {}
  /\ c.result # "none" => (c.result = "ok" <=> c.queued # {})
  /\ c.pc = "sending" => /\ c.queued \cup ToSet(c.leaders) \subseteq Window(c.slot)
                         /\ c.queued \cap ToSet(c.leaders) = {}
                         /\ IsInjective(c.leaders)

CallInv ==
  /\ driver \in [up : BOOLEAN, channel : Seq(Leaders)]
  /\ send \in [Senders -> Call]
  /\ \A s \in Senders : CallSound(send[s])

\* A call that is over is sound when its result is.
LEMMA IdleSound ==
  ASSUME NEW n \in 0..MaxSends, NEW queued \in SUBSET Leaders, NEW result \in Errors \cup {"none", "ok"},
         result # "none" => (result = "ok" <=> queued # {})
  PROVE  Idle(n, queued, result) \in Call /\ CallSound(Idle(n, queued, result))
<1>1. PICK c : c = Idle(n, queued, result)
  OBVIOUS
<1>2. /\ c.pc = "idle" /\ c.queued = queued /\ c.result = result
  BY <1>1 DEF Idle
<1>3. <<>> \in Seq(Leaders) /\ 0 \in Produced \cup {0}
  OBVIOUS
<1>4. {} \in {{}} \cup {{a} : a \in UNION {Range(t) : t \in Topologies}}
  OBVIOUS
<1>5. c \in Call
  BY <1>1, <1>3, <1>4 DEF Call, Idle
<1> QED
  BY <1>1, <1>2, <1>5 DEF CallSound

\* The first of the leaders is not among the others.
LEMMA HeadOfInjective ==
  ASSUME NEW T, NEW q \in Seq(T), q # <<>>, IsInjective(q)
  PROVE  /\ Head(q) \in T /\ Tail(q) \in Seq(T)
         /\ ToSet(q) = {Head(q)} \cup ToSet(Tail(q))
         /\ Head(q) \notin ToSet(Tail(q))
         /\ IsInjective(Tail(q))
<1>1. PICK n \in Nat : n = Len(q) /\ n > 0 /\ DOMAIN q = 1..n
  BY EmptySeq, LenProperties
<1>2. Head(q) = q[1] /\ Head(q) \in T /\ Tail(q) \in Seq(T) /\ Len(Tail(q)) = n - 1
  BY <1>1, HeadTailProperties
<1>3. DOMAIN Tail(q) = 1..(n - 1) /\ \A i \in 1..(n - 1) : Tail(q)[i] = q[i + 1]
  BY <1>1, <1>2, HeadTailProperties, LenProperties
<1>4. \A i, j \in 1..n : q[i] = q[j] => i = j
  BY <1>1 DEF IsInjective
<1>5. ASSUME NEW x \in ToSet(q)
      PROVE  x \in {Head(q)} \cup ToSet(Tail(q))
  <2>1. PICK i \in 1..n : x = q[i]
    BY <1>1 DEF ToSet
  <2>2. CASE i = 1
    BY <1>2, <2>1, <2>2
  <2>3. CASE i # 1
    <3>1. i - 1 \in 1..(n - 1) /\ (i - 1) + 1 = i
      BY <2>3
    <3>2. x = Tail(q)[i - 1]
      BY <1>3, <2>1, <3>1
    <3> QED
      BY <1>3, <3>1, <3>2 DEF ToSet
  <2> QED
    BY <2>2, <2>3
<1>6. ASSUME NEW x \in ToSet(Tail(q))
      PROVE  x \in ToSet(q) /\ x # Head(q)
  <2>1. PICK i \in 1..(n - 1) : x = q[i + 1]
    BY <1>3 DEF ToSet
  <2>2. i + 1 \in 1..n /\ 1 \in 1..n /\ i + 1 # 1
    BY <1>1
  <2>3. x \in ToSet(q)
    BY <1>1, <2>1, <2>2 DEF ToSet
  <2> QED
    BY <1>2, <1>4, <2>1, <2>2, <2>3
<1>7. Head(q) \in ToSet(q)
  <2>1. 1 \in DOMAIN q
    BY <1>1
  <2> QED
    BY <1>2, <2>1 DEF ToSet
<1>8. IsInjective(Tail(q))
  <2>1. ASSUME NEW i \in 1..(n - 1), NEW j \in 1..(n - 1), Tail(q)[i] = Tail(q)[j]
        PROVE  i = j
    <3>1. i + 1 \in 1..n /\ j + 1 \in 1..n /\ q[i + 1] = q[j + 1]
      BY <1>3, <2>1
    <3>2. i + 1 = j + 1
      BY <1>4, <3>1
    <3> QED
      BY <3>2
  <2> QED
    BY <1>3, <2>1 DEF IsInjective
<1>9. ToSet(q) = {Head(q)} \cup ToSet(Tail(q))
  BY <1>5, <1>6, <1>7
<1> QED
  BY <1>2, <1>6, <1>8, <1>9

\* The address of a leader is one of the addresses of the cluster's nodes.
LEMMA DestAddrType ==
  ASSUME tpu_info \in Topologies \cup {NoInfo}, NEW l
  PROVE  DestAddr(l) \in {{}} \cup {{a} : a \in UNION {Range(t) : t \in Topologies}}
<1>1. CASE l \in DOMAIN tpu_info
  <2>1. tpu_info \in Topologies
    BY <1>1 DEF NoInfo
  <2>2. tpu_info[l] \in Range(tpu_info)
    BY <1>1 DEF Range
  <2> QED
    BY <1>1, <2>1, <2>2 DEF DestAddr
<1>2. CASE l \notin DOMAIN tpu_info
  BY <1>2 DEF DestAddr
<1> QED
  BY <1>1, <1>2

\* A step of one call, when the call stays sound.
LEMMA StepSound ==
  ASSUME CallInv, NEW s \in Senders, NEW c \in Call, CallSound(c), Step(s, c),
         driver' \in [up : BOOLEAN, channel : Seq(Leaders)]
  PROVE  CallInv'
<1>1. send \in [Senders -> Call] /\ send' = [send EXCEPT ![s] = c] /\ \A r \in Senders : CallSound(send[r])
  BY DEF CallInv, Step
<1>2. send' \in [Senders -> Call]
  BY <1>1
<1>3. ASSUME NEW r \in Senders
      PROVE  CallSound(send'[r])
  BY <1>1
<1> QED
  BY <1>2, <1>3 DEF CallInv, CallSound

LEMMA LoadClosedSound ==
  ASSUME CallInv, NEW s \in Senders, LoadClosed(s)
  PROVE  CallInv'
<1>1. send[s] \in Call /\ driver' = driver /\ driver \in [up : BOOLEAN, channel : Seq(Leaders)]
  BY DEF CallInv, LoadClosed
<1>2. PICK n \in 0..MaxSends : n = send[s].n + 1
  <2>1. send[s].n \in 0..MaxSends /\ send[s].n < MaxSends
    BY <1>1 DEF Call, LoadClosed
  <2>2. MaxSends \in Nat
    BY SenderConstants
  <2>3. send[s].n + 1 \in 0..MaxSends
    BY <2>1, <2>2
  <2> QED
    BY <2>3
<1>3. CASE tracker.closed
  <2>1. Step(s, Idle(n, {}, "SlotTrackerDisconnected"))
    BY <1>2, <1>3 DEF LoadClosed
  <2>2. Idle(n, {}, "SlotTrackerDisconnected") \in Call /\ CallSound(Idle(n, {}, "SlotTrackerDisconnected"))
    BY IdleSound DEF Errors
  <2> QED
    BY <1>1, <2>1, <2>2, StepSound
<1>4. CASE ~tracker.closed
  <2>1. PICK c : c = [Idle(n, {}, "none") EXCEPT !.pc = "slot"]
    OBVIOUS
  <2>2. Step(s, c)
    BY <1>2, <1>4, <2>1 DEF LoadClosed
  <2>3. Idle(n, {}, "none") \in Call
    BY IdleSound
  <2>4. c \in Call
    BY <2>1, <2>3 DEF Call
  <2>5. c.pc = "slot" /\ c.queued = {} /\ ~c.sent_any /\ c.sent_addr = {} /\ c.result = "none"
    BY <2>1 DEF Idle
  <2>6. CallSound(c)
    BY <2>5 DEF CallSound
  <2> QED
    BY <1>1, <2>2, <2>4, <2>6, StepSound
<1> QED
  BY <1>3, <1>4

LEMMA LoadSlotSound ==
  ASSUME TrackerInv, CallInv, NEW s \in Senders, LoadSlot(s)
  PROVE  CallInv'
<1>1. send[s] \in Call /\ CallSound(send[s]) /\ driver' = driver
      /\ driver \in [up : BOOLEAN, channel : Seq(Leaders)]
  BY DEF CallInv, LoadSlot
<1>2. tracker.slot \in Produced \cup {0}
  BY DEF TrackerInv, TrackerTypes
<1>3. PICK c : c = [send[s] EXCEPT !.pc = "leaders", !.slot = tracker.slot]
  OBVIOUS
<1>4. c \in Call
  BY <1>1, <1>2, <1>3 DEF Call
<1>5. /\ c.pc = "leaders" /\ c.queued = send[s].queued /\ c.sent_any = send[s].sent_any
      /\ c.sent_addr = send[s].sent_addr /\ c.result = send[s].result
  BY <1>1, <1>3 DEF Call
<1>6. send[s].pc = "slot" /\ Step(s, c)
  BY <1>3 DEF LoadSlot
<1>7. CallSound(c)
  BY <1>1, <1>5, <1>6 DEF CallSound
<1> QED
  BY <1>1, <1>4, <1>6, <1>7, StepSound

\* A call ends with what it has put on the channel.
LEMMA ReturnSound ==
  ASSUME CallInv, NEW s \in Senders, NEW result \in Errors \cup {"none", "ok"}, Return(s, result),
         result # "none" => (result = "ok" <=> send[s].queued # {}), UNCHANGED driver
  PROVE  CallInv'
<1>1. send[s] \in Call /\ driver' \in [up : BOOLEAN, channel : Seq(Leaders)]
  BY DEF CallInv
<1>2. PICK n \in 0..MaxSends, queued \in SUBSET Leaders : n = send[s].n /\ queued = send[s].queued
  BY <1>1 DEF Call
<1>3. Step(s, Idle(n, queued, result))
  BY <1>2 DEF Return
<1>4. Idle(n, queued, result) \in Call /\ CallSound(Idle(n, queued, result))
  BY <1>2, IdleSound
<1> QED
  BY <1>1, <1>3, <1>4, StepSound

LEMMA LookupSound ==
  ASSUME CacheInv, CallInv, NEW s \in Senders, Lookup(s)
  PROVE  CallInv'
<1>1. send[s] \in Call /\ CallSound(send[s]) /\ driver' = driver
      /\ driver \in [up : BOOLEAN, channel : Seq(Leaders)] /\ send[s].pc = "leaders"
  BY DEF CallInv, Lookup
<1>2. send[s].queued = {} /\ send[s].result = "none" /\ ~send[s].sent_any /\ send[s].sent_addr = {}
  BY <1>1 DEF CallSound, Call
<1>3. PICK slot \in Produced \cup {0} : slot = send[s].slot
  BY <1>1 DEF Call
<1>4. slot \in Starts
  BY SenderConstants DEF Starts
<1>5. PICK leaders : leaders = UniqueLeaders(schedule.buffer, slot)
  OBVIOUS
<1>6. leaders \in Seq(Window(slot)) /\ leaders \in Seq(Leaders) /\ IsInjective(leaders)
  BY <1>4, <1>5, UniqueLeadersInWindow DEF CacheInv
<1>7. CASE schedule.fail
  <2>1. Return(s, "ManagedLeaderScheduleDisconnected")
    BY <1>7 DEF Lookup
  <2> QED
    BY <1>1, <1>2, <2>1, ReturnSound DEF Errors
<1>8. CASE ~schedule.fail /\ leaders = <<>>
  <2>1. Return(s, "UnknownLeader")
    BY <1>3, <1>5, <1>8 DEF Lookup, SlotLoaded
  <2> QED
    BY <1>1, <1>2, <2>1, ReturnSound DEF Errors
<1>9. CASE ~schedule.fail /\ leaders # <<>>
  <2>0. PICK dedupe \in BOOLEAN : dedupe = (Len(leaders) > 1)
    <3>1. Len(leaders) \in Nat
      BY <1>6
    <3>2. (Len(leaders) > 1) \in BOOLEAN
      BY <3>1
    <3> QED
      BY <3>2
  <2>1. PICK c : c = [send[s] EXCEPT !.pc = "sending", !.leaders = leaders, !.dedupe = dedupe]
    OBVIOUS
  <2>2. Step(s, c)
    BY <1>3, <1>5, <1>9, <2>0, <2>1 DEF Lookup, SlotLoaded
  <2>3. c \in Call
    BY <1>1, <1>6, <2>1 DEF Call
  <2>4. /\ c.pc = "sending" /\ c.leaders = leaders /\ c.slot = slot /\ c.queued = {}
        /\ c.result = "none" /\ ~c.sent_any /\ c.sent_addr = {}
    BY <1>1, <1>2, <1>3, <2>1 DEF Call
  <2>5. ToSet(leaders) \subseteq Window(slot)
    BY <1>6 DEF ToSet
  <2>6. CallSound(c)
    BY <1>6, <2>4, <2>5 DEF CallSound
  <2> QED
    BY <1>1, <2>2, <2>3, <2>6, StepSound
<1> QED
  BY <1>7, <1>8, <1>9

\* What a call that offers a copy to a leader becomes.
Sent(call, leader, addr, res, offered) ==
  [call EXCEPT
     !.leaders = Tail(@),
     !.sent_addr = Remembered(call, addr, res),
     !.sent_any = @ \/ res = "ok",
     !.error = IF @ = "none" /\ res # "ok" THEN res ELSE @,
     !.queued = IF offered THEN @ \cup {leader} ELSE @]

LEMMA SendToLeaderSound ==
  ASSUME CacheInv, CallInv, NEW s \in Senders, SendToLeader(s)
  PROVE  CallInv'
<1>1. PICK call \in Call : call = send[s] /\ CallSound(call)
  BY DEF CallInv
<1>2. call.pc = "sending" /\ call.leaders \in Seq(Leaders) /\ call.leaders # <<>> /\ IsInjective(call.leaders)
      /\ call.queued \cup ToSet(call.leaders) \subseteq Window(call.slot)
      /\ call.queued \cap ToSet(call.leaders) = {} /\ call.result = "none"
      /\ (call.sent_any <=> call.queued # {}) /\ (call.sent_addr # {} => call.queued # {})
  BY <1>1 DEF SendToLeader, CallSound, Call
<1>3. PICK leader \in Leaders : leader = Head(call.leaders)
  BY <1>2, HeadOfInjective
<1>4. PICK rest \in Seq(Leaders) : rest = Tail(call.leaders) /\ IsInjective(rest)
        /\ ToSet(call.leaders) = {leader} \cup ToSet(rest) /\ leader \notin ToSet(rest)
  BY <1>2, <1>3, HeadOfInjective
<1>5. PICK addr \in {{}} \cup {{a} : a \in UNION {Range(t) : t \in Topologies}} :
        addr = IF call.dedupe THEN DestAddr(leader) ELSE {}
  BY DestAddrType DEF CacheInv
<1>6. PICK served \in BOOLEAN : served = (addr # {} /\ addr = call.sent_addr)
  OBVIOUS
<1>7. PICK res \in {"ok", "Full", "Closed"} : res = IF served THEN "ok" ELSE TrySend
  BY DEF TrySend
<1>8. PICK offered \in BOOLEAN : offered = (res = "ok" /\ ~served)
  OBVIOUS
<1>9. PICK c : c = Sent(call, leader, addr, res, offered)
  OBVIOUS
<1>10. Step(s, c) /\ driver' = IF offered THEN [driver EXCEPT !.channel = Append(@, leader)] ELSE driver
  BY <1>1, <1>3, <1>5, <1>6, <1>7, <1>8, <1>9 DEF SendToLeader, Sent
<1>11. driver' \in [up : BOOLEAN, channel : Seq(Leaders)]
  <2>1. driver \in [up : BOOLEAN, channel : Seq(Leaders)]
    BY DEF CallInv
  <2>2. Append(driver.channel, leader) \in Seq(Leaders)
    BY <2>1
  <2> QED
    BY <1>10, <2>1, <2>2
<1>12. PICK any \in BOOLEAN, queued \in SUBSET Leaders, error \in Errors \cup {"none"},
            sent_addr \in {{}} \cup {{a} : a \in UNION {Range(t) : t \in Topologies}} :
         /\ any = (call.sent_any \/ res = "ok")
         /\ queued = IF offered THEN call.queued \cup {leader} ELSE call.queued
         /\ error = IF call.error = "none" /\ res # "ok" THEN res ELSE call.error
         /\ sent_addr = Remembered(call, addr, res)
  <2>1. (call.sent_any \/ res = "ok") \in BOOLEAN
    OBVIOUS
  <2>2. (IF offered THEN call.queued \cup {leader} ELSE call.queued) \in SUBSET Leaders
    BY DEF Call
  <2>3. (IF call.error = "none" /\ res # "ok" THEN res ELSE call.error) \in Errors \cup {"none"}
    BY DEF Call, Errors
  <2>4. Remembered(call, addr, res) \in {{}} \cup {{a} : a \in UNION {Range(t) : t \in Topologies}}
    BY DEF Call, Remembered
  <2> QED
    BY <2>1, <2>2, <2>3, <2>4
<1>13. c = [call EXCEPT !.leaders = rest, !.sent_addr = sent_addr, !.sent_any = any,
                        !.error = error, !.queued = queued]
  BY <1>4, <1>9, <1>12 DEF Sent, Call
<1>14. c \in Call
  BY <1>13 DEF Call
<1>15. /\ c.pc = "sending" /\ c.leaders = rest /\ c.slot = call.slot /\ c.queued = queued
       /\ c.result = "none" /\ c.sent_any = any /\ c.sent_addr = sent_addr
  BY <1>2, <1>13 DEF Call
<1>16. any <=> queued # {}
  <2>1. CASE offered
    BY <1>8, <1>12, <2>1
  <2>2. CASE ~offered
    <3>1. res = "ok" => served
      BY <1>8, <2>2
    <3>2. served => call.queued # {}
      BY <1>2, <1>6
    <3>3. queued = call.queued
      BY <1>12, <2>2
    <3> QED
      BY <1>2, <1>12, <3>1, <3>2, <3>3
  <2> QED
    BY <2>1, <2>2
<1>17. sent_addr # {} => queued # {}
  <2>1. sent_addr = call.sent_addr \/ res = "ok"
    BY <1>12 DEF Remembered
  <2>2. call.queued # {} => queued # {}
    BY <1>12
  <2>3. res = "ok" => any
    BY <1>12
  <2> QED
    BY <1>2, <1>16, <2>1, <2>2, <2>3
<1>18. queued \cup ToSet(rest) \subseteq Window(call.slot) /\ queued \cap ToSet(rest) = {}
  <2>1. queued \subseteq call.queued \cup {leader}
    BY <1>12
  <2> QED
    BY <1>2, <1>4, <2>1
<1>19. CallSound(c)
  BY <1>4, <1>15, <1>16, <1>17, <1>18 DEF CallSound
<1> QED
  BY <1>10, <1>11, <1>14, <1>19, StepSound

LEMMA SendReturnsSound ==
  ASSUME CallInv, NEW s \in Senders, SendReturns(s)
  PROVE  CallInv'
<1>1. send[s] \in Call /\ CallSound(send[s]) /\ UNCHANGED driver /\ send[s].pc = "sending"
  BY DEF CallInv, SendReturns
<1>2. PICK result \in Errors \cup {"none", "ok"} : result = IF send[s].sent_any THEN "ok" ELSE send[s].error
  <2>1. send[s].error \in Errors \cup {"none"}
    BY <1>1 DEF Call
  <2> QED
    BY <2>1
<1>3. Return(s, result)
  BY <1>2 DEF SendReturns
<1>4. send[s].error # "ok" /\ (send[s].sent_any <=> send[s].queued # {})
  BY <1>1 DEF Call, CallSound, Errors
<1>5. result # "none" => (result = "ok" <=> send[s].queued # {})
  BY <1>2, <1>4
<1> QED
  BY <1>1, <1>3, <1>5, ReturnSound

LEMMA CallStep ==
  ASSUME TrackerInv, CacheInv, CallInv, [Next]_vars
  PROVE  CallInv'
<1>1. driver \in [up : BOOLEAN, channel : Seq(Leaders)] /\ send \in [Senders -> Call]
      /\ \A s \in Senders : CallSound(send[s])
  BY DEF CallInv
<1>2. ASSUME send' = send, driver' \in [up : BOOLEAN, channel : Seq(Leaders)]
      PROVE  CallInv'
  BY <1>1, <1>2 DEF CallInv
<1>3. CASE Created \/ DriverEnds
  <2>1. PICK up \in BOOLEAN : driver' = [up |-> up, channel |-> <<>>]
    BY <1>3 DEF Created, DriverEnds
  <2>2. <<>> \in Seq(Leaders)
    OBVIOUS
  <2>3. send' = send
    BY <1>3 DEF Created, DriverEnds
  <2> QED
    BY <1>2, <2>1, <2>2, <2>3
<1>4. CASE DriverTakes
  <2>1. driver' = [driver EXCEPT !.channel = Tail(driver.channel)] /\ driver.channel # <<>> /\ send' = send
    BY <1>1, <1>4 DEF DriverTakes
  <2>2. Tail(driver.channel) \in Seq(Leaders)
    BY <1>1, <2>1
  <2> QED
    BY <1>1, <1>2, <2>1, <2>2
<1>5. ASSUME NEW s \in Senders,
             LoadClosed(s) \/ LoadSlot(s) \/ Lookup(s) \/ SendToLeader(s) \/ SendReturns(s)
      PROVE  CallInv'
  BY <1>5, LoadClosedSound, LoadSlotSound, LookupSound, SendToLeaderSound, SendReturnsSound
<1>6. ASSUME \/ Produce \/ Create \/ CreationFails \/ OverseerAborts \/ OverseerJoins \/ OverseerReturns
             \/ OverseerDropped \/ (\E i \in 1..Len(Dependencies) : OverseerSelects(i))
             \/ StoreClosed \/ StreamLost \/ StreamReconnected \/ RefreshTpuInfo
             \/ \E slot \in Produced : SlotUpdate(slot)
      PROVE  UNCHANGED <<driver, send>>
  BY <1>6 DEF Produce, Create, CreationFails, OverseerAborts, OverseerSelects, OverseerJoins,
              OverseerReturns, OverseerDropped,
              StoreClosed, StreamLost, StreamReconnected, RefreshTpuInfo, SlotUpdate, trackerFrame
<1>7. ASSUME \/ ScheduleWakes
             \/ \E ok \in BOOLEAN : ScheduleFetched(ok)
             \/ \E d \in Tasks : TaskStops(d) \/ TaskCancelled(d) \/ TaskFails(d) \/ TaskEnds(d)
             \/ \E s \in Senders : DropSender(s)
      PROVE  UNCHANGED <<driver, send>>
  BY <1>7, DropsIs DEF ScheduleWakes, ScheduleFetched, Drops, TaskEnds, DropSender
<1>8. CASE UNCHANGED <<driver, send>>
  BY <1>1, <1>2, <1>8
<1>9. CASE UNCHANGED vars
  BY <1>8, <1>9 DEF vars
<1> QED
  BY <1>3, <1>4, <1>5, <1>6, <1>7, <1>8, <1>9 DEF Next

-----------------------------------------------------------------------------
(***************************************************************************)
(* The inductive invariant, and what follows                               *)
(***************************************************************************)

SenderInv == LifeInv /\ TrackerInv /\ CacheInv /\ MarkInv /\ CallInv

LEMMA SenderInit ==
  ASSUME Init
  PROVE  SenderInv
<1>1. LifeInv
  <2>1. 0 \in 0..MaxFaults
    BY SenderConstants
  <2> QED
    BY <2>1 DEF Init, LifeInv, OverseerTypes, HandlesAwaited, TaskStates
<1>2. TrackerInv
  <2>1. PICK m \in Produced : \A n \in Produced : m <= n
    BY SenderConstants, LeastNumber
  <2>2. tip \in Produced
    BY <2>1 DEF Init
  <2>3. tip \in Nat
    BY <2>2, SenderConstants
  <2> QED
    BY <2>2, <2>3 DEF Init, TrackerInv, TrackerTypes
<1>3. CacheInv
  <2>1. EpochOf(LastProduced) \in Nat
    BY SenderConstants, EpochHolds
  <2>2. 0 \in Reached /\ 0 \in Epochs
    BY <2>1 DEF Reached, Epochs
  <2>3. <<0, 0>> \in Epochs \X Epochs /\ <<0, 0>> \in Buffers
    BY <2>2 DEF Buffers
  <2>4. schedule \in ScheduleTypes /\ schedule.buffer \in Buffers
    BY <2>2, <2>3 DEF Init, ScheduleTypes
  <2>5. task["managed-leader-schedule"] = "none" /\ task["tpu-info-service"] = "none"
    BY TasksAre DEF Init
  <2> QED
    BY <2>4, <2>5 DEF Init, CacheInv, BufferContiguous, TpuInfoIsSnapshot
<1>5. MarkInv
  BY TasksAre DEF Init, MarkInv
<1>4. CallInv
  <2>1. 0 \in 0..MaxSends
    BY SenderConstants
  <2>2. Idle(0, {}, "none") \in Call /\ CallSound(Idle(0, {}, "none"))
    BY <2>1, IdleSound
  <2>3. <<>> \in Seq(Leaders)
    OBVIOUS
  <2> QED
    BY <2>2, <2>3 DEF Init, CallInv
<1> QED
  BY <1>1, <1>2, <1>3, <1>4, <1>5 DEF SenderInv

\* The inductive invariant holds in every behaviour of the sender, its tasks
\* and their overseer.
THEOREM SenderInvariant == Spec => []SenderInv
<1>1. SenderInv /\ [Next]_vars => SenderInv'
  BY LifeStep, TrackerStep, CacheStep, MarkStep, CallStep DEF SenderInv
<1> QED
  BY <1>1, SenderInit, PTL DEF Spec

\* Whatever changes while a call of send_txn_fanout runs, its result says
\* whether a copy is on the driver's channel, and its copies are for leaders of
\* the window of the slot it loaded, one for each at most.
THEOREM CallsStaySound == Spec => []CallsAreSound
<1>1. SenderInv => CallsAreSound
  BY DEF SenderInv, CallInv, CallSound, CallsAreSound, ResultIsTruthful, CopiesWithinWindow
<1> QED
  BY <1>1, SenderInvariant, PTL

\* The double buffer holds an epoch and the next, and the addresses are those
\* of one answer of getClusterNodes (auto_leader_schedule_loop,
\* cluster_info_refresh_loop), whichever requests fail.
THEOREM CachesStayConsistent == Spec => []CachesConsistent
<1>1. SenderInv => CachesConsistent
  <2> SUFFICES ASSUME SenderInv PROVE CachesConsistent
    OBVIOUS
  <2>1. LifeInv /\ TrackerInv /\ CacheInv /\ CallInv
    BY DEF SenderInv
  <2>2. EpochOf(LastProduced) \in Nat
    BY SenderConstants, EpochHolds
  <2>3. Reached \subseteq Epochs
    BY <2>2 DEF Reached, Epochs
  <2>4. schedule \in [buffer : Epochs \X Epochs, fail : BOOLEAN, epoch : Epochs,
                      pc : {"sleep", "fetch"}, seen : Epochs]
    BY <2>1, <2>3 DEF CacheInv, ScheduleTypes
  <2>5. TypeOK
    BY <2>1, <2>4 DEF TypeOK, LifeInv, OverseerTypes, TrackerInv, TrackerTypes, CacheInv, CallInv
  <2> QED
    BY <2>1, <2>5 DEF CachesConsistent, CacheInv
<1> QED
  BY <1>1, SenderInvariant, PTL

\* A send covers the window of slots up to its last group, and the predictions
\* cover the send when the driver looks far enough ahead, for every number of
\* slots per epoch, every fanout and every slot
\* (get_unique_leaders_for_slot_fanout, try_predict_next_n_leaders).
THEOREM WindowIsCovered == Spec => []WindowCovered
<1>1. SenderInv => WindowCovered
  <2> SUFFICES ASSUME SenderInv PROVE WindowCovered
    OBVIOUS
  <2>1. PICK slot \in Produced \cup {0} : slot = tracker.slot
    BY DEF SenderInv, TrackerInv, TrackerTypes
  <2>2. slot \in Starts
    BY SenderConstants DEF Starts
  <2>3. PICK b \in Buffers : b = schedule.buffer
    BY DEF SenderInv, CacheInv
  <2>4. ToSet(b) = {b[1], b[2]}
    <3>1. b \in Nat \X Nat
      BY DEF Buffers
    <3>2. DOMAIN b = {1, 2}
      BY <3>1
    <3> QED
      BY <3>2 DEF ToSet
  <2>5. WindowMissesOnlyLastGroup
    BY <2>1, <2>2, <2>3, <2>4, WindowSampled DEF WindowMissesOnlyLastGroup, WindowKnown
  <2>6. PredictionCoversFanout
    <3>1. Lookahead \in Nat
      BY SenderAssumption
    <3> QED
      BY <2>1, <2>2, <2>3, <3>1, PredictionCovers DEF PredictionCoversFanout
  <2> QED
    BY <2>5, <2>6 DEF WindowCovered
<1> QED
  BY <1>1, SenderInvariant, PTL

\* Once the overseer has returned, no slot, schedule or address is written any
\* more and no call gets a slot or leaders (yellowstone_tpu_deps_overseer_inner
\* with the drop guards of the tasks it joins).
THEOREM CleanupIsBarrier == Spec => CleanupBarrier
<1>1. ASSUME SenderInv, Next, overseer.pc = "returned"
      PROVE  /\ services' = services
             /\ \A s \in Senders : send'[s].pc \in {"slot", "sending"} => send'[s].pc = send[s].pc
  <2>1. \A d \in Tasks : task[d] = "ended"
    BY <1>1 DEF SenderInv, LifeInv, HandlesAwaited
  <2>2. tracker.closed /\ schedule.fail
    BY <1>1, <2>1, TasksAre DEF SenderInv, MarkInv
  <2>3. creation = "done" /\ send \in [Senders -> Call]
    BY <1>1 DEF SenderInv, LifeInv, CallInv
  <2>4. ~Create /\ ~CreationFails /\ ~Created
    BY <2>3 DEF Create, CreationFails, Created, Awaits
  <2>5. ~OverseerAborts /\ ~OverseerJoins /\ ~OverseerReturns /\ ~OverseerDropped
        /\ ~\E i \in 1..Len(Dependencies) : OverseerSelects(i)
    BY <1>1 DEF OverseerAborts, OverseerSelects, OverseerJoins, OverseerReturns, OverseerDropped
  <2>6. ~\E d \in Tasks : TaskStops(d) \/ TaskCancelled(d) \/ TaskFails(d) \/ TaskEnds(d)
    BY <2>1 DEF TaskStops, TaskCancelled, TaskFails, TaskEnds
  <2>7. ~(StoreClosed \/ StreamLost \/ StreamReconnected \/ \E slot \in Produced : SlotUpdate(slot))
    BY <2>1, TasksAre DEF StoreClosed, StreamLost, StreamReconnected, SlotUpdate, Runs
  <2>8. ~(ScheduleWakes \/ RefreshTpuInfo \/ \E ok \in BOOLEAN : ScheduleFetched(ok))
    BY <2>1, TasksAre DEF ScheduleWakes, ScheduleFetched, RefreshTpuInfo, Runs
  <2>9. CASE Produce \/ DriverTakes \/ DriverEnds \/ \E s \in Senders : DropSender(s)
    <3>1. UNCHANGED <<services, send>>
      BY <2>9 DEF Produce, DriverTakes, DriverEnds, DropSender
    <3> QED
      BY <3>1
  <2>10. ASSUME NEW s \in Senders, NEW call, Step(s, call), call.pc = "idle" \/ call.pc = "leaders"
                                                            \/ call.pc = send[s].pc
         PROVE  /\ services' = services
                /\ \A r \in Senders : send'[r].pc \in {"slot", "sending"} => send'[r].pc = send[r].pc
    <3>1. services' = services /\ send' = [send EXCEPT ![s] = call]
      BY <2>10 DEF Step
    <3> QED
      BY <2>3, <2>10, <3>1
  <2>11. \A n, queued, result : Idle(n, queued, result).pc = "idle"
    BY DEF Idle
  <2>12. ASSUME NEW s \in Senders,
                LoadClosed(s) \/ LoadSlot(s) \/ Lookup(s) \/ SendToLeader(s) \/ SendReturns(s)
         PROVE  /\ services' = services
                /\ \A r \in Senders : send'[r].pc \in {"slot", "sending"} => send'[r].pc = send[r].pc
    <3>0. send[s] \in Call
      BY <2>3
    <3>1. CASE LoadClosed(s)
      <4>1. Step(s, Idle(send[s].n + 1, {}, "SlotTrackerDisconnected"))
        BY <2>2, <3>1 DEF LoadClosed
      <4> QED
        BY <2>10, <2>11, <4>1
    <3>2. CASE LoadSlot(s)
      <4>1. PICK call : call = [send[s] EXCEPT !.pc = "leaders", !.slot = tracker.slot]
        OBVIOUS
      <4>2. Step(s, call) /\ call.pc = "leaders"
        BY <3>0, <3>2, <4>1 DEF LoadSlot, Call
      <4> QED
        BY <2>10, <4>2
    <3>3. CASE Lookup(s)
      <4>1. Step(s, Idle(send[s].n, send[s].queued, "ManagedLeaderScheduleDisconnected"))
        BY <2>2, <3>3 DEF Lookup, Return
      <4> QED
        BY <2>10, <2>11, <4>1
    <3>4. CASE SendToLeader(s)
      <4>1. PICK leader, addr, res, offered, call :
              call = Sent(send[s], leader, addr, res, offered) /\ Step(s, call)
        BY <3>4 DEF SendToLeader, Sent
      <4>2. call.pc = send[s].pc
        BY <3>0, <4>1 DEF Sent, Call
      <4> QED
        BY <2>10, <4>1, <4>2
    <3>5. CASE SendReturns(s)
      <4>1. PICK result : Step(s, Idle(send[s].n, send[s].queued, result))
        BY <3>5 DEF SendReturns, Return
      <4> QED
        BY <2>10, <2>11, <4>1
    <3> QED
      BY <2>12, <3>1, <3>2, <3>3, <3>4, <3>5
  <2> QED
    BY <1>1, <2>4, <2>5, <2>6, <2>7, <2>8, <2>9, <2>12 DEF Next
<1>2. SenderInv /\ [Next]_vars =>
        [overseer.pc = "returned" =>
           /\ services' = services
           /\ \A s \in Senders : send'[s].pc \in {"slot", "sending"} => send'[s].pc = send[s].pc]_vars
  BY <1>1
<1> QED
  BY <1>2, SenderInvariant, PTL DEF Spec, CleanupBarrier

\* The slot that senders load never goes back, whatever updates are late or
\* repeated and however often the stream is replaced
\* (process_slot_tracker_stream).
THEOREM SlotIsMonotone == Spec => SlotNeverGoesBack
<1>1. SenderInv /\ [Next]_vars => [tracker'.slot >= tracker.slot]_tracker
  BY TrackerStep DEF SenderInv
<1> QED
  BY <1>1, SenderInvariant, PTL DEF Spec, SlotNeverGoesBack
=============================================================================
