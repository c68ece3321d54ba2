-------------------------- MODULE TpuDriverProofs --------------------------
(***************************************************************************)
(* Proofs about TpuDriver: the tables of the event loop agree with each    *)
(* other, whatever peers share, leave and change addresses, attempts,      *)
(* evictions, orphans, panics and identity updates do to them, and one     *)
(* barrier update is in flight at most.                                    *)
(***************************************************************************)
EXTENDS TpuDriver, SequenceTheorems, FiniteSetTheorems, WellFoundedInduction, TLAPS

-----------------------------------------------------------------------------
(***************************************************************************)
(* Numbers                                                                 *)
(***************************************************************************)

\* A set of naturals has a least element.
LEMMA LeastNumber ==
  ASSUME NEW T \in SUBSET Nat, T # {}
  PROVE  \E m \in T : \A k \in T : m <= k
<1> DEFINE R == OpToRel(<, Nat)
<1>1. IsWellFoundedOn(R, Nat)
  BY NatLessThanWellFounded
<1> HIDE DEF R
<1>2. PICK x \in T : \A y \in T : ~(<<y, x>> \in R)
  BY <1>1, WFMin
<1>3. \A y \in T : ~(y < x)
  BY <1>2 DEF R, OpToRel
<1> QED
  BY <1>3

\* Induction up to a bound, for a set of the numbers that satisfy what is proved.
LEMMA BoundedInduction ==
  ASSUME NEW N \in Nat, NEW Reached, 0 \in Reached,
         \A n \in 0..(N - 1) : n \in Reached => n + 1 \in Reached
  PROVE  \A n \in 0..N : n \in Reached
<1>1. PICK T : T = {n \in 0..N : n \notin Reached}
  OBVIOUS
<1>2. CASE T = {}
  BY <1>1, <1>2
<1>3. CASE T # {}
  <2>1. T \in SUBSET Nat
    BY <1>1
  <2>2. PICK m \in T : \A k \in T : m <= k
    BY <1>3, <2>1, LeastNumber
  <2>3. m \in 0..N /\ m \notin Reached /\ m # 0
    BY <1>1, <2>2
  <2>4. m - 1 \in 0..(N - 1) /\ m - 1 \in 0..N
    BY <2>3
  <2>5. m - 1 \notin T
    BY <2>2, <2>3, <2>4
  <2>6. m - 1 \in Reached
    BY <1>1, <2>4, <2>5
  <2>7. (m - 1) + 1 \in Reached
    BY <2>4, <2>6
  <2> QED
    BY <2>3, <2>7
<1> QED
  BY <1>2, <1>3

\* A finite set of naturals has a greatest element.
LEMMA GreatestNumber ==
  ASSUME NEW S \in SUBSET Nat, IsFiniteSet(S), S # {}
  PROVE  \E m \in S : \A k \in S : k <= m
<1>1. PICK N \in Nat : N = Cardinality(S)
  BY FS_CardinalityType
<1>2. IsFiniteSet(1..N) /\ Cardinality(1..N) = N
  BY FS_Interval
<1>3. PICK f \in [1..N -> S] : \A x \in S : \E i \in 1..N : f[i] = x
  <2>1. ExistsBijection(1..N, S)
    BY <1>1, <1>2, FS_SameCardinalityBij
  <2>2. PICK f : f \in Surjection(1..N, S)
    BY <2>1 DEF ExistsBijection, Bijection
  <2> QED
    BY <2>2 DEF Surjection
<1>4. PICK a : a \in S
  OBVIOUS
<1>5. PICK Reached : Reached = {n \in 0..N : \E m \in S : \A i \in 1..n : f[i] <= m}
  OBVIOUS
<1>6. 0 \in Reached
  <2>1. \A i \in 1..0 : f[i] <= a
    OBVIOUS
  <2> QED
    BY <1>4, <1>5, <2>1
<1>7. ASSUME NEW n \in 0..(N - 1), n \in Reached
      PROVE  n + 1 \in Reached
  <2>1. PICK m \in S : \A i \in 1..n : f[i] <= m
    BY <1>5, <1>7
  <2>2. n + 1 \in 1..N /\ n + 1 \in 0..N
    OBVIOUS
  <2>3. PICK b \in S : b = f[n + 1]
    BY <2>2
  <2>4. CASE b <= m
    <3>1. \A i \in 1..(n + 1) : f[i] <= m
      BY <2>1, <2>3, <2>4
    <3> QED
      BY <1>5, <2>2, <3>1
  <2>5. CASE ~(b <= m)
    <3>1. ASSUME NEW i \in 1..(n + 1)
          PROVE  f[i] <= b
      <4>1. i \in 1..N /\ f[i] \in Nat /\ b \in Nat /\ m \in Nat
        <5>1. i \in 1..N
          OBVIOUS
        <5>2. f[i] \in S
          BY <5>1
        <5> QED
          BY <5>1, <5>2
      <4>2. CASE i = n + 1
        BY <4>1, <4>2, <2>3
      <4>3. CASE i # n + 1
        <5>1. i \in 1..n
          BY <4>3
        <5> QED
          BY <5>1, <4>1, <2>1, <2>5
      <4> QED
        BY <4>2, <4>3
    <3> QED
      BY <1>5, <2>2, <2>3, <3>1
  <2> QED
    BY <2>4, <2>5
<1>8. N \in Reached
  <2>1. \A n \in 0..(N - 1) : n \in Reached => n + 1 \in Reached
    BY <1>7
  <2>2. \A n \in 0..N : n \in Reached
    BY <1>6, <2>1, BoundedInduction
  <2> QED
    BY <2>2
<1>9. PICK m \in S : \A i \in 1..N : f[i] <= m
  BY <1>5, <1>8
<1> QED
  BY <1>3, <1>9

\* The last number of a set of numbers up to n.
LEMMA MaxOfNumbers ==
  ASSUME NEW n \in Nat, NEW s \in SUBSET (1..n), s # {}
  PROVE  Max(s) \in s /\ \A k \in s : k <= Max(s)
<1>1. IsFiniteSet(1..n) /\ s \subseteq Nat
  BY FS_Interval
<1>2. IsFiniteSet(s)
  BY <1>1, FS_Subset
<1>3. PICK m \in s : \A k \in s : k <= m
  BY <1>1, <1>2, GreatestNumber
<1>4. \A k \in s : m >= k
  BY <1>1, <1>3
<1>5. Max(s) \in s /\ \A k \in s : Max(s) >= k
  BY <1>4 DEF Max
<1> QED
  BY <1>1, <1>5

-----------------------------------------------------------------------------
(***************************************************************************)
(* FoldLeft.  The function MapThenFoldSet recurs with exists, and what     *)
(* FoldLeft returns is found by induction on the prefixes.                 *)
(***************************************************************************)

\* iter satisfies the recursion of a left fold over 1..n, where act says what
\* the element at each position makes of a value.
Folds(iter, base, act, n) ==
  \A s \in SUBSET (1..n) :
    iter[s] = IF s = {} THEN base ELSE act[Max(s)][iter[s \ {Max(s)}]]

\* The function a left fold recurs with exists.
LEMMA FoldExists ==
  ASSUME NEW N \in Nat, NEW V, NEW base \in V, NEW act \in [1..N -> [V -> V]]
  PROVE  \E iter \in [SUBSET (1..N) -> V] : Folds(iter, base, act, N)
<1>1. PICK Reached : Reached = {n \in 0..N : \E iter \in [SUBSET (1..n) -> V] : Folds(iter, base, act, n)}
  OBVIOUS
<1>2. 0 \in Reached
  <2>1. PICK iter : iter = [s \in SUBSET (1..0) |-> base]
    OBVIOUS
  <2>2. iter \in [SUBSET (1..0) -> V]
    BY <2>1
  <2>3. \A s \in SUBSET (1..0) : s = {}
    OBVIOUS
  <2>4. Folds(iter, base, act, 0)
    BY <2>1, <2>3 DEF Folds
  <2>5. 0 \in 0..N
    OBVIOUS
  <2> QED
    BY <1>1, <2>2, <2>4, <2>5
<1>3. ASSUME NEW n \in 0..(N - 1), n \in Reached
      PROVE  n + 1 \in Reached
  <2>1. PICK old \in [SUBSET (1..n) -> V] : Folds(old, base, act, n)
    BY <1>1, <1>3
  <2>2. n + 1 \in 1..N /\ n + 1 \in 0..N
    OBVIOUS
  <2>3. PICK new : new = [s \in SUBSET (1..(n + 1)) |->
                           IF n + 1 \in s THEN act[n + 1][old[s \ {n + 1}]] ELSE old[s]]
    OBVIOUS
  <2>4. ASSUME NEW s \in SUBSET (1..(n + 1))
        PROVE  /\ s \ {n + 1} \in SUBSET (1..n)
               /\ n + 1 \notin s => s \in SUBSET (1..n)
               /\ n + 1 \in s => Max(s) = n + 1
    <3>1. s \ {n + 1} \in SUBSET (1..n)
      BY 1..(n + 1) = (1..n) \cup {n + 1}
    <3>2. n + 1 \notin s => s \in SUBSET (1..n)
      BY 1..(n + 1) = (1..n) \cup {n + 1}
    <3>3. ASSUME n + 1 \in s PROVE Max(s) = n + 1
      <4>1. n + 1 \in Nat /\ s # {}
        BY <3>3
      <4>2. Max(s) \in s /\ \A k \in s : k <= Max(s)
        BY <4>1, MaxOfNumbers
      <4>3. Max(s) \in 1..(n + 1) /\ n + 1 <= Max(s)
        BY <3>3, <4>2
      <4> QED
        BY <4>3
    <3> QED
      BY <3>1, <3>2, <3>3
  <2>5. new \in [SUBSET (1..(n + 1)) -> V]
    <3>1. ASSUME NEW s \in SUBSET (1..(n + 1))
          PROVE  (IF n + 1 \in s THEN act[n + 1][old[s \ {n + 1}]] ELSE old[s]) \in V
      <4>1. old[s \ {n + 1}] \in V /\ (n + 1 \notin s => old[s] \in V)
        BY <2>4
      <4> QED
        BY <2>2, <4>1
    <3> QED
      BY <2>3, <3>1
  <2>6. \A s \in SUBSET (1..n) : s \in SUBSET (1..(n + 1)) /\ n + 1 \notin s /\ new[s] = old[s]
    <3> TAKE s \in SUBSET (1..n)
    <3>1. s \in SUBSET (1..(n + 1)) /\ n + 1 \notin s
      BY 1..(n + 1) = (1..n) \cup {n + 1}
    <3> QED
      BY <2>3, <3>1
  <2>7. ASSUME NEW s \in SUBSET (1..(n + 1))
        PROVE  new[s] = IF s = {} THEN base ELSE act[Max(s)][new[s \ {Max(s)}]]
    <3>1. CASE n + 1 \in s
      <4>1. new[s] = act[n + 1][old[s \ {n + 1}]]
        BY <2>3, <3>1
      <4>2. new[s \ {n + 1}] = old[s \ {n + 1}]
        BY <2>4, <2>6
      <4> QED
        BY <3>1, <4>1, <4>2, <2>4
    <3>2. CASE n + 1 \notin s
      <4>1. s \in SUBSET (1..n) /\ new[s] = old[s]
        BY <2>4, <2>6, <3>2
      <4>2. s \ {Max(s)} \in SUBSET (1..n)
        BY <4>1
      <4>3. new[s \ {Max(s)}] = old[s \ {Max(s)}]
        BY <2>6, <4>2
      <4> QED
        BY <2>1, <4>1, <4>3 DEF Folds
    <3> QED
      BY <3>1, <3>2
  <2>8. Folds(new, base, act, n + 1)
    BY <2>7 DEF Folds
  <2> QED
    BY <1>1, <2>2, <2>5, <2>8
<1>4. N \in Reached
  <2>1. \A n \in 0..(N - 1) : n \in Reached => n + 1 \in Reached
    BY <1>3
  <2>2. \A n \in 0..N : n \in Reached
    BY <1>2, <2>1, BoundedInduction
  <2> QED
    BY <2>2
<1> QED
  BY <1>1, <1>4

\* The prefixes of 1..n.
LEMMA Initial ==
  ASSUME NEW n \in Nat, n # 0
  PROVE  /\ 1..n # {} /\ Max(1..n) = n
         /\ (1..n) \ {n} = 1..(n - 1)
<1>1. 1..n \in SUBSET (1..n) /\ 1..n # {} /\ n \in 1..n
  <2>1. n \in 1..n
    OBVIOUS
  <2>2. 1..n \in SUBSET (1..n)
    OBVIOUS
  <2> QED
    BY <2>1, <2>2, Zenon
<1>2. Max(1..n) \in 1..n /\ n <= Max(1..n)
  BY <1>1, MaxOfNumbers
<1>3. Max(1..n) = n
  BY <1>2
<1>4. (1..n) \ {n} = 1..(n - 1)
  OBVIOUS
<1> QED
  BY <1>1, <1>3, <1>4

-----------------------------------------------------------------------------
(***************************************************************************)
(* The invariant: of the record of the loop, between and inside handlers   *)
(***************************************************************************)

\* A handle is on the connection now at its address, which knows of it.
Linked(s) ==
  \A p \in Peers : HasWorker(s, p) =>
    /\ s.handle[p].addr \in Addrs
    /\ s.conns[s.handle[p].addr].version = s.handle[p].version
    /\ p \in s.conns[s.handle[p].addr].peers

\* A connection that is not in the map has neither version nor peers.
Mapped(s) ==
  \A a \in Addrs : IF s.conns[a].st = "none" THEN s.conns[a] = NoConnection
                   ELSE s.conns[a].version # 0

\* A connection without peers is an orphan, or among those just being handled.
UnusedKnown(s, handled) ==
  \A a \in Addrs : s.conns[a].st # "none" /\ s.conns[a].peers = {} =>
    <<a, s.conns[a].version>> \in ToSet(s.orphans) \cup handled

\* The table of a connection names its workers, and workers of gh, which panicked.
Worked(s, gh) ==
  \A a \in Addrs : \A p \in s.conns[a].peers :
    \/ s.handle[p].addr = a /\ s.handle[p].version = s.conns[a].version
    \/ <<a, s.conns[a].version, p>> \in gh

PendingUsed(s) ==
  \A e \in s.pending : s.conns[e[1]].version = e[2] /\ s.conns[e[1]].peers # {}

\* A peer is dialled once, at an address without connection, while it has no
\* worker.
Dials(s) ==
  /\ \A a \in Addrs : s.connecting[a].st = "none" <=> s.connecting[a].peers = <<>>
  /\ \A a \in Addrs : s.connecting[a].st # "none" => s.conns[a].st = "none"
  /\ \A a \in Addrs, p \in Peers : p \in ToSet(s.connecting[a].peers) =>
       /\ ~HasWorker(s, p)
       /\ \A b \in Addrs : p \in ToSet(s.connecting[b].peers) => a = b

Waits(s) ==
  /\ IsInjective(s.blocked)
  /\ \A a \in Addrs : a \in ToSet(s.blocked) <=> s.connecting[a].st = "waiting"

Signalled(s, p) == s.worker[p][s.identity].cancel \/ s.worker[p][s.identity].st # "running"

\* A peer under eviction stands in the table of a connection, so that it has no
\* unsignalled worker unless it is left behind there.
Evictions(s) ==
  \A p \in s.evicting :
    /\ \E a \in Addrs : p \in s.conns[a].peers
    /\ HasWorker(s, p) /\ ~LeftBehind(s, p) => Signalled(s, p)

\* The tables agree; id is the identity, which only update_identity changes, gh the
\* workers that panicked on their connection.
Good(s, id, gh, handled) ==
  /\ s \in Driver /\ s.identity = id
  /\ Linked(s) /\ Mapped(s) /\ Worked(s, gh) /\ UnusedKnown(s, handled) /\ PendingUsed(s)
  /\ Dials(s) /\ Waits(s) /\ Evictions(s)

\* A barrier command is the last of its queue; while it is there, and while the
\* loop (at stage st) waits at the barrier with its queue empty, and only then, the
\* permit is held.
Barriers(q, held, st) ==
  /\ \A i \in DOMAIN q : q[i] = "barrier" => i = Len(q)
  /\ st = "barrier" => held /\ q = <<>>
  /\ (\E i \in DOMAIN q : q[i] = "barrier") => held
  /\ held => st = "barrier" \/ \E i \in DOMAIN q : q[i] = "barrier"

\* The command channel and the permit.
CommandInv ==
  /\ cnc \in Seq({"update", "barrier"}) /\ in_flight \in BOOLEAN
  /\ stage # "stopped" => drv.identity + Len(cnc) <= MaxIdentity
  /\ Barriers(cnc, in_flight, stage)

DriverInv ==
  /\ Good(drv, drv.identity, ghosts, {})
  /\ stage \in {"evict", "predict", "select", "barrier", "stopped"}
  /\ respawn \in [Addrs -> Connecting]
  /\ tpu_addr \in [Peers -> Addrs \cup {NoAddr}]
  /\ faults \in 0..MaxFaults
  /\ ghosts \in SUBSET Ghost
  /\ submitted \in SUBSET Txs
  /\ CommandInv

\* What the proofs use of the assumption on the constants.
LEMMA DriverConstants ==
  /\ IsFiniteSet(Peers) /\ IsFiniteSet(Addrs) /\ NoAddr \notin Addrs
  /\ InitAddr \in [Peers -> Addrs \cup {NoAddr}] /\ RemotePeer \in [Txs -> Peers]
  /\ MaxConnectionAttempts \in Nat \ {0} /\ MaxSendAttempt \in Nat \ {0} /\ ChannelCapacity \in Nat \ {0}
  /\ Predictable \subseteq Peers /\ MaxIdentity \in Nat /\ MaxVersion \in Nat /\ MaxFaults \in Nat
  BY DriverAssumption

\* The fields of the loop's record.
LEMMA Fields ==
  ASSUME NEW s \in Driver
  PROVE  /\ s.identity \in Identities /\ s.tx_queues \in [Peers -> Seq(Entry)]
         /\ s.left \in [Peers -> [Identities -> Seq(Entry)]]
         /\ s.connecting \in [Addrs -> Connecting] /\ s.blocked \in Seq(Addrs)
         /\ s.handle \in [Peers -> Handle] /\ s.worker \in [Peers -> [Identities -> Worker]]
         /\ s.conns \in [Addrs -> Connection] /\ s.version \in 0..MaxVersion
         /\ s.pending \in SUBSET Versioned /\ s.evicting \in SUBSET Peers
         /\ s.orphans \in Seq(Versioned) /\ s.recent \in SUBSET Peers
         /\ s.response \in [Txs -> Seq(Outcomes)]
  BY DEF Driver

-----------------------------------------------------------------------------
(***************************************************************************)
(* What leaves the tables alone: queues and answers                        *)
(***************************************************************************)

SameTables(s, r) ==
  /\ r.identity = s.identity /\ r.connecting = s.connecting /\ r.blocked = s.blocked
  /\ r.handle = s.handle /\ r.worker = s.worker /\ r.conns = s.conns /\ r.version = s.version
  /\ r.pending = s.pending /\ r.evicting = s.evicting /\ r.orphans = s.orphans

\* Good speaks of the tables only, not of queues and answers.
LEMMA TablesKept ==
  ASSUME NEW id, NEW gh, NEW handled, NEW s, Good(s, id, gh, handled), NEW r \in Driver, SameTables(s, r)
  PROVE  Good(r, id, gh, handled)
<1>1. Linked(r)
  BY DEF Good, SameTables, Linked, HasWorker
<1>2. Mapped(r) /\ Worked(r, gh) /\ UnusedKnown(r, handled) /\ PendingUsed(r)
  BY DEF Good, SameTables, Mapped, Worked, UnusedKnown, PendingUsed
<1>3. Dials(r)
  BY DEF Good, SameTables, Dials, HasWorker
<1>4. Waits(r)
  BY DEF Good, SameTables, Waits
<1>5. Evictions(r)
  BY DEF Good, SameTables, Evictions, HasWorker, LeftBehind, Signalled
<1> QED
  BY <1>1, <1>2, <1>3, <1>4, <1>5 DEF Good, SameTables

\* Answering, dropping and queueing leave the tables alone.
LEMMA AnswerKeeps ==
  ASSUME NEW s \in Driver, NEW T, NEW o \in Outcomes
  PROVE  /\ Answer(s, T, o) \in Driver
         /\ SameTables(s, Answer(s, T, o))
         /\ Answer(s, T, o).tx_queues = s.tx_queues
<1>1. PICK new : new = [t \in Txs |-> IF t \in T THEN Append(s.response[t], o) ELSE s.response[t]]
  OBVIOUS
<1>2. new \in [Txs -> Seq(Outcomes)]
  <2>1. s.response \in [Txs -> Seq(Outcomes)]
    BY Fields
  <2>2. ASSUME NEW t \in Txs
        PROVE  s.response[t] \in Seq(Outcomes) /\ Append(s.response[t], o) \in Seq(Outcomes)
    BY <2>1, AppendProperties
  <2> QED
    BY <1>1, <2>2
<1>3. Answer(s, T, o) = [s EXCEPT !.response = new]
  BY <1>1 DEF Answer, Driver
<1> QED
  BY <1>2, <1>3 DEF Driver, SameTables

LEMMA DropPeerQueuedTxKeeps ==
  ASSUME NEW s \in Driver, NEW p \in Peers, NEW o \in Outcomes
  PROVE  /\ DropPeerQueuedTx(s, p, o) \in Driver
         /\ SameTables(s, DropPeerQueuedTx(s, p, o))
<1>1. PICK r : r = Answer(s, TxsOf(s.tx_queues[p]), o)
  OBVIOUS
<1>2. r \in Driver /\ SameTables(s, r) /\ r.tx_queues = s.tx_queues
  BY <1>1, AnswerKeeps
<1>3. PICK new : new = [r.tx_queues EXCEPT ![p] = <<>>]
  OBVIOUS
<1>4. new \in [Peers -> Seq(Entry)]
  <2>1. <<>> \in Seq(Entry) /\ r.tx_queues \in [Peers -> Seq(Entry)]
    BY <1>2, Fields
  <2> QED
    BY <1>3, <2>1
<1>5. DropPeerQueuedTx(s, p, o) = [r EXCEPT !.tx_queues = new]
  BY <1>1, <1>2, <1>3 DEF DropPeerQueuedTx, Driver
<1> QED
  BY <1>2, <1>4, <1>5 DEF Driver, SameTables

LEMMA UnreachablePeerKeeps ==
  ASSUME NEW s \in Driver, NEW p \in Peers
  PROVE  UnreachablePeer(s, p) \in Driver /\ SameTables(s, UnreachablePeer(s, p))
<1>1. "RemotePeerUnreachable" \in Outcomes
  BY DEF Outcomes
<1> QED
  BY <1>1, DropPeerQueuedTxKeeps DEF UnreachablePeer

LEMMA QueueTxOrDropKeeps ==
  ASSUME NEW s \in Driver, NEW p \in Peers, NEW entry \in Entry
  PROVE  QueueTxOrDrop(s, p, entry) \in Driver /\ SameTables(s, QueueTxOrDrop(s, p, entry))
<1>1. CASE QueueIsFull(s, p)
  <2>1. "RateLimited" \in Outcomes
    BY DEF Outcomes
  <2> QED
    BY <1>1, <2>1, AnswerKeeps DEF QueueTxOrDrop
<1>2. CASE ~QueueIsFull(s, p)
  <2>1. PICK new : new = [s.tx_queues EXCEPT ![p] = Append(s.tx_queues[p], entry)]
    OBVIOUS
  <2>2. new \in [Peers -> Seq(Entry)]
    <3>1. s.tx_queues \in [Peers -> Seq(Entry)]
      BY Fields
    <3>2. Append(s.tx_queues[p], entry) \in Seq(Entry)
      BY <3>1, AppendProperties
    <3> QED
      BY <2>1, <3>1, <3>2
  <2>3. QueueTxOrDrop(s, p, entry) = [s EXCEPT !.tx_queues = new]
    BY <1>2, <2>1 DEF QueueTxOrDrop, Driver
  <2> QED
    BY <2>2, <2>3 DEF Driver, SameTables
<1> QED
  BY <1>1, <1>2

-----------------------------------------------------------------------------
(***************************************************************************)
(* Sequences                                                               *)
(***************************************************************************)

\* The members of a sequence are what its positions hold.
LEMMA SeqMembers ==
  ASSUME NEW S, NEW q \in Seq(S)
  PROVE  /\ Len(q) \in Nat /\ DOMAIN q = 1..Len(q) /\ ToSet(q) \in SUBSET S
         /\ \A x : x \in ToSet(q) <=> \E i \in 1..Len(q) : q[i] = x
<1>1. Len(q) \in Nat /\ DOMAIN q = 1..Len(q) /\ \A i \in 1..Len(q) : q[i] \in S
  BY LenProperties, ElementOfSeq
<1> QED
  BY <1>1 DEF ToSet

\* The empty sequence.
LEMMA EmptyMembers ==
  /\ ToSet(<<>>) = {} /\ IsInjective(<<>>)
  /\ \A S : <<>> \in Seq(S)
<1>1. DOMAIN <<>> = {}
  OBVIOUS
<1>2. \A S : <<>> \in Seq(S)
  BY EmptySeq
<1> QED
  BY <1>1, <1>2 DEF ToSet, IsInjective

\* Appending adds a member; a new one keeps the sequence without repetition.
LEMMA AppendMembers ==
  ASSUME NEW S, NEW q \in Seq(S), NEW x \in S
  PROVE  /\ Append(q, x) \in Seq(S) /\ Append(q, x) # <<>>
         /\ ToSet(Append(q, x)) = ToSet(q) \cup {x}
         /\ IsInjective(q) /\ x \notin ToSet(q) => IsInjective(Append(q, x))
<1>1. PICK n \in Nat : n = Len(q) /\ DOMAIN q = 1..n
  BY LenProperties
<1>2. PICK r : r = Append(q, x)
  OBVIOUS
<1>3. /\ r \in Seq(S) /\ r # <<>> /\ Len(r) = n + 1
      /\ \A i \in 1..n : r[i] = q[i]
      /\ r[n + 1] = x
  BY <1>1, <1>2, AppendProperties
<1>4. DOMAIN r = 1..(n + 1)
  BY <1>3, LenProperties
<1>5. ToSet(r) = ToSet(q) \cup {x}
  <2>1. ASSUME NEW y \in ToSet(r) PROVE y \in ToSet(q) \cup {x}
    <3>1. PICK i \in 1..(n + 1) : r[i] = y
      BY <1>4, <2>1 DEF ToSet
    <3>2. CASE i = n + 1
      BY <1>3, <3>1, <3>2
    <3>3. CASE i # n + 1
      <4>1. i \in 1..n
        BY <3>3
      <4> QED
        BY <1>1, <1>3, <3>1, <4>1 DEF ToSet
    <3> QED
      BY <3>2, <3>3
  <2>2. ASSUME NEW y \in ToSet(q) PROVE y \in ToSet(r)
    <3>1. PICK i \in 1..n : q[i] = y
      BY <1>1, <2>2 DEF ToSet
    <3>2. i \in 1..(n + 1) /\ r[i] = y
      BY <1>3, <3>1
    <3> QED
      BY <1>4, <3>2 DEF ToSet
  <2>3. x \in ToSet(r)
    <3>1. n + 1 \in 1..(n + 1)
      OBVIOUS
    <3> QED
      BY <1>3, <1>4, <3>1 DEF ToSet
  <2> QED
    BY <2>1, <2>2, <2>3
<1>6. ASSUME IsInjective(q), x \notin ToSet(q) PROVE IsInjective(r)
  <2>1. \A i \in 1..n : q[i] # x
    BY <1>1, <1>6 DEF ToSet
  <2>2. ASSUME NEW i \in 1..(n + 1), NEW j \in 1..(n + 1), r[i] = r[j] PROVE i = j
    <3>1. CASE i \in 1..n /\ j \in 1..n
      BY <1>1, <1>3, <1>6, <2>2, <3>1 DEF IsInjective
    <3>2. CASE i = n + 1 /\ j \in 1..n
      BY <1>3, <2>1, <2>2, <3>2
    <3>3. CASE i \in 1..n /\ j = n + 1
      BY <1>3, <2>1, <2>2, <3>3
    <3>4. i \in 1..n \/ i = n + 1
      OBVIOUS
    <3>5. j \in 1..n \/ j = n + 1
      OBVIOUS
    <3> QED
      BY <3>1, <3>2, <3>3, <3>4, <3>5
  <2> QED
    BY <1>4, <2>2 DEF IsInjective
<1> QED
  BY <1>2, <1>3, <1>5, <1>6

\* The head leaves a sequence without repetitions.
LEMMA TailMembers ==
  ASSUME NEW S, NEW q \in Seq(S), q # <<>>, IsInjective(q)
  PROVE  /\ Tail(q) \in Seq(S) /\ Head(q) \in ToSet(q) /\ IsInjective(Tail(q))
         /\ ToSet(Tail(q)) = ToSet(q) \ {Head(q)}
<1>1. PICK n \in Nat : n = Len(q) /\ DOMAIN q = 1..n /\ n # 0
  BY LenProperties, EmptySeq
<1>2. PICK r : r = Tail(q)
  OBVIOUS
<1>3. /\ r \in Seq(S) /\ Len(r) = n - 1
      /\ \A i \in 1..(n - 1) : r[i] = q[i + 1]
  BY <1>1, <1>2, HeadTailProperties
<1>4. DOMAIN r = 1..(n - 1)
  BY <1>3, LenProperties
<1>5. Head(q) = q[1] /\ 1 \in 1..n
  BY <1>1
<1>6. ASSUME NEW i \in 1..(n - 1) PROVE i + 1 \in 1..n /\ i + 1 # 1
  OBVIOUS
<1>7. ToSet(r) = ToSet(q) \ {q[1]}
  <2>1. ASSUME NEW y \in ToSet(r) PROVE y \in ToSet(q) /\ y # q[1]
    <3>1. PICK i \in 1..(n - 1) : r[i] = y
      BY <1>4, <2>1 DEF ToSet
    <3>2. q[i + 1] = y /\ i + 1 \in 1..n /\ i + 1 # 1
      BY <1>3, <1>6, <3>1
    <3> QED
      BY <1>1, <1>5, <3>2 DEF ToSet, IsInjective
  <2>2. ASSUME NEW y \in ToSet(q), y # q[1] PROVE y \in ToSet(r)
    <3>1. PICK i \in 1..n : q[i] = y
      BY <1>1, <2>2 DEF ToSet
    <3>2. i # 1
      BY <2>2, <3>1
    <3>3. i - 1 \in 1..(n - 1) /\ (i - 1) + 1 = i
      BY <3>2
    <3>4. r[i - 1] = y
      BY <1>3, <3>1, <3>3
    <3> QED
      BY <1>4, <3>3, <3>4 DEF ToSet
  <2> QED
    BY <2>1, <2>2
<1>8. IsInjective(r)
  <2>1. ASSUME NEW i \in 1..(n - 1), NEW j \in 1..(n - 1), r[i] = r[j] PROVE i = j
    <3>1. i + 1 \in 1..n /\ j + 1 \in 1..n /\ q[i + 1] = q[j + 1]
      BY <1>3, <1>6, <2>1
    <3>2. i + 1 = j + 1
      BY <1>1, <3>1 DEF IsInjective
    <3> QED
      BY <3>2
  <2> QED
    BY <1>4, <2>1 DEF IsInjective
<1>9. q[1] \in ToSet(q)
  BY <1>1, <1>5 DEF ToSet
<1> QED
  BY <1>2, <1>3, <1>5, <1>7, <1>8, <1>9

\* RemoveFirst takes at most the element it is told to.
LEMMA RemoveFirstKeeps ==
  ASSUME NEW S, NEW q \in Seq(S), NEW e
  PROVE  /\ RemoveFirst(q, e) \in Seq(S)
         /\ \A x \in ToSet(q) : x # e => x \in ToSet(RemoveFirst(q, e))
<1>1. PICK n \in Nat : n = Len(q) /\ DOMAIN q = 1..n /\ \A i \in 1..n : q[i] \in S
  BY LenProperties, ElementOfSeq
<1>2. CASE ~\E i \in 1..Len(q) : q[i] = e
  BY <1>2 DEF RemoveFirst
<1>3. CASE \E i \in 1..Len(q) : q[i] = e
  <2>1. PICK I : I = {i \in 1..n : q[i] = e}
    OBVIOUS
  <2>2. I # {} /\ I \in SUBSET Nat
    BY <1>1, <1>3, <2>1
  <2>3. PICK m \in I : \A k \in I : m <= k
    BY <2>2, LeastNumber
  <2>4. Min(I) \in I
    BY <2>3 DEF Min
  <2>5. PICK k \in 1..n : k = Min(I) /\ q[k] = e
    BY <2>1, <2>4
  <2>6. SelectInSeq(q, LAMBDA v : v = e) = k
    BY <1>1, <2>1, <2>2, <2>5 DEF SelectInSeq
  <2>7. PICK u, v : u = SubSeq(q, 1, k - 1) /\ v = SubSeq(q, k + 1, n)
    OBVIOUS
  <2>8. RemoveFirst(q, e) = u \o v
    BY <1>1, <1>3, <2>6, <2>7 DEF RemoveFirst, RemoveAt
  <2>9. u \in Seq(S) /\ Len(u) = k - 1 /\ \A i \in 1..(k - 1) : u[i] = q[i]
    <3>1. 1 \in Int /\ k - 1 \in Int /\ \A i \in 1..(k - 1) : q[i] \in S
      BY <1>1
    <3>2. /\ u \in Seq(S) /\ Len(u) = IF 1 <= k - 1 THEN (k - 1) - 1 + 1 ELSE 0
          /\ \A i \in 1..((k - 1) - 1 + 1) : u[i] = q[1 + i - 1]
      BY <2>7, <3>1, SubSeqProperties
    <3> QED
      BY <3>2
  <2>10. v \in Seq(S) /\ Len(v) = n - k /\ \A i \in 1..(n - k) : v[i] = q[k + i]
    <3>1. k + 1 \in Int /\ n \in Int /\ \A i \in (k + 1)..n : q[i] \in S
      BY <1>1
    <3>2. /\ v \in Seq(S) /\ Len(v) = IF k + 1 <= n THEN n - (k + 1) + 1 ELSE 0
          /\ \A i \in 1..(n - (k + 1) + 1) : v[i] = q[(k + 1) + i - 1]
      BY <2>7, <3>1, SubSeqProperties
    <3> QED
      BY <3>2
  <2>11. PICK r : r = u \o v
    OBVIOUS
  <2>12. /\ r \in Seq(S) /\ Len(r) = (k - 1) + (n - k)
         /\ \A i \in 1..((k - 1) + (n - k)) : r[i] = IF i <= k - 1 THEN u[i] ELSE v[i - (k - 1)]
    <3>1. /\ r \in Seq(S) /\ Len(r) = Len(u) + Len(v)
          /\ \A i \in 1..(Len(u) + Len(v)) : r[i] = IF i <= Len(u) THEN u[i] ELSE v[i - Len(u)]
      BY <2>9, <2>10, <2>11, ConcatProperties
    <3> QED
      BY <2>9, <2>10, <3>1
  <2>13. DOMAIN r = 1..(n - 1)
    BY <2>12, LenProperties
  <2>14. ASSUME NEW x \in ToSet(q), x # e PROVE x \in ToSet(r)
    <3>1. PICK i \in 1..n : q[i] = x
      BY <1>1, <2>14 DEF ToSet
    <3>2. i # k
      BY <2>5, <2>14, <3>1
    <3>3. CASE i < k
      <4>1. i \in 1..(k - 1) /\ i \in 1..(n - 1) /\ i \in 1..((k - 1) + (n - k)) /\ i <= k - 1
        BY <3>3
      <4>2. r[i] = x
        BY <2>9, <2>12, <3>1, <4>1
      <4> QED
        BY <2>13, <4>1, <4>2 DEF ToSet
    <3>4. CASE i > k
      <4>1. /\ i - k \in 1..(n - k) /\ i - 1 \in 1..(n - 1) /\ i - 1 \in 1..((k - 1) + (n - k))
            /\ ~(i - 1 <= k - 1) /\ (i - 1) - (k - 1) = i - k /\ k + (i - k) = i
        BY <3>4
      <4>2. r[i - 1] = v[i - k]
        BY <2>12, <4>1
      <4>3. v[i - k] = x
        BY <2>10, <3>1, <4>1
      <4> QED
        BY <2>13, <4>1, <4>2, <4>3 DEF ToSet
    <3> QED
      BY <3>2, <3>3, <3>4
  <2> QED
    BY <2>8, <2>11, <2>12, <2>14
<1> QED
  BY <1>2, <1>3

\* iter follows act along the prefixes of a sequence, as long as it stays in V.
Follows(iter, act, V, N) ==
  \A n \in 1..N : iter[1..(n - 1)] \in V => iter[1..n] = act[n][iter[1..(n - 1)]]

\* f gives what act has made of base after each position.
Traces(f, base, act, V, N) ==
  f \in [0..N -> V] /\ f[0] = base /\ \A n \in 1..N : f[n] = act[n][f[n - 1]]

\* What iter computes for 1..N is reached step by step, and never leaves V.
LEMMA FoldFollows ==
  ASSUME NEW N \in Nat, NEW V, NEW base \in V, NEW act \in [1..N -> [V -> V]],
         NEW iter, iter[{}] = base, Follows(iter, act, V, N)
  PROVE  \E f : Traces(f, base, act, V, N) /\ f[N] = iter[1..N]
<1>1. PICK Reached : Reached = {n \in 0..N : iter[1..n] \in V}
  OBVIOUS
<1>2. 0 \in 0..N /\ N \in 0..N /\ 1..0 = {}
  OBVIOUS
<1>3. 0 \in Reached
  BY <1>1, <1>2
<1>4. ASSUME NEW n \in 0..(N - 1), n \in Reached
      PROVE  n + 1 \in Reached
  <2>1. n + 1 \in 1..N /\ n + 1 \in 0..N /\ (n + 1) - 1 = n
    OBVIOUS
  <2>2. iter[1..n] \in V
    BY <1>1, <1>4
  <2>3. iter[1..(n + 1)] = act[n + 1][iter[1..n]]
    BY <2>1, <2>2 DEF Follows
  <2>4. act[n + 1] \in [V -> V]
    BY <2>1
  <2> QED
    BY <1>1, <2>1, <2>2, <2>3, <2>4
<1>5. \A n \in 0..N : iter[1..n] \in V
  <2>1. \A n \in 0..(N - 1) : n \in Reached => n + 1 \in Reached
    BY <1>4
  <2>2. \A n \in 0..N : n \in Reached
    BY <1>3, <2>1, BoundedInduction
  <2> QED
    BY <1>1, <2>2
<1>6. PICK f : f = [n \in 0..N |-> iter[1..n]]
  OBVIOUS
<1>7. f \in [0..N -> V] /\ f[0] = base /\ f[N] = iter[1..N]
  BY <1>2, <1>5, <1>6
<1>8. ASSUME NEW n \in 1..N PROVE f[n] = act[n][f[n - 1]]
  <2>1. n \in 0..N /\ n - 1 \in 0..N
    OBVIOUS
  <2>2. iter[1..(n - 1)] \in V
    BY <1>5, <2>1
  <2> QED
    BY <1>6, <2>1, <2>2 DEF Follows
<1> QED
  BY <1>7, <1>8 DEF Traces

Iterates(iter, base, act, V, N) ==
  /\ N \in Nat /\ base \in V /\ act \in [1..N -> [V -> V]]
  /\ iter[{}] = base /\ Follows(iter, act, V, N)

\* The same, with the premises in one predicate.
LEMMA FoldTraces ==
  ASSUME NEW N, NEW V, NEW base, NEW act, NEW iter, Iterates(iter, base, act, V, N)
  PROVE  \E f : Traces(f, base, act, V, N) /\ f[N] = iter[1..N]
<1>1. /\ N \in Nat /\ base \in V /\ act \in [1..N -> [V -> V]]
      /\ iter[{}] = base /\ Follows(iter, act, V, N)
  BY DEF Iterates
<1> QED
  BY <1>1, FoldFollows

-----------------------------------------------------------------------------
(***************************************************************************)
(* install_worker                                                          *)
(***************************************************************************)

\* What installing a worker at a leaves alone.
InstallFrame(s, a, r) ==
  /\ r.identity = s.identity /\ r.connecting = s.connecting /\ r.blocked = s.blocked
  /\ r.version = s.version /\ r.pending = s.pending /\ r.evicting = s.evicting
  /\ \A b \in Addrs \ {a} : r.conns[b] = s.conns[b]
  /\ r.conns[a].st = s.conns[a].st /\ r.conns[a].version = s.conns[a].version
  /\ s.conns[a].peers \subseteq r.conns[a].peers

\* A peer that is not dialled, and is not evicted unless from another connection.
Installable(s, p, a) ==
  /\ \A b \in Addrs : p \notin ToSet(s.connecting[b].peers)
  /\ p \in s.evicting => \E b \in Addrs \ {a} : p \in s.conns[b].peers

\* The fields after a worker was installed.
LEMMA InstallWorkerFields ==
  ASSUME NEW s \in Driver, NEW p \in Peers, NEW a \in Addrs,
         ~HasWorker(s, p), s.conns[a].st # "none", NEW r, r = InstallWorker(s, p, a)
  PROVE  /\ r \in Driver
         /\ r.identity = s.identity /\ r.connecting = s.connecting /\ r.blocked = s.blocked
         /\ r.version = s.version /\ r.pending = s.pending /\ r.evicting = s.evicting
         /\ r.handle = [s.handle EXCEPT ![p] = [addr |-> a, version |-> s.conns[a].version]]
         /\ r.conns = [s.conns EXCEPT ![a] = [s.conns[a] EXCEPT !.peers = s.conns[a].peers \cup {p}]]
         /\ r.orphans = RemoveFirst(s.orphans, <<a, s.conns[a].version>>)
         /\ \A q \in Peers \ {p} : r.worker[q] = s.worker[q]
<1>1. PICK w : w = [NoWorker EXCEPT !.st = "running", !.queue = s.tx_queues[p]]
  OBVIOUS
<1>2. w \in Worker
  <2>1. s.tx_queues[p] \in Seq(Entry) /\ <<>> \in Seq(Txs)
    BY Fields, EmptyMembers
  <2> QED
    BY <1>1, <2>1 DEF Worker, NoWorker
<1>3. PICK workers : workers = [s.worker EXCEPT ![p][s.identity] = w]
  OBVIOUS
<1>4. workers \in [Peers -> [Identities -> Worker]] /\ \A q \in Peers \ {p} : workers[q] = s.worker[q]
  <2>1. s.worker \in [Peers -> [Identities -> Worker]] /\ s.identity \in Identities
    BY Fields
  <2>2. PICK mine : mine = [s.worker[p] EXCEPT ![s.identity] = w]
    OBVIOUS
  <2>3. mine \in [Identities -> Worker]
    BY <1>2, <2>1, <2>2
  <2>4. workers = [s.worker EXCEPT ![p] = mine]
    BY <1>3, <2>2
  <2> QED
    BY <2>1, <2>3, <2>4
<1>5. PICK queues : queues = [s.tx_queues EXCEPT ![p] = <<>>]
  OBVIOUS
<1>6. queues \in [Peers -> Seq(Entry)]
  <2>1. <<>> \in Seq(Entry) /\ s.tx_queues \in [Peers -> Seq(Entry)]
    BY Fields, EmptyMembers
  <2> QED
    BY <1>5, <2>1
<1>7. PICK handles : handles = [s.handle EXCEPT ![p] = [addr |-> a, version |-> s.conns[a].version]]
  OBVIOUS
<1>8. s.conns \in [Addrs -> Connection] /\ s.conns[a] \in Connection
  BY Fields
<1>9. handles \in [Peers -> Handle]
  <2>1. s.handle \in [Peers -> Handle] /\ s.conns[a].version \in 0..MaxVersion
    BY <1>8, Fields DEF Connection
  <2>2. [addr |-> a, version |-> s.conns[a].version] \in Handle
    BY <2>1 DEF Handle
  <2> QED
    BY <1>7, <2>1, <2>2
<1>10. PICK c : c = [s.conns[a] EXCEPT !.peers = s.conns[a].peers \cup {p}]
  OBVIOUS
<1>11. PICK conns : conns = [s.conns EXCEPT ![a] = c]
  OBVIOUS
<1>15. conns \in [Addrs -> Connection]
  <2>1. c \in Connection
    BY <1>8, <1>10 DEF Connection
  <2> QED
    BY <1>8, <1>11, <2>1
<1>12. PICK orphans : orphans = RemoveFirst(s.orphans, <<a, s.conns[a].version>>)
  OBVIOUS
<1>13. orphans \in Seq(Versioned)
  <2>1. s.orphans \in Seq(Versioned)
    BY Fields
  <2> QED
    BY <1>12, <2>1, RemoveFirstKeeps
<1>14. r = [s EXCEPT !.worker = workers, !.tx_queues = queues, !.handle = handles,
                     !.conns = conns, !.orphans = orphans]
  <2>1. r = [s EXCEPT !.worker[p][s.identity] =
                        [NoWorker EXCEPT !.st = "running", !.queue = s.tx_queues[p]],
                      !.tx_queues[p] = <<>>,
                      !.handle[p] = [addr |-> a, version |-> s.conns[a].version],
                      !.conns[a].peers = @ \cup {p},
                      !.orphans = RemoveFirst(@, <<a, s.conns[a].version>>)]
    BY DEF InstallWorker
  <2> QED
    BY <1>1, <1>3, <1>5, <1>7, <1>10, <1>11, <1>12, <2>1 DEF Driver
<1>16. r \in Driver
  BY <1>4, <1>6, <1>9, <1>13, <1>14, <1>15 DEF Driver
<1>17. /\ r.identity = s.identity /\ r.connecting = s.connecting /\ r.blocked = s.blocked
       /\ r.version = s.version /\ r.pending = s.pending /\ r.evicting = s.evicting
       /\ r.handle = handles /\ r.conns = conns /\ r.orphans = orphans /\ r.worker = workers
  BY <1>14 DEF Driver
<1> QED
  BY <1>4, <1>7, <1>10, <1>11, <1>12, <1>16, <1>17

\* Installing a worker keeps the tables in agreement, whether there is one already,
\* no connection, or a connection (which is then used and no orphan).
LEMMA InstallWorkerKeeps ==
  ASSUME NEW id, NEW gh, NEW handled, NEW s, Good(s, id, gh, handled), NEW p \in Peers, NEW a \in Addrs,
         Installable(s, p, a), NEW r, r = InstallWorker(s, p, a)
  PROVE  /\ Good(r, id, gh, handled) /\ InstallFrame(s, a, r)
         /\ ~HasWorker(s, p) /\ s.conns[a].st # "none" => p \in r.conns[a].peers
<1>0. s \in Driver
  BY DEF Good
<1>1. CASE HasWorker(s, p)
  BY <1>1 DEF InstallWorker, InstallFrame
<1>2. CASE ~HasWorker(s, p) /\ s.conns[a].st = "none"
  <2>1. r = UnreachablePeer(s, p)
    BY <1>2 DEF InstallWorker
  <2>2. r \in Driver /\ SameTables(s, r)
    BY <1>0, <2>1, UnreachablePeerKeeps
  <2> QED
    BY <1>2, <2>2, TablesKept DEF SameTables, InstallFrame
<1>3. CASE ~HasWorker(s, p) /\ s.conns[a].st # "none"
  <2>1. /\ r \in Driver
        /\ r.identity = s.identity /\ r.connecting = s.connecting /\ r.blocked = s.blocked
        /\ r.version = s.version /\ r.pending = s.pending /\ r.evicting = s.evicting
        /\ r.handle = [s.handle EXCEPT ![p] = [addr |-> a, version |-> s.conns[a].version]]
        /\ r.conns = [s.conns EXCEPT ![a] = [s.conns[a] EXCEPT !.peers = s.conns[a].peers \cup {p}]]
        /\ r.orphans = RemoveFirst(s.orphans, <<a, s.conns[a].version>>)
        /\ \A q \in Peers \ {p} : r.worker[q] = s.worker[q]
    BY <1>0, <1>3, InstallWorkerFields
  <2>2. /\ s.conns \in [Addrs -> Connection] /\ s.handle \in [Peers -> Handle]
        /\ s.orphans \in Seq(Versioned) /\ s.conns[a] \in Connection
    BY <1>0, Fields
  <2>3. /\ \A b \in Addrs \ {a} : r.conns[b] = s.conns[b]
        /\ r.conns[a].st = s.conns[a].st /\ r.conns[a].version = s.conns[a].version
        /\ r.conns[a].peers = s.conns[a].peers \cup {p}
    BY <2>1, <2>2 DEF Connection
  <2>4. /\ \A q \in Peers \ {p} : r.handle[q] = s.handle[q]
        /\ r.handle[p].addr = a /\ r.handle[p].version = s.conns[a].version
    BY <2>1, <2>2
  <2>5. r.handle[p] # NoHandle
    <3>1. NoAddr # a
      BY DriverConstants
    <3> QED
      BY <2>4, <3>1 DEF NoHandle
  <2>6. Linked(r)
    <3>1. ASSUME NEW q \in Peers, HasWorker(r, q)
          PROVE  /\ r.handle[q].addr \in Addrs
                 /\ r.conns[r.handle[q].addr].version = r.handle[q].version
                 /\ q \in r.conns[r.handle[q].addr].peers
      <4>1. CASE q = p
        BY <2>3, <2>4, <4>1
      <4>2. CASE q # p
        <5>1. r.handle[q] = s.handle[q] /\ HasWorker(s, q)
          BY <2>4, <3>1, <4>2 DEF HasWorker
        <5>2. /\ s.handle[q].addr \in Addrs
              /\ s.conns[s.handle[q].addr].version = s.handle[q].version
              /\ q \in s.conns[s.handle[q].addr].peers
          BY <5>1 DEF Good, Linked
        <5> QED
          BY <2>3, <5>1, <5>2
      <4> QED
        BY <4>1, <4>2
    <3> QED
      BY <3>1 DEF Linked
  <2>7. Mapped(r)
    <3>1. ASSUME NEW b \in Addrs
          PROVE  IF r.conns[b].st = "none" THEN r.conns[b] = NoConnection ELSE r.conns[b].version # 0
      <4>1. IF s.conns[b].st = "none" THEN s.conns[b] = NoConnection ELSE s.conns[b].version # 0
        BY DEF Good, Mapped
      <4> QED
        BY <1>3, <2>3, <4>1
    <3> QED
      BY <3>1 DEF Mapped
  <2>8. UnusedKnown(r, handled)
    <3>1. ASSUME NEW b \in Addrs, r.conns[b].st # "none", r.conns[b].peers = {}
          PROVE  <<b, r.conns[b].version>> \in ToSet(r.orphans) \cup handled
      <4>1. b # a
        BY <2>3, <3>1
      <4>2. r.conns[b] = s.conns[b]
        BY <2>3, <4>1
      <4>3. <<b, s.conns[b].version>> \in ToSet(s.orphans) \cup handled
        BY <3>1, <4>2 DEF Good, UnusedKnown
      <4>4. <<b, s.conns[b].version>> # <<a, s.conns[a].version>>
        BY <4>1
      <4>5. <<b, s.conns[b].version>> \in ToSet(s.orphans) =>
              <<b, s.conns[b].version>> \in ToSet(r.orphans)
        BY <2>1, <2>2, <4>4, RemoveFirstKeeps
      <4> QED
        BY <4>2, <4>3, <4>5
    <3> QED
      BY <3>1 DEF UnusedKnown
  <2>9. PendingUsed(r)
    <3>1. ASSUME NEW e \in r.pending
          PROVE  r.conns[e[1]].version = e[2] /\ r.conns[e[1]].peers # {}
      <4>1. s.conns[e[1]].version = e[2] /\ s.conns[e[1]].peers # {}
        BY <2>1, <3>1 DEF Good, PendingUsed
      <4>2. e[1] \in Addrs
        BY <2>1, <3>1, <1>0, Fields DEF Versioned
      <4> QED
        BY <2>3, <4>1, <4>2
    <3> QED
      BY <3>1 DEF PendingUsed
  <2>10. Dials(r)
    <3>1. \A b \in Addrs : s.connecting[b].st = "none" <=> s.connecting[b].peers = <<>>
      BY DEF Good, Dials
    <3>2. ASSUME NEW b \in Addrs, s.connecting[b].st # "none" PROVE r.conns[b].st = "none"
      <4>1. s.conns[b].st = "none"
        BY <3>2 DEF Good, Dials
      <4> QED
        BY <1>3, <2>3, <4>1
    <3>3. ASSUME NEW b \in Addrs, NEW q \in Peers, q \in ToSet(s.connecting[b].peers)
          PROVE  /\ ~HasWorker(r, q)
                 /\ \A d \in Addrs : q \in ToSet(s.connecting[d].peers) => b = d
      <4>1. q # p
        BY <3>3 DEF Installable
      <4>2. ~HasWorker(s, q) /\ \A d \in Addrs : q \in ToSet(s.connecting[d].peers) => b = d
        BY <3>3 DEF Good, Dials
      <4> QED
        BY <2>4, <4>1, <4>2 DEF HasWorker
    <3> QED
      BY <2>1, <3>1, <3>2, <3>3 DEF Dials
  <2>11. Waits(r)
    BY <2>1 DEF Good, Waits
  <2>12. Evictions(r)
    <3>1. ASSUME NEW q \in s.evicting
          PROVE  /\ \E b \in Addrs : q \in r.conns[b].peers
                 /\ HasWorker(r, q) /\ ~LeftBehind(r, q) => Signalled(r, q)
      <4>0. q \in Peers
        BY <1>0, Fields
      <4>1. PICK b \in Addrs : q \in s.conns[b].peers
        BY DEF Good, Evictions
      <4>2. q \in r.conns[b].peers
        BY <2>3, <4>1
      <4>3. CASE q = p
        <5>1. PICK d \in Addrs \ {a} : p \in s.conns[d].peers
          BY <4>3 DEF Installable
        <5>2. LeftBehind(r, q)
          BY <2>3, <2>4, <4>3, <5>1 DEF LeftBehind
        <5> QED
          BY <4>2, <5>2
      <4>4. CASE q # p
        <5>1. r.handle[q] = s.handle[q] /\ r.worker[q] = s.worker[q]
          BY <2>1, <2>4, <4>0, <4>4
        <5>2. HasWorker(s, q) /\ ~LeftBehind(s, q) => Signalled(s, q)
          BY DEF Good, Evictions
        <5>3. LeftBehind(s, q) => LeftBehind(r, q)
          <6>1. ASSUME NEW d \in Addrs, q \in s.conns[d].peers PROVE q \in r.conns[d].peers
            BY <2>3, <6>1
          <6> QED
            BY <5>1, <6>1 DEF LeftBehind
        <5>4. (HasWorker(r, q) <=> HasWorker(s, q)) /\ (Signalled(r, q) <=> Signalled(s, q))
          BY <2>1, <5>1 DEF HasWorker, Signalled
        <5> QED
          BY <4>2, <5>2, <5>3, <5>4
      <4> QED
        BY <4>3, <4>4
    <3> QED
      BY <2>1, <3>1 DEF Evictions
  <2>13. InstallFrame(s, a, r)
    BY <2>1, <2>3 DEF InstallFrame
  <2>14. Worked(r, gh)
    <3>1. ASSUME NEW b \in Addrs, NEW q \in r.conns[b].peers
          PROVE  \/ r.handle[q].addr = b /\ r.handle[q].version = r.conns[b].version
                 \/ <<b, r.conns[b].version, q>> \in gh
      <4>0. q \in Peers /\ r.conns[b].version = s.conns[b].version
        <5>1. r \in Driver
          BY <2>1
        <5>2. r.conns \in [Addrs -> Connection]
          BY <5>1, Fields
        <5>3. r.conns[b] \in Connection
          BY <5>2
        <5> QED
          BY <2>3, <5>3 DEF Connection
      <4>1. CASE q = p /\ b = a
        BY <2>3, <2>4, <4>1
      <4>2. CASE ~(q = p /\ b = a)
        <5>1. q \in s.conns[b].peers
          BY <2>3, <4>2
        <5>2. \/ s.handle[q].addr = b /\ s.handle[q].version = s.conns[b].version
              \/ <<b, s.conns[b].version, q>> \in gh
          BY <5>1 DEF Good, Worked
        <5>3. q = p => s.handle[q].addr # b
          BY <1>3, DriverConstants DEF HasWorker, NoHandle
        <5> QED
          BY <2>4, <4>0, <5>2, <5>3
      <4> QED
        BY <4>1, <4>2
    <3> QED
      BY <3>1 DEF Worked
  <2> QED
    BY <2>14, <2>1, <2>3, <2>6, <2>7, <2>8, <2>9, <2>10, <2>11, <2>12, <2>13 DEF Good
<1> QED
  BY <1>1, <1>2, <1>3

-----------------------------------------------------------------------------
(***************************************************************************)
(* spawn_connecting                                                        *)
(***************************************************************************)

\* The attempt c at a, and the list of the waiting attempts, after p was dialled there.
Dialled(s, p, a, c, blocked) ==
  \/ /\ s.connecting[a].st # "none" /\ blocked = s.blocked /\ c.st = s.connecting[a].st
     /\ c.peers = Append(s.connecting[a].peers, p)
  \/ /\ s.connecting[a].st = "none" /\ c.peers = <<p>>
     /\ \/ c.st = "dialing" /\ blocked = s.blocked
        \/ c.st = "waiting" /\ blocked = Append(s.blocked, a)

\* Only the attempts differ.
SameConnections(s, r) ==
  /\ r.identity = s.identity /\ r.handle = s.handle /\ r.worker = s.worker /\ r.conns = s.conns
  /\ r.pending = s.pending /\ r.evicting = s.evicting /\ r.orphans = s.orphans

\* The fields after an address was dialled.
LEMMA DialFields ==
  ASSUME NEW s \in Driver, NEW p \in Peers, NEW a \in Addrs, NEW attempt \in 0..MaxConnectionAttempts,
         NEW r, r = Dial(s, p, a, attempt)
  PROVE  /\ r \in Driver /\ SameConnections(s, r)
         /\ r.connecting = [s.connecting EXCEPT ![a] = r.connecting[a]]
         /\ Dialled(s, p, a, r.connecting[a], r.blocked)
<1>1. /\ s.connecting \in [Addrs -> Connecting] /\ s.connecting[a] \in Connecting
      /\ s.blocked \in Seq(Addrs) /\ s.identity \in Identities
  BY Fields
<1>2. s.connecting[a].peers \in Seq(Peers) /\ s.connecting[a].st \in {"none", "waiting", "dialing"}
  BY <1>1 DEF Connecting
<1>3. ASSUME NEW c \in Connecting, NEW b \in Seq(Addrs), Dialled(s, p, a, c, b), NEW new,
             new = [s.connecting EXCEPT ![a] = c], r = [s EXCEPT !.connecting = new, !.blocked = b]
      PROVE  /\ r \in Driver /\ SameConnections(s, r)
             /\ r.connecting = [s.connecting EXCEPT ![a] = r.connecting[a]]
             /\ Dialled(s, p, a, r.connecting[a], r.blocked)
  <2>1. new \in [Addrs -> Connecting] /\ new[a] = c
    BY <1>1, <1>3
  <2>2. r \in Driver
    BY <1>3, <2>1 DEF Driver
  <2>3. r.connecting = new /\ r.blocked = b /\ SameConnections(s, r)
    BY <1>3 DEF Driver, SameConnections
  <2> QED
    BY <1>3, <2>1, <2>2, <2>3
<1>4. CASE s.connecting[a].st # "none"
  <2>1. PICK peers : peers = Append(s.connecting[a].peers, p)
    OBVIOUS
  <2>2. peers \in Seq(Peers)
    BY <1>2, <2>1, AppendMembers
  <2>3. PICK c : c = [s.connecting[a] EXCEPT !.peers = peers]
    OBVIOUS
  <2>4. c \in Connecting /\ c.st = s.connecting[a].st /\ c.peers = peers
    BY <1>1, <2>2, <2>3 DEF Connecting
  <2>5. PICK new : new = [s.connecting EXCEPT ![a] = c]
    OBVIOUS
  <2>6. r = [s EXCEPT !.connecting[a].peers = Append(@, p)]
    BY <1>4 DEF Dial
  <2>7. r = [s EXCEPT !.connecting = new]
    BY <2>1, <2>3, <2>5, <2>6 DEF Driver
  <2>8. r = [s EXCEPT !.connecting = new, !.blocked = s.blocked]
    BY <2>7 DEF Driver
  <2>9. Dialled(s, p, a, c, s.blocked)
    BY <1>4, <2>1, <2>4 DEF Dialled
  <2> QED
    BY <1>1, <1>3, <2>4, <2>5, <2>8, <2>9, Zenon
<1>5. CASE s.connecting[a].st = "none"
  <2>1. <<p>> \in Seq(Peers) /\ Append(s.blocked, a) \in Seq(Addrs)
    BY <1>1, AppendMembers
  <2>2. CASE HasConnectionCapacity(s)
    <3>1. PICK c : c = [st |-> "dialing", peers |-> <<p>>, attempt |-> attempt, identity |-> s.identity]
      OBVIOUS
    <3>2. c \in Connecting
      BY <1>1, <2>1, <3>1 DEF Connecting
    <3>3. PICK new : new = [s.connecting EXCEPT ![a] = c]
      OBVIOUS
    <3>4. r = [s EXCEPT !.connecting = new, !.blocked = s.blocked]
      BY <1>5, <2>2, <3>1, <3>3 DEF Dial, Driver
    <3>5. Dialled(s, p, a, c, s.blocked)
      BY <1>5, <3>1 DEF Dialled
    <3> QED
      BY <1>1, <1>3, <3>2, <3>3, <3>4, <3>5, Zenon
  <2>3. CASE ~HasConnectionCapacity(s)
    <3>1. PICK c : c = [st |-> "waiting", peers |-> <<p>>, attempt |-> attempt, identity |-> s.identity]
      OBVIOUS
    <3>2. c \in Connecting
      BY <1>1, <2>1, <3>1 DEF Connecting
    <3>3. PICK new : new = [s.connecting EXCEPT ![a] = c]
      OBVIOUS
    <3>4. PICK b \in Seq(Addrs) : b = Append(s.blocked, a)
      BY <2>1
    <3>5. r = [s EXCEPT !.connecting = new, !.blocked = b]
      BY <1>5, <2>3, <3>1, <3>3, <3>4 DEF Dial, Driver
    <3>6. Dialled(s, p, a, c, b)
      BY <1>5, <3>1, <3>4 DEF Dialled
    <3> QED
      BY <1>3, <3>2, <3>3, <3>4, <3>5, <3>6, Zenon
  <2> QED
    BY <2>2, <2>3
<1> QED
  BY <1>4, <1>5

\* A peer that is neither dialled nor served may be dialled where no connection is.
LEMMA DialKeeps ==
  ASSUME NEW id, NEW gh, NEW handled, NEW s, Good(s, id, gh, handled), NEW p \in Peers, NEW a \in Addrs,
         NEW attempt \in 0..MaxConnectionAttempts,
         p \notin ConnectingPeers(s), ~HasWorker(s, p), s.conns[a].st = "none",
         NEW r, r = Dial(s, p, a, attempt)
  PROVE  Good(r, id, gh, handled)
<1>0. s \in Driver
  BY DEF Good
<1>1. /\ r \in Driver /\ SameConnections(s, r)
      /\ r.connecting = [s.connecting EXCEPT ![a] = r.connecting[a]]
      /\ Dialled(s, p, a, r.connecting[a], r.blocked)
  BY <1>0, DialFields
<1>2. /\ s.connecting \in [Addrs -> Connecting] /\ s.blocked \in Seq(Addrs)
      /\ \A d \in Addrs : s.connecting[d].peers \in Seq(Peers)
  BY <1>0, Fields DEF Connecting
<1>3. PICK c, b : c = r.connecting[a] /\ b = r.blocked
  OBVIOUS
<1>4. r.connecting[a] = c /\ \A d \in Addrs \ {a} : r.connecting[d] = s.connecting[d]
  BY <1>1, <1>2, <1>3
<1>5. ToSet(<<p>>) = {p} /\ <<p>> # <<>>
  <2>1. <<>> \in Seq(Peers) /\ Append(<<>>, p) = <<p>>
    BY EmptyMembers
  <2>2. ToSet(Append(<<>>, p)) = ToSet(<<>>) \cup {p} /\ Append(<<>>, p) # <<>>
    BY <2>1, AppendMembers
  <2> QED
    BY <2>1, <2>2, EmptyMembers
<1>6. /\ ToSet(c.peers) = ToSet(s.connecting[a].peers) \cup {p} /\ c.peers # <<>> /\ c.st # "none"
  <2>1. CASE s.connecting[a].st # "none"
    <3>1. s.connecting[a].peers \in Seq(Peers)
      BY <1>2
    <3>2. c.peers = Append(s.connecting[a].peers, p) /\ c.st # "none"
      BY <1>1, <1>3, <2>1 DEF Dialled
    <3> QED
      BY <3>1, <3>2, AppendMembers
  <2>2. CASE s.connecting[a].st = "none"
    <3>1. s.connecting[a].peers = <<>>
      BY <2>2 DEF Good, Dials
    <3>2. c.peers = <<p>> /\ c.st # "none"
      BY <1>1, <1>3, <2>2 DEF Dialled
    <3> QED
      BY <1>5, <3>1, <3>2, EmptyMembers
  <2> QED
    BY <2>1, <2>2
<1>7. Linked(r) /\ Mapped(r) /\ Worked(r, gh) /\ UnusedKnown(r, handled) /\ PendingUsed(r)
  BY <1>1 DEF SameConnections, Good, Linked, Mapped, Worked, UnusedKnown, PendingUsed, HasWorker
<1>8. Evictions(r)
  BY <1>1 DEF SameConnections, Good, Evictions, HasWorker, LeftBehind, Signalled
<1>9. Dials(r)
  <2>1. \A d \in Addrs : r.connecting[d].st = "none" <=> r.connecting[d].peers = <<>>
    BY <1>4, <1>6 DEF Good, Dials
  <2>2. \A d \in Addrs : r.connecting[d].st # "none" => r.conns[d].st = "none"
    BY <1>1, <1>4 DEF Good, Dials, SameConnections
  <2>3. \A d \in Addrs : p \notin ToSet(s.connecting[d].peers)
    BY DEF ConnectingPeers
  <2>4. ASSUME NEW d \in Addrs, NEW q \in Peers, q \in ToSet(r.connecting[d].peers)
        PROVE  (q = p /\ d = a) \/ q \in ToSet(s.connecting[d].peers)
    BY <1>4, <1>6, <2>4
  <2>5. ASSUME NEW d \in Addrs, NEW q \in Peers, q \in ToSet(r.connecting[d].peers)
        PROVE  /\ ~HasWorker(r, q)
               /\ \A e \in Addrs : q \in ToSet(r.connecting[e].peers) => d = e
    <3>1. (q = p /\ d = a) \/ q \in ToSet(s.connecting[d].peers)
      BY <2>4, <2>5
    <3>2. CASE q = p
      <4>1. d = a /\ \A e \in Addrs : q \in ToSet(r.connecting[e].peers) => e = a
        BY <2>3, <2>4, <3>1, <3>2
      <4> QED
        BY <1>1, <3>2, <4>1 DEF HasWorker, SameConnections
    <3>3. CASE q # p
      <4>1. ~HasWorker(s, q) /\ \A e \in Addrs : q \in ToSet(s.connecting[e].peers) => d = e
        BY <3>1, <3>3 DEF Good, Dials
      <4> QED
        BY <1>1, <2>4, <3>3, <4>1 DEF HasWorker, SameConnections
    <3> QED
      BY <3>2, <3>3
  <2> QED
    BY <2>1, <2>2, <2>5 DEF Dials
<1>10. Waits(r)
  <2>1. /\ IsInjective(s.blocked)
        /\ \A d \in Addrs : d \in ToSet(s.blocked) <=> s.connecting[d].st = "waiting"
    BY DEF Good, Waits
  <2>2. CASE b = s.blocked /\ (c.st = "waiting" <=> s.connecting[a].st = "waiting")
    BY <1>3, <1>4, <2>1, <2>2 DEF Waits
  <2>3. CASE b = Append(s.blocked, a) /\ c.st = "waiting" /\ s.connecting[a].st = "none"
    <3>1. a \notin ToSet(s.blocked)
      BY <2>1, <2>3
    <3>2. IsInjective(b) /\ ToSet(b) = ToSet(s.blocked) \cup {a}
      BY <1>2, <2>1, <2>3, <3>1, AppendMembers
    <3> QED
      BY <1>3, <1>4, <2>1, <2>3, <3>2 DEF Waits
  <2> QED
    BY <1>1, <1>3, <2>2, <2>3 DEF Dialled
<1> QED
  BY <1>1, <1>7, <1>8, <1>9, <1>10 DEF Good, SameConnections

\* Whatever spawn_connecting does: nothing, a worker, an answer or a task.
LEMMA SpawnConnectingKeeps ==
  ASSUME NEW id, NEW gh, NEW handled, NEW s, Good(s, id, gh, handled), NEW p \in Peers,
         NEW attempt \in 0..MaxConnectionAttempts, tpu_addr \in [Peers -> Addrs \cup {NoAddr}]
  PROVE  Good(SpawnConnecting(s, p, attempt), id, gh, handled)
<1>0. s \in Driver
  BY DEF Good
<1>1. PICK a : a = tpu_addr[p]
  OBVIOUS
<1>2. PICK r : r = SpawnConnecting(s, p, attempt)
  OBVIOUS
<1>3. CASE p \in ConnectingPeers(s) \/ p \in s.evicting \/ HasWorker(s, p)
  BY <1>3 DEF SpawnConnecting
<1>4. CASE ~(p \in ConnectingPeers(s) \/ p \in s.evicting \/ HasWorker(s, p))
  <2>1. CASE a = NoAddr
    <3>1. r = UnreachablePeer(s, p)
      BY <1>1, <1>2, <1>4, <2>1 DEF SpawnConnecting
    <3> QED
      BY <1>0, <1>2, <3>1, UnreachablePeerKeeps, TablesKept
  <2>2. CASE a # NoAddr /\ a \in PendingAddrs(s)
    BY <1>1, <1>4, <2>2 DEF SpawnConnecting
  <2>3. CASE a # NoAddr /\ a \notin PendingAddrs(s) /\ a \in Connected(s)
    <3>1. r = InstallWorker(s, p, a)
      BY <1>1, <1>2, <1>4, <2>3 DEF SpawnConnecting
    <3>2. Installable(s, p, a)
      BY <1>4 DEF Installable, ConnectingPeers
    <3>3. a \in Addrs
      BY <1>1, <2>3
    <3> QED
      BY <1>2, <3>1, <3>2, <3>3, InstallWorkerKeeps
  <2>4. CASE a # NoAddr /\ a \notin PendingAddrs(s) /\ a \notin Connected(s)
    <3>1. r = Dial(s, p, a, attempt)
      BY <1>1, <1>2, <1>4, <2>4 DEF SpawnConnecting
    <3>2. a \in Addrs
      BY <1>1, <2>4
    <3>3. s.conns[a].st = "none"
      BY <2>4, <3>2 DEF Connected
    <3> QED
      BY <1>2, <1>4, <3>1, <3>2, <3>3, DialKeeps
  <2> QED
    BY <2>1, <2>2, <2>3, <2>4
<1> QED
  BY <1>3, <1>4

\* spawn_connecting for one peer after the other.
LEMMA SpawnAllKeeps ==
  ASSUME NEW id, NEW gh, NEW s, Good(s, id, gh, {}), NEW peers \in Seq(Peers), NEW attempt \in 0..MaxConnectionAttempts,
         tpu_addr \in [Peers -> Addrs \cup {NoAddr}]
  PROVE  Good(SpawnAll(s, peers, attempt), id, gh, {})
<1> DEFINE Rec(iter) == [S \in SUBSET (DOMAIN peers) |->
             IF S = {} THEN s ELSE SpawnConnecting(iter[S \ {Max(S)}], peers[Max(S)], attempt)]
           Iter == CHOOSE iter : iter = Rec(iter)
<1>1. PICK N \in Nat : N = Len(peers) /\ DOMAIN peers = 1..N /\ \A i \in 1..N : peers[i] \in Peers
  BY LenProperties, ElementOfSeq
<1>2. PICK V : V = {r \in Driver : Good(r, id, gh, {})}
  OBVIOUS
<1>3. s \in V
  BY <1>2 DEF Good
<1>4. ASSUME NEW i \in 1..N, NEW r \in V PROVE SpawnConnecting(r, peers[i], attempt) \in V
  <2>1. Good(SpawnConnecting(r, peers[i], attempt), id, gh, {})
    BY <1>1, <1>2, <1>4, SpawnConnectingKeeps
  <2> QED
    BY <1>2, <2>1 DEF Good
<1>5. PICK act : act = [i \in 1..N |-> [r \in V |-> SpawnConnecting(r, peers[i], attempt)]]
  OBVIOUS
<1>6. act \in [1..N -> [V -> V]]
  BY <1>4, <1>5
<1>7. PICK h \in [SUBSET (1..N) -> V] : Folds(h, s, act, N)
  BY <1>3, <1>6, FoldExists
<1>8. h = Rec(h)
  <2>1. ASSUME NEW S \in SUBSET (1..N)
        PROVE  h[S] = IF S = {} THEN s ELSE SpawnConnecting(h[S \ {Max(S)}], peers[Max(S)], attempt)
    <3>1. CASE S = {}
      BY <1>7, <3>1 DEF Folds
    <3>2. CASE S # {}
      <4>1. Max(S) \in 1..N
        BY <3>2, MaxOfNumbers
      <4>2. h[S \ {Max(S)}] \in V /\ h[S] = act[Max(S)][h[S \ {Max(S)}]]
        BY <1>7, <3>2 DEF Folds
      <4> QED
        BY <1>5, <3>2, <4>1, <4>2
    <3> QED
      BY <3>1, <3>2
  <2> QED
    BY <1>1, <2>1
<1>9. PICK it : it = Rec(it) /\ SpawnAll(s, peers, attempt) = it[DOMAIN peers]
  <2>1. Iter = Rec(Iter)
    BY <1>8
  <2>2. SpawnAll(s, peers, attempt) = Iter[DOMAIN peers]
    BY DEF SpawnAll, FoldLeft, MapThenFoldSet
  <2> HIDE DEF Iter
  <2> QED
    BY <2>1, <2>2
<1>10. Follows(it, act, V, N)
  <2>1. ASSUME NEW n \in 1..N, it[1..(n - 1)] \in V
        PROVE  it[1..n] = act[n][it[1..(n - 1)]]
    <3>1. n \in Nat /\ n # 0 /\ 1..n \in SUBSET (DOMAIN peers)
      BY <1>1
    <3>2. 1..n # {} /\ Max(1..n) = n /\ (1..n) \ {n} = 1..(n - 1)
      BY <3>1, Initial
    <3>3. it[1..n] = SpawnConnecting(it[(1..n) \ {Max(1..n)}], peers[Max(1..n)], attempt)
      BY <1>9, <3>1, <3>2
    <3> QED
      BY <1>5, <2>1, <3>2, <3>3
  <2> QED
    BY <2>1 DEF Follows
<1>11. it[{}] = s
  BY <1>9
<1>12. PICK f : Traces(f, s, act, V, N) /\ f[N] = it[1..N]
  <2>1. Iterates(it, s, act, V, N)
    BY <1>3, <1>6, <1>10, <1>11 DEF Iterates
  <2> QED
    BY <2>1, FoldTraces
<1>13. f[N] \in V /\ SpawnAll(s, peers, attempt) = f[N]
  BY <1>1, <1>9, <1>12, N \in 0..N DEF Traces
<1> QED
  BY <1>2, <1>13

-----------------------------------------------------------------------------
(***************************************************************************)
(* Places that become free                                                 *)
(***************************************************************************)

\* The first waiter leaves the list and dials.
LEMMA UnblockKeeps ==
  ASSUME NEW id, NEW gh, NEW handled, NEW s, Good(s, id, gh, handled), NEW r, r = Unblock(s)
  PROVE  Good(r, id, gh, handled) /\ SameConnections(s, r)
<1>0. s \in Driver
  BY DEF Good
<1>1. CASE s.blocked = <<>>
  BY <1>1 DEF Unblock, SameConnections
<1>2. CASE s.blocked # <<>>
  <2>1. /\ s.connecting \in [Addrs -> Connecting] /\ s.blocked \in Seq(Addrs)
    BY <1>0, Fields
  <2>2. /\ IsInjective(s.blocked)
        /\ \A d \in Addrs : d \in ToSet(s.blocked) <=> s.connecting[d].st = "waiting"
    BY DEF Good, Waits
  <2>3. PICK a, rest : a = Head(s.blocked) /\ rest = Tail(s.blocked)
    OBVIOUS
  <2>4. /\ rest \in Seq(Addrs) /\ a \in ToSet(s.blocked) /\ IsInjective(rest)
        /\ ToSet(rest) = ToSet(s.blocked) \ {a}
    BY <1>2, <2>1, <2>2, <2>3, TailMembers
  <2>5. a \in Addrs /\ s.connecting[a].st = "waiting" /\ s.connecting[a] \in Connecting
    <3>1. ToSet(s.blocked) \in SUBSET Addrs
      BY <2>1, SeqMembers
    <3> QED
      BY <2>1, <2>2, <2>4, <3>1
  <2>6. PICK c : c = [s.connecting[a] EXCEPT !.st = "dialing"]
    OBVIOUS
  <2>7. c \in Connecting /\ c.st = "dialing" /\ c.peers = s.connecting[a].peers
    BY <2>5, <2>6 DEF Connecting
  <2>8. PICK new : new = [s.connecting EXCEPT ![a] = c]
    OBVIOUS
  <2>9. new \in [Addrs -> Connecting] /\ new[a] = c /\ \A d \in Addrs \ {a} : new[d] = s.connecting[d]
    BY <2>1, <2>5, <2>7, <2>8
  <2>10. r = [s EXCEPT !.blocked = rest, !.connecting = new]
    <3>1. r = [s EXCEPT !.blocked = Tail(@), !.connecting[Head(s.blocked)].st = "dialing"]
      BY <1>2 DEF Unblock
    <3> QED
      BY <2>3, <2>6, <2>8, <3>1 DEF Driver
  <2>11. /\ r \in Driver /\ r.connecting = new /\ r.blocked = rest /\ SameConnections(s, r)
    <3>1. r \in Driver
      BY <1>0, <2>4, <2>9, <2>10 DEF Driver
    <3> QED
      BY <1>0, <2>10, <3>1 DEF Driver, SameConnections
  <2>12. Linked(r) /\ Mapped(r) /\ Worked(r, gh) /\ UnusedKnown(r, handled) /\ PendingUsed(r)
    BY <2>11 DEF SameConnections, Good, Linked, Mapped, Worked, UnusedKnown, PendingUsed, HasWorker
  <2>13. Evictions(r)
    BY <2>11 DEF SameConnections, Good, Evictions, HasWorker, LeftBehind, Signalled
  <2>14. \A d \in Addrs : /\ r.connecting[d].peers = s.connecting[d].peers
                          /\ r.connecting[d].st = "none" <=> s.connecting[d].st = "none"
    BY <2>5, <2>7, <2>9, <2>11
  <2>15. Dials(r)
    <3>1. \A d \in Addrs : r.connecting[d].st = "none" <=> r.connecting[d].peers = <<>>
      BY <2>14 DEF Good, Dials
    <3>2. \A d \in Addrs : r.connecting[d].st # "none" => r.conns[d].st = "none"
      BY <2>11, <2>14 DEF Good, Dials, SameConnections
    <3>3. ASSUME NEW d \in Addrs, NEW q \in Peers, q \in ToSet(r.connecting[d].peers)
          PROVE  /\ ~HasWorker(r, q)
                 /\ \A e \in Addrs : q \in ToSet(r.connecting[e].peers) => d = e
      <4>1. q \in ToSet(s.connecting[d].peers)
        BY <2>14, <3>3
      <4>2. ~HasWorker(s, q) /\ \A e \in Addrs : q \in ToSet(s.connecting[e].peers) => d = e
        BY <4>1 DEF Good, Dials
      <4> QED
        BY <2>11, <2>14, <4>2 DEF HasWorker, SameConnections
    <3> QED
      BY <3>1, <3>2, <3>3 DEF Dials
  <2>16. Waits(r)
    <3>1. ASSUME NEW d \in Addrs
          PROVE  d \in ToSet(rest) <=> r.connecting[d].st = "waiting"
      <4>1. CASE d = a
        BY <2>4, <2>7, <2>9, <2>11, <4>1
      <4>2. CASE d # a
        BY <2>2, <2>4, <2>9, <2>11, <4>2
      <4> QED
        BY <4>1, <4>2
    <3> QED
      BY <2>4, <2>11, <3>1 DEF Waits
  <2> QED
    BY <2>11, <2>12, <2>13, <2>15, <2>16 DEF Good, SameConnections
<1> QED
  BY <1>1, <1>2

\* The connection at a without the peer p.
Without(s, p, a, y) ==
  \/ /\ y.conns[a].st = s.conns[a].st /\ y.conns[a].version = s.conns[a].version
     /\ y.conns[a].peers = s.conns[a].peers \ {p}
     /\ y.conns[a].peers = {} => /\ <<a, s.conns[a].version>> \in ToSet(y.orphans)
                                 /\ <<a, s.conns[a].version>> \notin y.pending
  \/ /\ y.conns[a] = NoConnection /\ s.conns[a].peers \ {p} = {}
     /\ <<a, s.conns[a].version>> \notin y.pending

\* A worker has left its connection, which is used by others, closed or an orphan.
LEMMA WorkerLeaves ==
  ASSUME NEW id, NEW gh, NEW s, Good(s, id, gh, {}), NEW p \in Peers, NEW a \in Addrs, HasWorker(s, p), s.handle[p].addr = a,
         NEW y \in Driver, y.identity = s.identity, y.connecting = s.connecting, y.blocked = s.blocked,
         y.evicting = s.evicting \ {p}, y.handle = [s.handle EXCEPT ![p] = NoHandle],
         \A q \in Peers \ {p} : y.worker[q] = s.worker[q],
         \A b \in Addrs \ {a} : y.conns[b] = s.conns[b],
         ToSet(s.orphans) \subseteq ToSet(y.orphans), y.pending \subseteq s.pending,
         Without(s, p, a, y)
  PROVE  Good(y, id, gh, {})
<1>0. /\ s \in Driver /\ s.conns \in [Addrs -> Connection] /\ s.handle \in [Peers -> Handle]
      /\ s.conns[a] \in Connection /\ s.evicting \subseteq Peers /\ s.pending \subseteq Versioned
  BY Fields DEF Good
<1>1. y.handle[p] = NoHandle /\ \A q \in Peers \ {p} : y.handle[q] = s.handle[q]
  BY <1>0
<1>2. ASSUME NEW q \in Peers \ {p}, NEW b \in Addrs, q \in s.conns[b].peers
      PROVE  q \in y.conns[b].peers /\ y.conns[b].version = s.conns[b].version
  <2>1. CASE b # a
    BY <1>2, <2>1
  <2>2. CASE b = a
    <3>1. s.conns[a].peers \ {p} # {}
      BY <1>2, <2>2
    <3> QED
      BY <1>2, <2>2, <3>1 DEF Without
  <2> QED
    BY <2>1, <2>2
<1>3. Linked(y)
  <2>1. ASSUME NEW q \in Peers, HasWorker(y, q)
        PROVE  /\ y.handle[q].addr \in Addrs
               /\ y.conns[y.handle[q].addr].version = y.handle[q].version
               /\ q \in y.conns[y.handle[q].addr].peers
    <3>1. q # p
      BY <1>1, <2>1 DEF HasWorker
    <3>2. HasWorker(s, q) /\ y.handle[q] = s.handle[q]
      BY <1>1, <2>1, <3>1 DEF HasWorker
    <3>3. /\ s.handle[q].addr \in Addrs
          /\ s.conns[s.handle[q].addr].version = s.handle[q].version
          /\ q \in s.conns[s.handle[q].addr].peers
      BY <3>2 DEF Good, Linked
    <3> QED
      BY <1>2, <3>1, <3>2, <3>3
  <2> QED
    BY <2>1 DEF Linked
<1>4. Mapped(y)
  <2>1. ASSUME NEW b \in Addrs
        PROVE  IF y.conns[b].st = "none" THEN y.conns[b] = NoConnection ELSE y.conns[b].version # 0
    <3>1. IF s.conns[b].st = "none" THEN s.conns[b] = NoConnection ELSE s.conns[b].version # 0
      BY DEF Good, Mapped
    <3>2. CASE b # a
      BY <3>1, <3>2
    <3>3. CASE b = a /\ y.conns[a] = NoConnection
      BY <3>3 DEF NoConnection
    <3>4. CASE b = a /\ y.conns[a] # NoConnection
      <4>1. y.conns[a].st = s.conns[a].st /\ y.conns[a].version = s.conns[a].version
        BY <3>4 DEF Without
      <4>2. s.conns[a].st # "none"
        <5>1. p \in s.conns[a].peers
          BY DEF Good, Linked
        <5>2. NoConnection.peers = {}
          BY DEF NoConnection
        <5> QED
          BY <3>1, <3>4, <5>1, <5>2
      <4> QED
        BY <3>1, <3>4, <4>1, <4>2
    <3> QED
      BY <3>2, <3>3, <3>4
  <2> QED
    BY <2>1 DEF Mapped
<1>5. UnusedKnown(y, {})
  <2>1. ASSUME NEW b \in Addrs, y.conns[b].st # "none", y.conns[b].peers = {}
        PROVE  <<b, y.conns[b].version>> \in ToSet(y.orphans)
    <3>1. CASE b = a
      <4>1. y.conns[a] # NoConnection
        BY <2>1, <3>1 DEF NoConnection
      <4> QED
        BY <2>1, <3>1, <4>1 DEF Without
    <3>2. CASE b # a
      <4>1. y.conns[b] = s.conns[b]
        BY <3>2
      <4>2. <<b, s.conns[b].version>> \in ToSet(s.orphans)
        BY <2>1, <4>1 DEF Good, UnusedKnown
      <4> QED
        BY <4>1, <4>2
    <3> QED
      BY <3>1, <3>2
  <2> QED
    BY <2>1 DEF UnusedKnown
<1>6. PendingUsed(y)
  <2>1. ASSUME NEW e \in y.pending
        PROVE  y.conns[e[1]].version = e[2] /\ y.conns[e[1]].peers # {}
    <3>1. s.conns[e[1]].version = e[2] /\ s.conns[e[1]].peers # {}
      BY <2>1 DEF Good, PendingUsed
    <3>2. e[1] \in Addrs /\ e = <<e[1], e[2]>>
      BY <1>0, <2>1 DEF Versioned
    <3>3. CASE e[1] = a
      <4>1. e = <<a, s.conns[a].version>>
        BY <3>1, <3>2, <3>3
      <4>2. <<a, s.conns[a].version>> \in y.pending
        BY <2>1, <4>1
      <4> QED
        BY <3>1, <3>3, <4>2 DEF Without
    <3>4. CASE e[1] # a
      BY <3>1, <3>2, <3>4
    <3> QED
      BY <3>3, <3>4
  <2> QED
    BY <2>1 DEF PendingUsed
<1>7. Dials(y)
  <2>1. ASSUME NEW b \in Addrs, y.connecting[b].st # "none" PROVE y.conns[b].st = "none"
    <3>1. s.conns[b].st = "none"
      BY <2>1 DEF Good, Dials
    <3> QED
      BY <3>1 DEF Without, NoConnection
  <2>2. ASSUME NEW b \in Addrs, NEW q \in Peers, q \in ToSet(y.connecting[b].peers)
        PROVE  /\ ~HasWorker(y, q)
               /\ \A d \in Addrs : q \in ToSet(y.connecting[d].peers) => b = d
    <3>1. ~HasWorker(s, q) /\ \A d \in Addrs : q \in ToSet(s.connecting[d].peers) => b = d
      BY <2>2 DEF Good, Dials
    <3> QED
      BY <1>1, <3>1 DEF HasWorker
  <2>3. \A b \in Addrs : y.connecting[b].st = "none" <=> y.connecting[b].peers = <<>>
    BY DEF Good, Dials
  <2> QED
    BY <2>1, <2>2, <2>3 DEF Dials
<1>8. Waits(y)
  BY DEF Good, Waits
<1>9. Evictions(y)
  <2>1. ASSUME NEW q \in y.evicting
        PROVE  /\ \E b \in Addrs : q \in y.conns[b].peers
               /\ HasWorker(y, q) /\ ~LeftBehind(y, q) => Signalled(y, q)
    <3>1. q \in Peers \ {p} /\ q \in s.evicting
      BY <1>0, <2>1
    <3>2. \E b \in Addrs : q \in y.conns[b].peers
      BY <1>2, <3>1 DEF Good, Evictions
    <3>3. HasWorker(s, q) /\ ~LeftBehind(s, q) => Signalled(s, q)
      BY <3>1 DEF Good, Evictions
    <3>4. LeftBehind(s, q) => LeftBehind(y, q)
      BY <1>1, <1>2, <3>1 DEF LeftBehind
    <3>5. (HasWorker(y, q) <=> HasWorker(s, q)) /\ (Signalled(y, q) <=> Signalled(s, q))
      BY <1>1, <3>1 DEF HasWorker, Signalled
    <3> QED
      BY <3>2, <3>3, <3>4, <3>5
  <2> QED
    BY <2>1 DEF Evictions
<1>10. Worked(y, gh)
  <2>1. ASSUME NEW b \in Addrs, NEW q \in y.conns[b].peers
        PROVE  \/ y.handle[q].addr = b /\ y.handle[q].version = y.conns[b].version
               \/ <<b, y.conns[b].version, q>> \in gh
    <3>1. q \in s.conns[b].peers /\ y.conns[b].version = s.conns[b].version /\ ~(q = p /\ b = a)
      <4>1. CASE b = a
        <5>1. y.conns[a] # NoConnection
          BY <2>1, <4>1 DEF NoConnection
        <5> QED
          BY <2>1, <4>1, <5>1 DEF Without
      <4>2. CASE b # a
        BY <2>1, <4>2
      <4> QED
        BY <4>1, <4>2
    <3>2. q \in Peers
      BY <1>0, <3>1 DEF Connection
    <3>3. \/ s.handle[q].addr = b /\ s.handle[q].version = s.conns[b].version
          \/ <<b, s.conns[b].version, q>> \in gh
      BY <3>1 DEF Good, Worked
    <3> QED
      BY <1>1, <3>1, <3>2, <3>3
  <2> QED
    BY <2>1 DEF Worked
<1> QED
  BY <1>10, <1>3, <1>4, <1>5, <1>6, <1>7, <1>8, <1>9 DEF Good

-----------------------------------------------------------------------------
(***************************************************************************)
(* handle_worker_result                                                    *)
(***************************************************************************)

\* The entries of p that handle_worker_result removes.
Cleared(x, p) ==
  [x EXCEPT !.evicting = @ \ {p}, !.handle[p] = NoHandle,
            !.worker[p][x.identity] = NoWorker, !.recent = @ \ {p}]

\* Only the entries of p are gone.
Clears(x, p, y) ==
  /\ y.identity = x.identity /\ y.connecting = x.connecting /\ y.blocked = x.blocked
  /\ y.conns = x.conns /\ y.pending = x.pending /\ y.orphans = x.orphans
  /\ y.evicting = x.evicting \ {p} /\ y.handle = [x.handle EXCEPT ![p] = NoHandle]
  /\ \A q \in Peers \ {p} : y.worker[q] = x.worker[q]

\* The entries that stand for an absent one.
LEMMA NoneTypes ==
  /\ NoHandle \in Handle /\ NoWorker \in Worker /\ NoConnection \in Connection /\ NoConnecting \in Connecting
<1>1. 0 \in 0..MaxVersion /\ 0 \in Identities /\ 0 \in 0..MaxConnectionAttempts
  BY DriverConstants DEF Identities
<1>2. <<>> \in Seq(Txs) /\ <<>> \in Seq(Entry) /\ <<>> \in Seq(Peers)
  BY EmptyMembers
<1> QED
  BY <1>1, <1>2 DEF NoHandle, Handle, NoWorker, Worker, NoConnection, Connection, NoConnecting, Connecting

\* A worker is replaced.
Replaces(workers, p, i, w, new) == new = [workers EXCEPT ![p][i] = w]

\* Replacing a worker changes that worker only.
LEMMA WorkerReplaced ==
  ASSUME NEW x \in Driver, NEW p \in Peers, NEW i \in Identities, NEW w \in Worker, NEW new,
         Replaces(x.worker, p, i, w, new)
  PROVE  /\ new \in [Peers -> [Identities -> Worker]] /\ new[p][i] = w
         /\ \A q \in Peers, j \in Identities : q # p \/ j # i => new[q][j] = x.worker[q][j]
         /\ \A q \in Peers \ {p} : new[q] = x.worker[q]
<1>1. x.worker \in [Peers -> [Identities -> Worker]]
  BY Fields
<1>2. PICK mine : mine = [x.worker[p] EXCEPT ![i] = w]
  OBVIOUS
<1>3. mine \in [Identities -> Worker] /\ mine[i] = w /\ \A j \in Identities \ {i} : mine[j] = x.worker[p][j]
  BY <1>1, <1>2
<1>4. new = [x.worker EXCEPT ![p] = mine]
  BY <1>2 DEF Replaces
<1> QED
  BY <1>1, <1>3, <1>4

\* The fields after the entries of a finished worker were removed.
LEMMA ClearedFields ==
  ASSUME NEW x \in Driver, NEW p \in Peers, NEW y, y = Cleared(x, p)
  PROVE  y \in Driver /\ Clears(x, p, y)
<1>1. x.identity \in Identities /\ x.handle \in [Peers -> Handle]
  BY Fields
<1>2. PICK workers : workers = [x.worker EXCEPT ![p][x.identity] = NoWorker]
  OBVIOUS
<1>3. workers \in [Peers -> [Identities -> Worker]] /\ \A q \in Peers \ {p} : workers[q] = x.worker[q]
  <2>1. NoWorker \in Worker
    BY NoneTypes
  <2>2. Replaces(x.worker, p, x.identity, NoWorker, workers)
    BY <1>2 DEF Replaces
  <2> QED
    BY <1>1, <2>1, <2>2, WorkerReplaced
<1>4. PICK handles : handles = [x.handle EXCEPT ![p] = NoHandle]
  OBVIOUS
<1>5. handles \in [Peers -> Handle]
  BY <1>1, <1>4, NoneTypes
<1>6. y = [x EXCEPT !.evicting = x.evicting \ {p}, !.handle = handles, !.worker = workers,
                    !.recent = x.recent \ {p}]
  BY <1>2, <1>4 DEF Cleared, Driver
<1>7. y \in Driver
  <2>1. x.evicting \ {p} \in SUBSET Peers /\ x.recent \ {p} \in SUBSET Peers
    BY Fields
  <2> QED
    BY <1>3, <1>5, <1>6, <2>1 DEF Driver
<1>8. /\ y.identity = x.identity /\ y.connecting = x.connecting /\ y.blocked = x.blocked
      /\ y.conns = x.conns /\ y.pending = x.pending /\ y.orphans = x.orphans
      /\ y.evicting = x.evicting \ {p} /\ y.handle = handles /\ y.worker = workers
  BY <1>6 DEF Driver
<1> QED
  BY <1>3, <1>4, <1>7, <1>8 DEF Clears

\* To wake a waiter and to remove these entries commute.
LEMMA ClearedUnblocks ==
  ASSUME NEW x \in Driver, NEW p \in Peers
  PROVE  Cleared(Unblock(x), p) = Unblock(Cleared(x, p))
<1>1. PICK y : y = Cleared(x, p)
  OBVIOUS
<1>2. y \in Driver /\ y.connecting = x.connecting /\ y.blocked = x.blocked
  <2>1. y \in Driver /\ Clears(x, p, y)
    BY <1>1, ClearedFields
  <2> QED
    BY <2>1 DEF Clears
<1>3. CASE x.blocked = <<>>
  BY <1>1, <1>2, <1>3 DEF Unblock
<1>4. CASE x.blocked # <<>>
  <2>1. PICK rest, new : /\ rest = Tail(x.blocked)
                         /\ new = [x.connecting EXCEPT ![Head(x.blocked)].st = "dialing"]
    OBVIOUS
  <2>2. PICK u : u = Unblock(x)
    OBVIOUS
  <2>3. u = [x EXCEPT !.blocked = rest, !.connecting = new]
    BY <1>4, <2>1, <2>2 DEF Unblock, Driver
  <2>4. Unblock(y) = [y EXCEPT !.blocked = rest, !.connecting = new]
    BY <1>2, <1>4, <2>1 DEF Unblock, Driver
  <2>5. u.identity = x.identity /\ u.worker = x.worker /\ u.handle = x.handle
        /\ u.evicting = x.evicting /\ u.recent = x.recent
    BY <2>3 DEF Driver
  <2>6. PICK E, H, W, R : /\ E = x.evicting \ {p} /\ H = [x.handle EXCEPT ![p] = NoHandle]
                          /\ W = [x.worker EXCEPT ![p][x.identity] = NoWorker] /\ R = x.recent \ {p}
    OBVIOUS
  <2>7. y = [x EXCEPT !.evicting = E, !.handle = H, !.worker = W, !.recent = R]
    BY <1>1, <2>6 DEF Cleared, Driver
  <2>8. Cleared(u, p) = [u EXCEPT !.evicting = E, !.handle = H, !.worker = W, !.recent = R]
    BY <2>3, <2>5, <2>6 DEF Cleared, Driver
  <2>9. [y EXCEPT !.blocked = rest, !.connecting = new]
         = [u EXCEPT !.evicting = E, !.handle = H, !.worker = W, !.recent = R]
    BY <2>3, <2>7 DEF Driver
  <2> QED
    BY <1>1, <2>2, <2>4, <2>8, <2>9
<1> QED
  BY <1>3, <1>4

\* A connection of the driver's map has one of the versions that were given out.
LEMMA VersionIsGiven ==
  ASSUME NEW id, NEW gh, NEW s, Good(s, id, gh, {}), NEW a \in Addrs, s.conns[a].st # "none"
  PROVE  <<a, s.conns[a].version>> \in Versioned
<1>1. s.conns[a] \in Connection
  BY Fields DEF Good
<1>2. s.conns[a].version \in 0..MaxVersion /\ s.conns[a].version # 0
  BY <1>1 DEF Connection, Good, Mapped
<1>3. s.conns[a].version \in 1..MaxVersion
  BY <1>2
<1> QED
  BY <1>3 DEF Versioned

\* The worker of a peer leaves its connection and the handle map, whichever branch of
\* remove_worker_from_active_connection is taken.
LEMMA WorkerFreed ==
  ASSUME NEW id, NEW gh, NEW s, Good(s, id, gh, {}), NEW p \in Peers
  PROVE  Good(Cleared(RemoveWorkerFromActiveConnection(s, p), p), id, gh, {})
<1>0. s \in Driver
  BY DEF Good
<1>1. PICK x, y : x = RemoveWorkerFromActiveConnection(s, p) /\ y = Cleared(x, p)
  OBVIOUS
<1>2. CASE ~HasWorker(s, p)
  <2>1. x = s
    <3>1. ~OnCurrentConnection(s, p)
      BY <1>2 DEF OnCurrentConnection
    <3> QED
      BY <1>1, <3>1, Zenon DEF RemoveWorkerFromActiveConnection
  <2>2. y \in Driver /\ Clears(s, p, y)
    BY <1>0, <1>1, <2>1, ClearedFields
  <2>3. s.handle \in [Peers -> Handle] /\ s.evicting \subseteq Peers
    BY <1>0, Fields
  <2>4. y.handle = s.handle
    BY <1>2, <2>2, <2>3 DEF Clears, HasWorker
  <2>5. Linked(y) /\ Mapped(y) /\ Worked(y, gh) /\ UnusedKnown(y, {}) /\ PendingUsed(y) /\ Waits(y)
    BY <2>2, <2>4 DEF Clears, Good, Linked, Mapped, Worked, UnusedKnown, PendingUsed, Waits, HasWorker
  <2>6. Dials(y)
    BY <2>2, <2>4 DEF Clears, Good, Dials, HasWorker
  <2>7. Evictions(y)
    <3>1. ASSUME NEW q \in y.evicting
          PROVE  /\ \E b \in Addrs : q \in y.conns[b].peers
                 /\ HasWorker(y, q) /\ ~LeftBehind(y, q) => Signalled(y, q)
      <4>1. q \in s.evicting /\ q \in Peers \ {p}
        BY <2>2, <2>3, <3>1 DEF Clears
      <4>2. /\ \E b \in Addrs : q \in s.conns[b].peers
            /\ HasWorker(s, q) /\ ~LeftBehind(s, q) => Signalled(s, q)
        BY <4>1 DEF Good, Evictions
      <4> QED
        BY <2>2, <2>4, <4>1, <4>2 DEF Clears, HasWorker, LeftBehind, Signalled
    <3> QED
      BY <3>1 DEF Evictions
  <2> QED
    BY <1>1, <2>2, <2>5, <2>6, <2>7 DEF Good, Clears
<1>3. CASE HasWorker(s, p)
  <2>1. PICK a : a = s.handle[p].addr
    OBVIOUS
  <2>2. a \in Addrs /\ s.conns[a].version = s.handle[p].version /\ p \in s.conns[a].peers
    BY <1>3, <2>1 DEF Good, Linked
  <2>3. OnCurrentConnection(s, p)
    BY <1>3, <2>1, <2>2 DEF OnCurrentConnection
  <2>4. /\ s.conns \in [Addrs -> Connection] /\ s.conns[a] \in Connection /\ s.orphans \in Seq(Versioned)
        /\ s.pending \in SUBSET Versioned
    BY <1>0, <2>2, Fields
  <2>5. s.conns[a].st # "none"
    <3>1. s.conns[a].st = "none" => s.conns[a] = NoConnection
      BY <2>2 DEF Good, Mapped
    <3> QED
      BY <2>2, <3>1 DEF NoConnection
  <2>6. PICK e : e = <<a, s.conns[a].version>>
    OBVIOUS
  <2>7. e \in Versioned
    BY <2>2, <2>5, <2>6, VersionIsGiven
  <2>8. PICK c : c = [s.conns[a] EXCEPT !.peers = s.conns[a].peers \ {p}]
    OBVIOUS
  <2>9. /\ c \in Connection /\ c.st = s.conns[a].st /\ c.version = s.conns[a].version
        /\ c.peers = s.conns[a].peers \ {p}
    BY <2>4, <2>8 DEF Connection
  <2>10. PICK conns : conns = [s.conns EXCEPT ![a] = c]
    OBVIOUS
  <2>11. conns \in [Addrs -> Connection] /\ conns[a] = c /\ \A b \in Addrs \ {a} : conns[b] = s.conns[b]
    BY <2>2, <2>4, <2>9, <2>10
  <2>12. PICK without : without = [s EXCEPT !.conns = conns]
    OBVIOUS
  <2>13. without = [s EXCEPT !.conns[a].peers = @ \ {p}]
    BY <2>8, <2>10, <2>12 DEF Driver
  <2>14. /\ without \in Driver /\ without.conns = conns /\ without.identity = s.identity
         /\ without.connecting = s.connecting /\ without.blocked = s.blocked
         /\ without.evicting = s.evicting /\ without.handle = s.handle /\ without.worker = s.worker
         /\ without.orphans = s.orphans /\ without.pending = s.pending
    <3>1. without \in Driver
      BY <1>0, <2>11, <2>12 DEF Driver
    <3> QED
      BY <1>0, <2>12, <3>1 DEF Driver
  <2>15. x = IF without.conns[a].peers # {} THEN without
             ELSE IF <<a, s.handle[p].version>> \in s.pending THEN CloseConnection(without, a)
             ELSE Orphaned(without, a)
    BY <1>1, <2>1, <2>3, <2>13, Zenon DEF RemoveWorkerFromActiveConnection
  <2>16. <<a, s.handle[p].version>> = e /\ <<a, without.conns[a].version>> = e
    BY <2>2, <2>6, <2>9, <2>11, <2>14
  <2>17. CASE c.peers # {}
    <3>1. x = without
      BY <2>11, <2>14, <2>15, <2>17
    <3>2. y \in Driver /\ Clears(without, p, y)
      BY <1>1, <2>14, <3>1, ClearedFields
    <3>3. Without(s, p, a, y)
      BY <2>9, <2>11, <2>14, <2>17, <3>2 DEF Clears, Without
    <3> QED
      BY <1>1, <1>3, <2>1, <2>2, <2>11, <2>14, <3>2, <3>3, WorkerLeaves DEF Clears
  <2>18. CASE c.peers = {} /\ e \in s.pending
    <3>1. x = CloseConnection(without, a)
      BY <2>11, <2>14, <2>15, <2>16, <2>18
    <3>2. PICK none : none = [conns EXCEPT ![a] = NoConnection]
      OBVIOUS
    <3>3. none \in [Addrs -> Connection] /\ none[a] = NoConnection /\ \A b \in Addrs \ {a} : none[b] = s.conns[b]
      BY <2>2, <2>11, <3>2, NoneTypes
    <3>4. PICK z : z = [without EXCEPT !.conns = none, !.pending = s.pending \ {e}]
      OBVIOUS
    <3>5. x = Unblock(z)
      <4>1. z = [without EXCEPT !.conns[a] = NoConnection, !.pending = @ \ {<<a, without.conns[a].version>>}]
        BY <2>14, <2>16, <3>2, <3>4 DEF Driver
      <4> QED
        BY <3>1, <4>1 DEF CloseConnection
    <3>6. /\ z \in Driver /\ z.conns = none /\ z.identity = s.identity
          /\ z.connecting = s.connecting /\ z.blocked = s.blocked
          /\ z.evicting = s.evicting /\ z.handle = s.handle /\ z.worker = s.worker
          /\ z.orphans = s.orphans /\ z.pending = s.pending \ {e}
      <4>1. s.pending \ {e} \in SUBSET Versioned
        BY <2>4
      <4> QED
        BY <2>14, <3>3, <3>4, <4>1 DEF Driver
    <3>7. PICK v : v = Cleared(z, p)
      OBVIOUS
    <3>8. v \in Driver /\ Clears(z, p, v)
      BY <3>6, <3>7, ClearedFields
    <3>9. Without(s, p, a, v)
      BY <2>6, <2>9, <2>18, <3>3, <3>6, <3>8 DEF Clears, Without
    <3>10. Good(v, id, gh, {})
      BY <1>3, <2>1, <2>2, <3>3, <3>6, <3>8, <3>9, WorkerLeaves DEF Clears
    <3>11. y = Unblock(v)
      BY <1>1, <3>5, <3>6, <3>7, ClearedUnblocks
    <3> QED
      BY <1>1, <3>10, <3>11, UnblockKeeps
  <2>19. CASE c.peers = {} /\ e \notin s.pending
    <3>1. x = Orphaned(without, a)
      BY <2>11, <2>14, <2>15, <2>16, <2>19
    <3>2. /\ x \in Driver /\ x.conns = conns /\ x.identity = s.identity
          /\ x.connecting = s.connecting /\ x.blocked = s.blocked
          /\ x.evicting = s.evicting /\ x.handle = s.handle /\ x.worker = s.worker
          /\ x.pending = s.pending
          /\ ToSet(s.orphans) \subseteq ToSet(x.orphans) /\ e \in ToSet(x.orphans)
      <4>1. CASE e \in ToSet(s.orphans)
        <5>1. x = without
          BY <2>14, <2>16, <3>1, <4>1 DEF Orphaned
        <5> QED
          BY <2>14, <4>1, <5>1
      <4>2. CASE e \notin ToSet(s.orphans)
        <5>1. PICK more : more = Append(s.orphans, e)
          OBVIOUS
        <5>2. more \in Seq(Versioned) /\ ToSet(more) = ToSet(s.orphans) \cup {e}
          BY <2>4, <2>7, <5>1, AppendMembers
        <5>3. x = [without EXCEPT !.orphans = more]
          BY <2>14, <2>16, <3>1, <4>2, <5>1 DEF Orphaned, Driver
        <5>4. /\ x \in Driver /\ x.conns = conns /\ x.identity = s.identity
              /\ x.connecting = s.connecting /\ x.blocked = s.blocked
              /\ x.evicting = s.evicting /\ x.handle = s.handle /\ x.worker = s.worker
              /\ x.pending = s.pending /\ x.orphans = more
          BY <2>14, <5>2, <5>3 DEF Driver
        <5> QED
          BY <5>2, <5>4
      <4> QED
        BY <4>1, <4>2
    <3>3. y \in Driver /\ Clears(x, p, y)
      BY <1>1, <3>2, ClearedFields
    <3>4. Without(s, p, a, y)
      BY <2>6, <2>9, <2>11, <2>19, <3>2, <3>3 DEF Clears, Without
    <3> QED
      BY <1>1, <1>3, <2>1, <2>2, <2>11, <3>2, <3>3, <3>4, WorkerLeaves DEF Clears
  <2> QED
    BY <2>17, <2>18, <2>19
<1> QED
  BY <1>2, <1>3

\* SameTables is transitive.
LEMMA SameTablesJoin ==
  ASSUME NEW s, NEW r, NEW u, SameTables(s, r), SameTables(r, u)
  PROVE  SameTables(s, u)
BY DEF SameTables

\* Each entry a finished worker held is queued or answered.
PutAll(s, p, q) ==
  LET put(r, entry) == QueueTxOrDrop(r, p, entry) IN FoldLeft(put, s, q)

\* Queueing entries again leaves the tables alone.
LEMMA PutAllKeeps ==
  ASSUME NEW s \in Driver, NEW p \in Peers, NEW q \in Seq(Entry)
  PROVE  PutAll(s, p, q) \in Driver /\ SameTables(s, PutAll(s, p, q))
<1> DEFINE Rec(iter) == [S \in SUBSET (DOMAIN q) |->
             IF S = {} THEN s ELSE QueueTxOrDrop(iter[S \ {Max(S)}], p, q[Max(S)])]
           Iter == CHOOSE iter : iter = Rec(iter)
<1>1. PICK N \in Nat : N = Len(q) /\ DOMAIN q = 1..N /\ \A i \in 1..N : q[i] \in Entry
  BY LenProperties, ElementOfSeq
<1>2. PICK V : V = {r \in Driver : SameTables(s, r)}
  OBVIOUS
<1>3. s \in V
  BY <1>2 DEF SameTables
<1>4. ASSUME NEW i \in 1..N, NEW r \in V PROVE QueueTxOrDrop(r, p, q[i]) \in V
  <2>1. /\ QueueTxOrDrop(r, p, q[i]) \in Driver
        /\ SameTables(r, QueueTxOrDrop(r, p, q[i]))
    BY <1>1, <1>2, <1>4, QueueTxOrDropKeeps
  <2> QED
    BY <1>2, <2>1, SameTablesJoin
<1>5. PICK act : act = [i \in 1..N |-> [r \in V |-> QueueTxOrDrop(r, p, q[i])]]
  OBVIOUS
<1>6. act \in [1..N -> [V -> V]]
  BY <1>4, <1>5
<1>7. PICK h \in [SUBSET (1..N) -> V] : Folds(h, s, act, N)
  BY <1>3, <1>6, FoldExists
<1>8. h = Rec(h)
  <2>1. ASSUME NEW S \in SUBSET (1..N)
        PROVE  h[S] = IF S = {} THEN s ELSE QueueTxOrDrop(h[S \ {Max(S)}], p, q[Max(S)])
    <3>1. CASE S = {}
      BY <1>7, <3>1 DEF Folds
    <3>2. CASE S # {}
      <4>1. Max(S) \in 1..N
        BY <3>2, MaxOfNumbers
      <4>2. h[S \ {Max(S)}] \in V /\ h[S] = act[Max(S)][h[S \ {Max(S)}]]
        BY <1>7, <3>2 DEF Folds
      <4> QED
        BY <1>5, <3>2, <4>1, <4>2
    <3> QED
      BY <3>1, <3>2
  <2> QED
    BY <1>1, <2>1
<1>9. PICK it : it = Rec(it) /\ PutAll(s, p, q) = it[DOMAIN q]
  <2>1. Iter = Rec(Iter)
    BY <1>8
  <2>2. PutAll(s, p, q) = Iter[DOMAIN q]
    BY DEF PutAll, FoldLeft, MapThenFoldSet
  <2> HIDE DEF Iter
  <2> QED
    BY <2>1, <2>2
<1>10. Follows(it, act, V, N)
  <2>1. ASSUME NEW n \in 1..N, it[1..(n - 1)] \in V
        PROVE  it[1..n] = act[n][it[1..(n - 1)]]
    <3>1. n \in Nat /\ n # 0 /\ 1..n \in SUBSET (DOMAIN q)
      BY <1>1
    <3>2. 1..n # {} /\ Max(1..n) = n /\ (1..n) \ {n} = 1..(n - 1)
      BY <3>1, Initial
    <3>3. it[1..n] = QueueTxOrDrop(it[(1..n) \ {Max(1..n)}], p, q[Max(1..n)])
      BY <1>9, <3>1, <3>2
    <3> QED
      BY <1>5, <2>1, <3>2, <3>3
  <2> QED
    BY <2>1 DEF Follows
<1>11. it[{}] = s
  BY <1>9
<1>12. PICK f : Traces(f, s, act, V, N) /\ f[N] = it[1..N]
  <2>1. Iterates(it, s, act, V, N)
    BY <1>3, <1>6, <1>10, <1>11 DEF Iterates
  <2> QED
    BY <2>1, FoldTraces
<1>13. f[N] \in V /\ PutAll(s, p, q) = f[N]
  BY <1>1, <1>9, <1>12, N \in 0..N DEF Traces
<1> QED
  BY <1>2, <1>13

\* The rescue of what a worker held leaves the tables alone.
LEMMA RescueKeeps ==
  ASSUME NEW s \in Driver, NEW p \in Peers, NEW w \in Worker
  PROVE  Rescue(s, p, w) \in Driver /\ SameTables(s, Rescue(s, p, w))
<1>1. w.rx \in Seq(Txs) /\ w.queue \in Seq(Entry)
  BY DEF Worker
<1>2. PICK n \in Nat : n = Len(w.rx) /\ DOMAIN w.rx = 1..n /\ \A i \in 1..n : w.rx[i] \in Txs
  BY <1>1, LenProperties, ElementOfSeq
<1>3. PICK received : received = [i \in 1..n |-> FirstAttempt(w.rx[i])]
  OBVIOUS
<1>4. received \in Seq(Entry)
  <2>1. 1 \in 1..MaxSendAttempt
    BY DriverConstants
  <2>2. \A i \in 1..n : FirstAttempt(w.rx[i]) \in Entry
    BY <1>2, <2>1 DEF FirstAttempt, Entry
  <2>3. received \in [1..n -> Entry]
    BY <1>3, <2>2
  <2> QED
    BY <2>3
<1>5. PICK q \in Seq(Entry) : q = received \o w.queue
  BY <1>1, <1>4, ConcatProperties
<1>6. Rescue(s, p, w) = PutAll(s, p, q)
  BY <1>2, <1>3, <1>5 DEF Rescue, PutAll
<1> QED
  BY <1>6, PutAllKeeps

\* The tables are the same but for the workers.
SameButWorkers(s, r) ==
  /\ r.identity = s.identity /\ r.connecting = s.connecting /\ r.blocked = s.blocked
  /\ r.handle = s.handle /\ r.conns = s.conns /\ r.version = s.version
  /\ r.pending = s.pending /\ r.evicting = s.evicting /\ r.orphans = s.orphans

\* A worker keeps its permit, unless it stops.
LEMMA WorkersKept ==
  ASSUME NEW id, NEW gh, NEW handled, NEW s, Good(s, id, gh, handled), NEW r \in Driver, SameButWorkers(s, r),
         \A q \in Peers : Signalled(s, q) => Signalled(r, q)
  PROVE  Good(r, id, gh, handled)
<1>1. Linked(r) /\ Mapped(r) /\ Worked(r, gh) /\ UnusedKnown(r, handled) /\ PendingUsed(r) /\ Waits(r)
  BY DEF SameButWorkers, Good, Linked, Mapped, Worked, UnusedKnown, PendingUsed, Waits, HasWorker
<1>2. Dials(r)
  BY DEF SameButWorkers, Good, Dials, HasWorker
<1>3. Evictions(r)
  <2>1. ASSUME NEW q \in s.evicting
        PROVE  /\ \E a \in Addrs : q \in r.conns[a].peers
               /\ HasWorker(r, q) /\ ~LeftBehind(r, q) => Signalled(r, q)
    <3>1. /\ \E a \in Addrs : q \in s.conns[a].peers
          /\ HasWorker(s, q) /\ ~LeftBehind(s, q) => Signalled(s, q)
      BY DEF Good, Evictions
    <3>2. q \in Peers
      BY Fields DEF Good
    <3>3. (HasWorker(r, q) <=> HasWorker(s, q)) /\ (LeftBehind(r, q) <=> LeftBehind(s, q))
      BY DEF SameButWorkers, HasWorker, LeftBehind
    <3> QED
      BY <3>1, <3>2, <3>3 DEF SameButWorkers
  <2> QED
    BY <2>1 DEF Evictions, SameButWorkers
<1> QED
  BY <1>1, <1>2, <1>3 DEF Good, SameButWorkers

\* A worker that does not lose its permit without stopping.
StillSignalled(old, w) == old.cancel \/ old.st # "running" => w.cancel \/ w.st # "running"

\* A worker may change as long as it does not forget to stop.
LEMMA WorkerBecomesKeeps ==
  ASSUME NEW id, NEW gh, NEW handled, NEW s, Good(s, id, gh, handled), NEW p \in Peers, NEW i \in Identities, NEW w \in Worker,
         StillSignalled(s.worker[p][i], w),
         NEW r \in Driver, SameButWorkers(s, r), Replaces(s.worker, p, i, w, r.worker)
  PROVE  Good(r, id, gh, handled)
<1>0. s \in Driver
  BY DEF Good
<1>1. /\ r.worker[p][i] = w
      /\ \A q \in Peers, j \in Identities : q # p \/ j # i => r.worker[q][j] = s.worker[q][j]
  BY <1>0, WorkerReplaced
<1>2. s.identity \in Identities /\ r.identity = s.identity
  BY <1>0, Fields DEF SameButWorkers
<1>3. ASSUME NEW q \in Peers, Signalled(s, q) PROVE Signalled(r, q)
  <2>1. CASE q = p /\ s.identity = i
    BY <1>1, <1>2, <1>3, <2>1 DEF Signalled, StillSignalled
  <2>2. CASE ~(q = p /\ s.identity = i)
    <3>1. r.worker[q][s.identity] = s.worker[q][s.identity]
      BY <1>1, <1>2, <2>2
    <3> QED
      BY <1>2, <1>3, <3>1 DEF Signalled
  <2> QED
    BY <2>1, <2>2
<1> QED
  BY <1>3, WorkersKept

\* A worker of the record is replaced.
LEMMA WorkerStepKeeps ==
  ASSUME NEW id, NEW gh, NEW handled, NEW s, Good(s, id, gh, handled), NEW p \in Peers, NEW i \in Identities, NEW w \in Worker,
         StillSignalled(s.worker[p][i], w), NEW x \in Driver, SameTables(s, x), NEW r,
         r = [x EXCEPT !.worker[p][i] = w]
  PROVE  Good(r, id, gh, handled)
<1>1. PICK new : new = [x.worker EXCEPT ![p][i] = w]
  OBVIOUS
<1>2. Replaces(x.worker, p, i, w, new)
  BY <1>1 DEF Replaces
<1>3. new \in [Peers -> [Identities -> Worker]]
  BY <1>2, WorkerReplaced
<1>4. r = [x EXCEPT !.worker = new]
  BY <1>1 DEF Driver
<1>5. r \in Driver
  BY <1>3, <1>4 DEF Driver
<1>6. SameButWorkers(s, r) /\ r.worker = new /\ x.worker = s.worker
  BY <1>4 DEF Driver, SameButWorkers, SameTables
<1>7. Replaces(s.worker, p, i, w, r.worker)
  BY <1>2, <1>6
<1> QED
  BY <1>5, <1>6, <1>7, WorkerBecomesKeeps

-----------------------------------------------------------------------------
(***************************************************************************)
(* The handlers of worker results and transactions                         *)
(***************************************************************************)

\* A worker returned: fatally, evicted, with transactions left, or done.
LEMMA HandleWorkerResultKeeps ==
  ASSUME NEW id, NEW gh, Good(drv, id, gh, {}), tpu_addr \in [Peers -> Addrs \cup {NoAddr}], NEW p \in Peers, HandleWorkerResult(p)
  PROVE  Good(drv', id, gh, {})
<1>0. drv \in Driver /\ drv.identity \in Identities
  BY Fields DEF Good
<1>1. PICK w : w = drv.worker[p][drv.identity]
  OBVIOUS
<1>2. w \in Worker
  BY <1>0, <1>1, Fields
<1>3. PICK removed, freed : removed = RemoveWorkerFromActiveConnection(drv, p) /\ freed = Cleared(removed, p)
  OBVIOUS
<1>4. Good(freed, id, gh, {})
  BY <1>3, WorkerFreed
<1>5. removed.identity = drv.identity
  <2>1. PICK a, without : a = drv.handle[p].addr /\ without = [drv EXCEPT !.conns[a].peers = @ \ {p}]
    OBVIOUS
  <2>2. without.identity = drv.identity
    BY <1>0, <2>1 DEF Driver
  <2>3. removed \in {drv, without, CloseConnection(without, a), Orphaned(without, a)}
    BY <1>3, <2>1, Zenon DEF RemoveWorkerFromActiveConnection
  <2>4. Orphaned(without, a).identity = drv.identity
    BY <1>0, <2>1, <2>2 DEF Orphaned, Driver
  <2>5. CloseConnection(without, a).identity = drv.identity
    BY <1>0, <2>1, <2>2 DEF CloseConnection, Unblock, Driver
  <2> QED
    BY <2>2, <2>3, <2>4, <2>5
<1>6. PICK s : s = Rescue(freed, p, w)
  OBVIOUS
<1>7. s \in Driver /\ SameTables(freed, s) /\ Good(s, id, gh, {})
  <2>1. freed \in Driver
    BY <1>4 DEF Good
  <2> QED
    BY <1>2, <1>4, <1>6, <2>1, RescueKeeps, TablesKept
<1>8. drv' = IF w.fatal THEN UnreachablePeer(s, p)
             ELSE IF p \in drv.evicting THEN DropPeerQueuedTx(s, p, "RemotePeerBeingEvicted")
             ELSE IF s.tx_queues[p] # <<>> THEN SpawnConnecting([s EXCEPT !.recent = @ \cup {p}], p, 1)
             ELSE s
  <2>1. freed = [removed EXCEPT !.evicting = @ \ {p}, !.handle[p] = NoHandle,
                                !.worker[p][drv.identity] = NoWorker, !.recent = @ \ {p}]
    BY <1>3, <1>5 DEF Cleared
  <2> QED
    BY <1>1, <1>3, <1>6, <2>1 DEF HandleWorkerResult
<1>9. Good(UnreachablePeer(s, p), id, gh, {})
  BY <1>7, UnreachablePeerKeeps, TablesKept
<1>10. Good(DropPeerQueuedTx(s, p, "RemotePeerBeingEvicted"), id, gh, {})
  <2>1. "RemotePeerBeingEvicted" \in Outcomes
    BY DEF Outcomes
  <2> QED
    BY <1>7, <2>1, DropPeerQueuedTxKeeps, TablesKept
<1>11. Good(SpawnConnecting([s EXCEPT !.recent = @ \cup {p}], p, 1), id, gh, {})
  <2>1. PICK x : x = [s EXCEPT !.recent = @ \cup {p}]
    OBVIOUS
  <2>2. x \in Driver
    BY <1>7, <2>1 DEF Driver
  <2>3. SameTables(s, x)
    BY <1>7, <2>1 DEF Driver, SameTables
  <2>4. Good(x, id, gh, {})
    BY <1>7, <2>2, <2>3, TablesKept
  <2>5. 1 \in 0..MaxConnectionAttempts
    BY DriverConstants
  <2> QED
    BY <2>1, <2>4, <2>5, SpawnConnectingKeeps
<1> QED
  BY <1>7, <1>8, <1>9, <1>10, <1>11

\* A worker panicked: the handle goes, the connection keeps its peer.
LEMMA HandleWorkerPanickedKeeps ==
  ASSUME NEW id, Good(drv, id, ghosts, {}), NEW p \in Peers, HandleWorkerPanicked(p)
  PROVE  Good(drv', id, ghosts', {})
<1>0. drv \in Driver /\ drv.identity \in Identities /\ drv.handle \in [Peers -> Handle]
  BY Fields DEF Good
<1>1. PICK x : x = [drv EXCEPT !.handle[p] = NoHandle, !.worker[p][drv.identity] = NoWorker]
  OBVIOUS
<1>2. PICK workers : workers = [drv.worker EXCEPT ![p][drv.identity] = NoWorker]
  OBVIOUS
<1>3. workers \in [Peers -> [Identities -> Worker]] /\ \A q \in Peers \ {p} : workers[q] = drv.worker[q]
  <2>1. NoWorker \in Worker
    BY NoneTypes
  <2>2. Replaces(drv.worker, p, drv.identity, NoWorker, workers)
    BY <1>2 DEF Replaces
  <2> QED
    BY <1>0, <2>1, <2>2, WorkerReplaced
<1>4. PICK handles : handles = [drv.handle EXCEPT ![p] = NoHandle]
  OBVIOUS
<1>5. handles \in [Peers -> Handle] /\ handles[p] = NoHandle /\ \A q \in Peers \ {p} : handles[q] = drv.handle[q]
  BY <1>0, <1>4, NoneTypes
<1>6. x = [drv EXCEPT !.handle = handles, !.worker = workers]
  BY <1>0, <1>1, <1>2, <1>4 DEF Driver
<1>7. x \in Driver
  BY <1>0, <1>3, <1>5, <1>6 DEF Driver
<1>8. /\ x.identity = drv.identity /\ x.connecting = drv.connecting /\ x.blocked = drv.blocked
      /\ x.conns = drv.conns /\ x.pending = drv.pending /\ x.orphans = drv.orphans
      /\ x.evicting = drv.evicting /\ x.handle = handles /\ x.worker = workers
  BY <1>0, <1>6 DEF Driver
<1>9. ASSUME NEW q \in Peers, HasWorker(x, q)
      PROVE  HasWorker(drv, q) /\ x.handle[q] = drv.handle[q] /\ x.worker[q] = drv.worker[q]
  <2>1. q # p
    BY <1>5, <1>8, <1>9 DEF HasWorker
  <2> QED
    BY <1>3, <1>5, <1>8, <1>9, <2>1 DEF HasWorker
<1>10. Linked(x)
  BY <1>8, <1>9 DEF Good, Linked
<1>11. Mapped(x) /\ UnusedKnown(x, {}) /\ PendingUsed(x) /\ Waits(x)
  BY <1>8 DEF Good, Mapped, UnusedKnown, PendingUsed, Waits
<1>12. Dials(x)
  BY <1>8, <1>9 DEF Good, Dials
<1>13. Evictions(x)
  <2>1. ASSUME NEW q \in drv.evicting
        PROVE  /\ \E a \in Addrs : q \in drv.conns[a].peers
               /\ HasWorker(x, q) /\ ~LeftBehind(x, q) => Signalled(x, q)
    <3>1. q \in Peers
      BY <1>0, Fields
    <3>2. /\ \E a \in Addrs : q \in drv.conns[a].peers
          /\ HasWorker(drv, q) /\ ~LeftBehind(drv, q) => Signalled(drv, q)
      BY DEF Good, Evictions
    <3>3. HasWorker(x, q) => /\ HasWorker(drv, q) /\ (LeftBehind(x, q) <=> LeftBehind(drv, q))
                             /\ (Signalled(x, q) <=> Signalled(drv, q))
      BY <1>8, <1>9, <3>1 DEF LeftBehind, Signalled
    <3> QED
      BY <3>2, <3>3
  <2> QED
    BY <1>8, <2>1 DEF Evictions
<1>16. Worked(x, ghosts')
  <2>1. ASSUME NEW a \in Addrs, NEW q \in drv.conns[a].peers
        PROVE  \/ x.handle[q].addr = a /\ x.handle[q].version = drv.conns[a].version
               \/ <<a, drv.conns[a].version, q>> \in ghosts'
    <3>1. ghosts' = ghosts \cup {<<drv.handle[p].addr, drv.handle[p].version, p>>}
      BY DEF HandleWorkerPanicked
    <3>2. q \in Peers
      <4>1. drv.conns[a] \in Connection
        BY <1>0, Fields
      <4> QED
        BY <4>1 DEF Connection
    <3>3. \/ drv.handle[q].addr = a /\ drv.handle[q].version = drv.conns[a].version
          \/ <<a, drv.conns[a].version, q>> \in ghosts
      BY DEF Good, Worked
    <3> QED
      BY <1>5, <1>8, <3>1, <3>2, <3>3
  <2> QED
    BY <1>8, <2>1 DEF Worked
<1>14. Good(x, id, ghosts', {})
  BY <1>16, <1>7, <1>8, <1>10, <1>11, <1>12, <1>13 DEF Good
<1>15. drv' = UnreachablePeer(x, p)
  BY <1>1 DEF HandleWorkerPanicked
<1> QED
  BY <1>7, <1>14, <1>15, UnreachablePeerKeeps, TablesKept

\* A transaction is refused, given to a worker, or queued for an attempt.
LEMMA AcceptTxKeeps ==
  ASSUME NEW id, NEW gh, Good(drv, id, gh, {}), tpu_addr \in [Peers -> Addrs \cup {NoAddr}], NEW t \in Txs, AcceptTx(t)
  PROVE  Good(drv', id, gh, {})
<1>1. PICK p \in Peers : p = RemotePeer[t]
  BY DriverConstants
<1>2. PICK s : s = [drv EXCEPT !.recent = @ \cup {p}]
  OBVIOUS
<1>3. s \in Driver /\ Good(s, id, gh, {})
  <2>1. drv \in Driver
    BY DEF Good
  <2>2. s \in Driver
    BY <1>2, <2>1 DEF Driver
  <2>3. SameTables(drv, s)
    BY <1>2, <2>1 DEF Driver, SameTables
  <2> QED
    BY <2>2, <2>3, TablesKept
<1>4. FirstAttempt(t) \in Entry
  <2>1. 1 \in 1..MaxSendAttempt
    BY DriverConstants
  <2> QED
    BY <2>1 DEF FirstAttempt, Entry
<1>5. PICK queued : queued = QueueTxOrDrop(s, p, FirstAttempt(t))
  OBVIOUS
<1>6. Good(queued, id, gh, {})
  BY <1>3, <1>4, <1>5, QueueTxOrDropKeeps, TablesKept
<1>7. Good(Answer(s, {t}, "InvalidPacketSize"), id, gh, {}) /\ Good(Answer(s, {t}, "RateLimited"), id, gh, {})
  <2>1. "InvalidPacketSize" \in Outcomes /\ "RateLimited" \in Outcomes
    BY DEF Outcomes
  <2> QED
    BY <1>3, <2>1, AnswerKeeps, TablesKept
<1>8. Good([s EXCEPT !.worker[p][s.identity].rx = Append(@, t)], id, gh, {})
  <2>1. s.identity \in Identities /\ s.worker[p][s.identity] \in Worker
    BY <1>3, Fields
  <2>2. PICK w : w = [s.worker[p][s.identity] EXCEPT !.rx = Append(s.worker[p][s.identity].rx, t)]
    OBVIOUS
  <2>3. Append(s.worker[p][s.identity].rx, t) \in Seq(Txs)
    <3>1. s.worker[p][s.identity].rx \in Seq(Txs)
      BY <2>1 DEF Worker
    <3> QED
      BY <3>1, AppendMembers
  <2>4. w \in Worker /\ w.st = s.worker[p][s.identity].st /\ w.cancel = s.worker[p][s.identity].cancel
    BY <2>1, <2>2, <2>3 DEF Worker
  <2>5. StillSignalled(s.worker[p][s.identity], w)
    BY <2>4 DEF StillSignalled
  <2>6. [s EXCEPT !.worker[p][s.identity].rx = Append(@, t)] = [s EXCEPT !.worker[p][s.identity] = w]
    BY <1>3, <2>2 DEF Driver
  <2>7. SameTables(s, s)
    BY DEF SameTables
  <2> QED
    BY <1>3, <2>1, <2>4, <2>5, <2>6, <2>7, WorkerStepKeeps
<1>9. Good(SpawnConnecting(queued, p, 1), id, gh, {})
  <2>1. 1 \in 0..MaxConnectionAttempts
    BY DriverConstants
  <2> QED
    BY <1>6, <2>1, SpawnConnectingKeeps
<1>10. drv' = Accepted(s, t, p)
  BY <1>1, <1>2 DEF AcceptTx
<1>11. Accepted(s, t, p) \in {Answer(s, {t}, "InvalidPacketSize"), queued,
                              [s EXCEPT !.worker[p][s.identity].rx = Append(@, t)],
                              Answer(s, {t}, "RateLimited"), SpawnConnecting(queued, p, 1)}
  BY <1>5, Zenon DEF Accepted
<1> QED
  BY <1>6, <1>7, <1>8, <1>9, <1>10, <1>11

-----------------------------------------------------------------------------
(***************************************************************************)
(* The steps of the workers                                                *)
(***************************************************************************)

\* Head and tail of a sequence that is not empty.
LEMMA HeadRest ==
  ASSUME NEW S, NEW q \in Seq(S), q # <<>>
  PROVE  Head(q) \in S /\ Tail(q) \in Seq(S)
BY HeadTailProperties

\* A step of a worker that changes nothing but the worker.
LEMMA WorkerKept ==
  ASSUME NEW id, NEW gh, Good(drv, id, gh, {}), NEW p \in Peers, NEW i \in Identities, NEW w \in Worker, WorkerBecomes(p, i, w),
         StillSignalled(drv.worker[p][i], w)
  PROVE  Good(drv', id, gh, {})
<1>1. SameTables(drv, drv) /\ drv \in Driver
  BY DEF SameTables, Good
<1>2. drv' = [drv EXCEPT !.worker[p][i] = w]
  BY DEF WorkerBecomes
<1> QED
  BY <1>1, <1>2, WorkerStepKeeps

\* A transaction was written.
LEMMA SendOkKeeps ==
  ASSUME NEW id, NEW gh, Good(drv, id, gh, {}), NEW p \in Peers, NEW i \in Identities, SendOk(p, i)
  PROVE  Good(drv', id, gh, {})
<1>1. PICK w \in Worker : w = drv.worker[p][i] /\ w.queue # <<>>
  <2>1. drv.worker[p][i] \in Worker
    BY Fields DEF Good
  <2>2. drv.worker[p][i].queue # <<>>
    BY Zenon DEF SendOk
  <2> QED
    BY <2>1, <2>2
<1>2. w.queue \in Seq(Entry)
  BY <1>1 DEF Worker
<1>3. PICK x : x = Answer(drv, {Head(w.queue).tx}, "TxSent")
  OBVIOUS
<1>4. x \in Driver /\ SameTables(drv, x)
  <2>1. drv \in Driver /\ "TxSent" \in Outcomes
    BY DEF Good, Outcomes
  <2> QED
    BY <1>3, <2>1, AnswerKeeps
<1>5. PICK new : new = [w EXCEPT !.queue = Tail(w.queue)]
  OBVIOUS
<1>6. new \in Worker /\ new.st = w.st /\ new.cancel = w.cancel
  BY <1>1, <1>2, <1>5, HeadRest DEF Worker
<1>7. drv' = [x EXCEPT !.worker[p][i] = new]
  <2>1. drv' = [x EXCEPT !.worker[p][i].queue = Tail(@)]
    <3>1. drv' = [Answer(drv, {Head(drv.worker[p][i].queue).tx}, "TxSent")
                    EXCEPT !.worker[p][i].queue = Tail(@)]
      BY Zenon DEF SendOk
    <3> QED
      BY <1>1, <1>3, <3>1, Zenon
  <2>2. x.worker[p][i] = w
    BY <1>1, <1>4 DEF SameTables
  <2> QED
    BY <1>4, <1>5, <2>1, <2>2 DEF Driver
<1> QED
  BY <1>1, <1>4, <1>6, <1>7, WorkerStepKeeps DEF StillSignalled

\* A write failed: the worker goes on, or ends with its queue.
LEMMA SendFailedKeeps ==
  ASSUME NEW id, NEW gh, Good(drv, id, gh, {}), NEW p \in Peers, NEW i \in Identities, NEW error \in DOMAIN WriteErrors,
         SendFailed(p, i, error)
  PROVE  Good(drv', id, gh, {})
<1>1. PICK w \in Worker : w = drv.worker[p][i] /\ w.queue # <<>>
  <2>1. drv.worker[p][i] \in Worker
    BY Fields DEF Good
  <2>2. drv.worker[p][i].queue # <<>>
    BY Zenon DEF SendFailed
  <2> QED
    BY <2>1, <2>2
<1>2. PICK entry : entry = Head(w.queue)
  OBVIOUS
<1>3. w.queue \in Seq(Entry) /\ entry \in Entry /\ Tail(w.queue) \in Seq(Entry)
  <2>1. w.queue \in Seq(Entry)
    BY <1>1 DEF Worker
  <2> QED
    BY <1>1, <1>2, <2>1, HeadRest
<1>4. PICK queue : queue = IF GivesUp(entry) THEN Tail(w.queue)
                           ELSE Append(Tail(w.queue), [entry EXCEPT !.attempt = @ + 1])
  OBVIOUS
<1>5. queue \in Seq(Entry)
  <2>1. CASE GivesUp(entry)
    BY <1>3, <1>4, <2>1
  <2>2. CASE ~GivesUp(entry)
    <3>1. PICK a : a = entry.attempt
      OBVIOUS
    <3>2. a \in 1..MaxSendAttempt /\ ~(a >= MaxSendAttempt) /\ MaxSendAttempt \in Nat
      BY <1>3, <2>2, <3>1, DriverConstants DEF Entry, GivesUp
    <3>3. a + 1 \in 1..MaxSendAttempt
      BY <3>2
    <3>4. [entry EXCEPT !.attempt = a + 1] \in Entry
      BY <1>3, <3>3 DEF Entry
    <3> QED
      BY <1>3, <1>4, <2>2, <3>1, <3>4, AppendMembers
  <2> QED
    BY <2>1, <2>2
<1>6. PICK st, fatal : /\ st = IF error = "stream" THEN "running" ELSE "done"
                       /\ fatal = (error = "mismatch" /\ ~Drained(i))
  OBVIOUS
<1>7. PICK new : new = [w EXCEPT !.queue = queue, !.st = st, !.fatal = fatal]
  OBVIOUS
<1>8. fatal \in BOOLEAN
  BY <1>6, Zenon
<1>9. st \in {"none", "running", "done", "panicked"} /\ (st = "running" \/ st = "done")
  BY <1>6
<1>10. new \in Worker /\ new.st = st /\ new.cancel = w.cancel
  BY <1>1, <1>5, <1>7, <1>8, <1>9 DEF Worker
<1>11. PICK x : x = IF GivesUp(entry) THEN Answer(drv, {entry.tx}, "TxFailed") ELSE drv
  OBVIOUS
<1>12. x \in Driver /\ SameTables(drv, x)
  <2>1. drv \in Driver /\ SameTables(drv, drv) /\ "TxFailed" \in Outcomes
    BY DEF Good, SameTables, Outcomes
  <2> QED
    BY <1>11, <2>1, AnswerKeeps
<1>13. drv' = [x EXCEPT !.worker[p][i] = new] /\ w.st = "running"
  BY <1>1, <1>2, <1>4, <1>6, <1>7, <1>11, Zenon DEF SendFailed, Runs
<1>14. StillSignalled(w, new)
  BY <1>9, <1>10, <1>13 DEF StillSignalled
<1> QED
  BY <1>1, <1>10, <1>12, <1>13, <1>14, WorkerStepKeeps

\* A worker takes a transaction from its channel.
LEMMA WorkerRecvKeeps ==
  ASSUME NEW id, NEW gh, Good(drv, id, gh, {}), NEW p \in Peers, NEW i \in Identities, WorkerRecv(p, i)
  PROVE  Good(drv', id, gh, {})
<1>1. PICK w : w = drv.worker[p][i]
  OBVIOUS
<1>2. w \in Worker
  BY <1>1, Fields DEF Good
<1>3. PICK new : new = [w EXCEPT !.rx = Tail(w.rx), !.queue = <<FirstAttempt(Head(w.rx))>>]
  OBVIOUS
<1>4. w.rx # <<>> /\ WorkerBecomes(p, i, new)
  BY <1>1, <1>3, Zenon DEF WorkerRecv
<1>5. w.rx \in Seq(Txs)
  BY <1>2 DEF Worker
<1>6. Head(w.rx) \in Txs /\ Tail(w.rx) \in Seq(Txs)
  BY <1>4, <1>5, HeadRest
<1>7. <<FirstAttempt(Head(w.rx))>> \in Seq(Entry)
  <2>1. 1 \in 1..MaxSendAttempt
    BY DriverConstants
  <2>2. FirstAttempt(Head(w.rx)) \in Entry
    BY <1>6, <2>1 DEF FirstAttempt, Entry
  <2> QED
    BY <2>2
<1>8. new \in Worker /\ new.st = w.st /\ new.cancel = w.cancel
  BY <1>2, <1>3, <1>6, <1>7 DEF Worker
<1>9. StillSignalled(drv.worker[p][i], new)
  BY <1>1, <1>8 DEF StillSignalled
<1> QED
  BY <1>4, <1>8, <1>9, WorkerKept

\* Steps that end a worker: it returns, sees its connection closed, is cancelled
\* or panics.
LEMMA WorkerEndsKeeps ==
  ASSUME NEW id, NEW gh, Good(drv, id, gh, {}), NEW p \in Peers, NEW i \in Identities,
         \/ WorkerReturns(p, i) \/ WorkerCanceled(p, i) \/ WorkerPanics(p, i)
         \/ \E error \in {"lost", "mismatch"} : WorkerSeesClose(p, i, error)
  PROVE  Good(drv', id, gh, {})
<1>1. PICK w : w = drv.worker[p][i]
  OBVIOUS
<1>2. w \in Worker
  BY <1>1, Fields DEF Good
<1>3. ASSUME NEW new \in Worker, new.st \in {"done", "panicked"}, WorkerBecomes(p, i, new)
      PROVE  Good(drv', id, gh, {})
  <2>1. StillSignalled(drv.worker[p][i], new)
    BY <1>3 DEF StillSignalled
  <2> QED
    BY <1>3, <2>1, WorkerKept
<1>4. CASE WorkerReturns(p, i)
  <2>1. PICK new : new = [w EXCEPT !.st = "done"]
    OBVIOUS
  <2>2. new \in Worker /\ new.st = "done"
    BY <1>2, <2>1 DEF Worker
  <2>3. WorkerBecomes(p, i, new)
    BY <1>1, <1>4, <2>1, Zenon DEF WorkerReturns
  <2> QED
    BY <1>3, <2>2, <2>3
<1>5. CASE WorkerCanceled(p, i)
  <2>1. PICK new : new = [w EXCEPT !.st = "done", !.cancel = FALSE]
    OBVIOUS
  <2>2. new \in Worker /\ new.st = "done"
    BY <1>2, <2>1 DEF Worker
  <2>3. WorkerBecomes(p, i, new)
    BY <1>1, <1>5, <2>1, Zenon DEF WorkerCanceled
  <2> QED
    BY <1>3, <2>2, <2>3
<1>6. CASE WorkerPanics(p, i)
  <2>1. PICK new : new = [NoWorker EXCEPT !.st = "panicked"]
    OBVIOUS
  <2>2. new \in Worker /\ new.st = "panicked"
    BY <2>1, NoneTypes DEF Worker
  <2>3. WorkerBecomes(p, i, new)
    BY <1>6, <2>1, Zenon DEF WorkerPanics
  <2> QED
    BY <1>3, <2>2, <2>3
<1>7. ASSUME NEW error \in {"lost", "mismatch"}, WorkerSeesClose(p, i, error)
      PROVE  Good(drv', id, gh, {})
  <2>1. PICK fatal \in BOOLEAN : fatal = (error = "mismatch" /\ ~Drained(i))
    BY Zenon
  <2>2. PICK new : new = [w EXCEPT !.st = "done", !.fatal = fatal]
    OBVIOUS
  <2>3. new \in Worker /\ new.st = "done"
    BY <1>2, <2>2 DEF Worker
  <2>4. WorkerBecomes(p, i, new)
    BY <1>1, <1>7, <2>1, <2>2, Zenon DEF WorkerSeesClose
  <2> QED
    BY <1>3, <2>3, <2>4
<1> QED
  BY <1>4, <1>5, <1>6, <1>7

\* A tasklet joins a worker; for the loop there is none any more.
LEMMA DrainJoinKeeps ==
  ASSUME NEW id, NEW gh, Good(drv, id, gh, {}), NEW p \in Peers, NEW i \in Identities, DrainJoin(p, i)
  PROVE  Good(drv', id, gh, {})
<1>1. PICK w, held : /\ w = drv.worker[p][i]
                     /\ held = TxsOf(drv.left[p][i]) \cup ToSet(w.rx) \cup TxsOf(w.queue)
  OBVIOUS
<1>2. PICK x : x = Answer(drv, held, "DriverIdentityChanged")
  OBVIOUS
<1>3. x \in Driver /\ SameTables(drv, x)
  <2>1. drv \in Driver /\ "DriverIdentityChanged" \in Outcomes
    BY DEF Good, Outcomes
  <2> QED
    BY <1>2, <2>1, AnswerKeeps
<1>4. PICK y : y = [x EXCEPT !.left[p][i] = <<>>]
  OBVIOUS
<1>5. y \in Driver /\ SameTables(x, y)
  <2>1. PICK mine : mine = [x.left[p] EXCEPT ![i] = <<>>]
    OBVIOUS
  <2>2. x.left \in [Peers -> [Identities -> Seq(Entry)]] /\ <<>> \in Seq(Entry)
    BY <1>3, Fields, EmptyMembers
  <2>3. mine \in [Identities -> Seq(Entry)]
    BY <2>1, <2>2
  <2>4. PICK left : left = [x.left EXCEPT ![p] = mine]
    OBVIOUS
  <2>5. left \in [Peers -> [Identities -> Seq(Entry)]]
    BY <2>2, <2>3, <2>4
  <2>6. y = [x EXCEPT !.left = left]
    BY <1>3, <1>4, <2>1, <2>4 DEF Driver
  <2>7. y \in Driver
    BY <1>3, <2>5, <2>6 DEF Driver
  <2> QED
    BY <1>3, <2>6, <2>7 DEF Driver, SameTables
<1>6. drv' = [y EXCEPT !.worker[p][i] = NoWorker]
  <2>1. drv' = [x EXCEPT !.worker[p][i] = NoWorker, !.left[p][i] = <<>>]
    BY <1>1, <1>2, Zenon DEF DrainJoin
  <2>2. PICK new : new = [x.worker EXCEPT ![p][i] = NoWorker]
    OBVIOUS
  <2>3. PICK left : left = [x.left EXCEPT ![p][i] = <<>>]
    OBVIOUS
  <2>4. drv' = [x EXCEPT !.worker = new, !.left = left]
    BY <1>3, <2>1, <2>2, <2>3 DEF Driver
  <2>5. y = [x EXCEPT !.left = left] /\ y.worker = x.worker
    BY <1>3, <1>4, <2>3 DEF Driver
  <2>6. [y EXCEPT !.worker[p][i] = NoWorker] = [y EXCEPT !.worker = new]
    BY <1>5, <2>2, <2>5 DEF Driver
  <2> QED
    BY <1>3, <2>4, <2>5, <2>6 DEF Driver
<1>7. StillSignalled(drv.worker[p][i], NoWorker) /\ NoWorker \in Worker
  BY NoneTypes DEF StillSignalled, NoWorker
<1>8. SameTables(drv, y)
  BY <1>3, <1>5, SameTablesJoin
<1> QED
  BY <1>5, <1>6, <1>7, <1>8, WorkerStepKeeps

-----------------------------------------------------------------------------
(***************************************************************************)
(* The network and the clock                                               *)
(***************************************************************************)

\* A broken connection stays in the map, with its peers.
LEMMA ConnectionDiesKeeps ==
  ASSUME NEW id, NEW gh, Good(drv, id, gh, {}), NEW a \in Addrs, NEW error \in {"lost", "mismatch"}, ConnectionDies(a, error)
  PROVE  Good(drv', id, gh, {})
<1>0. drv \in Driver /\ drv.conns \in [Addrs -> Connection] /\ drv.pending \subseteq Versioned
  BY Fields DEF Good
<1>1. PICK c, conns : c = [drv.conns[a] EXCEPT !.st = error] /\ conns = [drv.conns EXCEPT ![a] = c]
  OBVIOUS
<1>2. drv.conns[a].st = "open"
  BY DEF ConnectionDies
<1>3. c \in Connection /\ c.st # "none" /\ c.version = drv.conns[a].version /\ c.peers = drv.conns[a].peers
  BY <1>0, <1>1 DEF Connection
<1>4. conns \in [Addrs -> Connection] /\ conns[a] = c /\ \A b \in Addrs \ {a} : conns[b] = drv.conns[b]
  BY <1>0, <1>1, <1>3
<1>5. drv' = [drv EXCEPT !.conns = conns]
  BY <1>0, <1>1 DEF ConnectionDies, Driver
<1>6. drv' \in Driver
  BY <1>0, <1>4, <1>5 DEF Driver
<1>7. /\ drv'.conns = conns /\ drv'.identity = drv.identity /\ drv'.connecting = drv.connecting
      /\ drv'.blocked = drv.blocked /\ drv'.handle = drv.handle /\ drv'.worker = drv.worker
      /\ drv'.pending = drv.pending /\ drv'.evicting = drv.evicting /\ drv'.orphans = drv.orphans
  BY <1>0, <1>5 DEF Driver
<1>8. \A b \in Addrs : /\ conns[b].version = drv.conns[b].version /\ conns[b].peers = drv.conns[b].peers
                       /\ conns[b].st = "none" <=> drv.conns[b].st = "none"
  BY <1>2, <1>3, <1>4
<1>9. Linked(drv')
  BY <1>7, <1>8 DEF Good, Linked, HasWorker
<1>10. Mapped(drv')
  <2>1. ASSUME NEW b \in Addrs
        PROVE  IF conns[b].st = "none" THEN conns[b] = NoConnection ELSE conns[b].version # 0
    <3>1. IF drv.conns[b].st = "none" THEN drv.conns[b] = NoConnection ELSE drv.conns[b].version # 0
      BY DEF Good, Mapped
    <3> QED
      BY <1>2, <1>3, <1>4, <1>8, <3>1
  <2> QED
    BY <1>7, <2>1 DEF Mapped
<1>11. UnusedKnown(drv', {})
  BY <1>7, <1>8 DEF Good, UnusedKnown
<1>12. PendingUsed(drv')
  <2>1. \A e \in drv.pending : e[1] \in Addrs
    BY <1>0 DEF Versioned
  <2> QED
    BY <1>7, <1>8, <2>1 DEF Good, PendingUsed
<1>15. Worked(drv', gh)
  BY <1>7, <1>8 DEF Good, Worked
<1>13. Dials(drv') /\ Waits(drv')
  BY <1>7, <1>8 DEF Good, Dials, Waits, HasWorker
<1>14. Evictions(drv')
  BY <1>7, <1>8 DEF Good, Evictions, HasWorker, LeftBehind, Signalled
<1> QED
  BY <1>6, <1>7, <1>9, <1>10, <1>11, <1>12, <1>13, <1>14, <1>15 DEF Good

\* A peer is not recent any more.
LEMMA GracePeriodElapsesKeeps ==
  ASSUME NEW id, NEW gh, Good(drv, id, gh, {}), NEW p \in Peers, GracePeriodElapses(p)
  PROVE  Good(drv', id, gh, {})
<1>1. drv \in Driver /\ drv' = [drv EXCEPT !.recent = @ \ {p}]
  BY DEF Good, GracePeriodElapses
<1>2. drv' \in Driver
  BY <1>1 DEF Driver
<1>3. SameTables(drv, drv')
  BY <1>1 DEF Driver, SameTables
<1> QED
  BY <1>2, <1>3, TablesKept

-----------------------------------------------------------------------------
(***************************************************************************)
(* Evictions and address changes                                           *)
(***************************************************************************)

\* The workers of P are told to stop and nothing else changes.
LEMMA CancelFields ==
  ASSUME NEW s \in Driver, NEW P \in SUBSET Peers, NEW r, r = Cancel(s, P)
  PROVE  /\ r \in Driver /\ SameButWorkers(s, r)
         /\ \A q \in Peers : Signalled(s, q) => Signalled(r, q)
         /\ \A q \in P : HasWorker(s, q) => Signalled(r, q)
<1>1. s.worker \in [Peers -> [Identities -> Worker]] /\ s.identity \in Identities
  BY Fields
<1>2. PICK i \in Identities : i = s.identity
  BY <1>1
<1>3. PICK new : new = [q \in Peers |-> IF q \in P /\ HasWorker(s, q)
                                         THEN [s.worker[q] EXCEPT ![i].cancel = TRUE] ELSE s.worker[q]]
  OBVIOUS
<1>4. ASSUME NEW q \in Peers
      PROVE  /\ new[q] \in [Identities -> Worker]
             /\ q \in P /\ HasWorker(s, q) => new[q][i].cancel = TRUE
             /\ s.worker[q][i].cancel \/ s.worker[q][i].st # "running" =>
                  new[q][i].cancel \/ new[q][i].st # "running"
  <2>1. PICK w, mine : w = [s.worker[q][i] EXCEPT !.cancel = TRUE] /\ mine = [s.worker[q] EXCEPT ![i] = w]
    OBVIOUS
  <2>2. s.worker[q] \in [Identities -> Worker] /\ s.worker[q][i] \in Worker
    BY <1>1
  <2>3. w \in Worker /\ w.cancel = TRUE
    BY <2>1, <2>2 DEF Worker
  <2>4. mine \in [Identities -> Worker] /\ mine[i] = w
    BY <2>1, <2>2, <2>3
  <2>5. new[q] = IF q \in P /\ HasWorker(s, q) THEN mine ELSE s.worker[q]
    BY <1>3, <2>1
  <2> QED
    BY <2>2, <2>3, <2>4, <2>5
<1>5. new \in [Peers -> [Identities -> Worker]]
  BY <1>3, <1>4
<1>6. r = [s EXCEPT !.worker = new]
  BY <1>2, <1>3 DEF Cancel, Driver
<1>7. r \in Driver
  BY <1>5, <1>6 DEF Driver
<1>8. SameButWorkers(s, r) /\ r.worker = new
  BY <1>6 DEF Driver, SameButWorkers
<1>9. r.identity = i
  BY <1>2, <1>8 DEF SameButWorkers
<1>10. \A q \in Peers : Signalled(s, q) => Signalled(r, q)
  BY <1>2, <1>4, <1>8, <1>9 DEF Signalled
<1>11. \A q \in P : HasWorker(s, q) => Signalled(r, q)
  BY <1>4, <1>8, <1>9 DEF Signalled
<1> QED
  BY <1>7, <1>8, <1>10, <1>11

\* A connection in use, under its present version.
InUse(s, e) == e \in Versioned /\ s.conns[e[1]].version = e[2] /\ s.conns[e[1]].peers # {}

\* The peers of P are told to stop; those newly under eviction are among them.
LEMMA CancelKeeps ==
  ASSUME NEW id, NEW gh, NEW s, Good(s, id, gh, {}), NEW P \in SUBSET Peers, NEW x \in Driver,
         x.identity = s.identity, x.connecting = s.connecting, x.blocked = s.blocked,
         x.handle = s.handle, x.worker = s.worker, x.conns = s.conns, x.orphans = s.orphans,
         \A e \in x.pending : e \in s.pending \/ InUse(s, e),
         \A q \in x.evicting : q \in s.evicting \/ (q \in P /\ \E a \in Addrs : q \in s.conns[a].peers)
  PROVE  Good(Cancel(x, P), id, gh, {})
<1>1. PICK r : r = Cancel(x, P)
  OBVIOUS
<1>2. /\ r \in Driver /\ SameButWorkers(x, r)
      /\ \A q \in Peers : Signalled(x, q) => Signalled(r, q)
      /\ \A q \in P : HasWorker(x, q) => Signalled(r, q)
  BY <1>1, CancelFields
<1>3. Linked(r) /\ Mapped(r) /\ Worked(r, gh) /\ UnusedKnown(r, {}) /\ Waits(r)
  BY <1>2 DEF SameButWorkers, Good, Linked, Mapped, Worked, UnusedKnown, Waits, HasWorker
<1>4. PendingUsed(r)
  BY <1>2 DEF SameButWorkers, Good, PendingUsed, InUse
<1>5. Dials(r)
  BY <1>2 DEF SameButWorkers, Good, Dials, HasWorker
<1>6. Evictions(r)
  <2>1. ASSUME NEW q \in x.evicting
        PROVE  /\ \E a \in Addrs : q \in r.conns[a].peers
               /\ HasWorker(r, q) /\ ~LeftBehind(r, q) => Signalled(r, q)
    <3>1. q \in Peers
      BY Fields
    <3>2. /\ (HasWorker(r, q) <=> HasWorker(s, q)) /\ (LeftBehind(r, q) <=> LeftBehind(s, q))
          /\ (HasWorker(x, q) <=> HasWorker(s, q)) /\ (Signalled(x, q) <=> Signalled(s, q))
          /\ r.conns = s.conns
      BY <1>2 DEF SameButWorkers, HasWorker, LeftBehind, Signalled
    <3>3. CASE q \in s.evicting
      <4>1. /\ \E a \in Addrs : q \in s.conns[a].peers
            /\ HasWorker(s, q) /\ ~LeftBehind(s, q) => Signalled(s, q)
        BY <3>3 DEF Good, Evictions
      <4> QED
        BY <1>2, <3>1, <3>2, <4>1
    <3>4. CASE q \in P /\ \E a \in Addrs : q \in s.conns[a].peers
      BY <1>2, <3>2, <3>4
    <3> QED
      BY <3>3, <3>4
  <2> QED
    BY <1>2, <2>1 DEF Evictions, SameButWorkers
<1> QED
  BY <1>1, <1>2, <1>3, <1>4, <1>5, <1>6 DEF Good, SameButWorkers

\* A connection that somebody uses can be pending.
LEMMA UsedIsInUse ==
  ASSUME NEW id, NEW gh, NEW s, Good(s, id, gh, {}), NEW a \in Addrs, s.conns[a].peers # {}
  PROVE  InUse(s, <<a, s.conns[a].version>>)
<1>1. s.conns[a].st # "none"
  BY DEF Good, Mapped, NoConnection
<1>2. <<a, s.conns[a].version>> \in Versioned
  BY <1>1, VersionIsGiven
<1> QED
  BY <1>2 DEF InUse

\* Evicting signals all that share a connection, which is in use and now pending.
LEMMA EvictKeeps ==
  ASSUME NEW id, NEW gh, NEW s, Good(s, id, gh, {}), NEW plan \in SUBSET Peers
  PROVE  Good(Evict(s, plan), id, gh, {})
<1>0. s \in Driver /\ s.pending \subseteq Versioned /\ s.evicting \subseteq Peers
  BY Fields DEF Good
<1>1. PICK chosen : chosen = {p \in plan : HasWorker(s, p)}
  OBVIOUS
<1>2. PICK at : at = {s.handle[p].addr : p \in {q \in chosen : OnCurrentConnection(s, q)}}
  OBVIOUS
<1>3. PICK all : all = chosen \cup UNION {s.conns[a].peers : a \in at}
  OBVIOUS
<1>4. PICK new : new = {<<a, s.conns[a].version>> : a \in at}
  OBVIOUS
<1>5. ASSUME NEW p \in chosen
      PROVE  /\ p \in Peers /\ s.handle[p].addr \in Addrs
             /\ p \in s.conns[s.handle[p].addr].peers
  BY <1>1 DEF Good, Linked
<1>6. at \subseteq Addrs /\ \A a \in at : s.conns[a].peers # {}
  BY <1>2, <1>5
<1>7. \A e \in new : InUse(s, e)
  BY <1>4, <1>6, UsedIsInUse
<1>8. new \subseteq Versioned
  BY <1>7 DEF InUse
<1>9. \A a \in Addrs : s.conns[a].peers \subseteq Peers
  BY <1>0, Fields DEF Connection
<1>10. all \in SUBSET Peers
  BY <1>3, <1>5, <1>6, <1>9
<1>11. \A q \in all : \E a \in Addrs : q \in s.conns[a].peers
  BY <1>3, <1>5, <1>6
<1>12. PICK x : x = [s EXCEPT !.evicting = s.evicting \cup all, !.pending = s.pending \cup new]
  OBVIOUS
<1>13. x \in Driver
  <2>1. s.evicting \cup all \in SUBSET Peers /\ s.pending \cup new \in SUBSET Versioned
    BY <1>0, <1>8, <1>10
  <2> QED
    BY <1>0, <1>12, <2>1 DEF Driver
<1>14. /\ x.identity = s.identity /\ x.connecting = s.connecting /\ x.blocked = s.blocked
       /\ x.handle = s.handle /\ x.worker = s.worker /\ x.conns = s.conns /\ x.orphans = s.orphans
       /\ x.pending = s.pending \cup new /\ x.evicting = s.evicting \cup all
  BY <1>0, <1>12 DEF Driver
<1>15. Evict(s, plan) = Cancel(x, all)
  BY <1>1, <1>2, <1>3, <1>4, <1>12 DEF Evict
<1>16. \A e \in x.pending : e \in s.pending \/ InUse(s, e)
  BY <1>7, <1>14
<1>17. \A q \in x.evicting : q \in s.evicting \/ (q \in all /\ \E a \in Addrs : q \in s.conns[a].peers)
  BY <1>11, <1>14
<1> QED
  BY <1>10, <1>13, <1>14, <1>15, <1>16, <1>17, CancelKeeps

\* A plan names peers.
LEMMA PlansArePeers ==
  ASSUME NEW id, NEW gh, Good(drv, id, gh, {}), NEW n, NEW plan \in Plans(n)
  PROVE  plan \in SUBSET Peers
<1>1. \A a \in Addrs : drv.conns[a].peers \subseteq Peers
  BY Fields DEF Good, Connection
<1>2. ASSUME NEW T \in SUBSET Addrs PROVE PeersAt(T) \subseteq Peers
  BY <1>1 DEF PeersAt
<1>3. IdleGroups \subseteq Addrs /\ NotEvicting \subseteq Addrs /\ Connected(drv) \subseteq Addrs
  BY DEF IdleGroups, NotEvicting, Connected
<1>4. ASSUME NEW S \in SUBSET Addrs, NEW k, NEW T \in LowestStaked(S, k) PROVE PeersAt(T) \subseteq Peers
  <2>1. T \in SUBSET Addrs
    BY DEF LowestStaked
  <2> QED
    BY <1>2, <2>1
<1>5. PICK A, B, C : /\ A = {PeersAt(T) : T \in LowestStaked(IdleGroups, n)}
                     /\ B = {PeersAt(T) : T \in LowestStaked(NotEvicting, n)}
                     /\ C = {PeersAt(T) : T \in LowestStaked(Connected(drv), 1)}
  OBVIOUS
<1>6. plan \in A \/ plan \in B \/ plan \in C \/ plan = {}
  BY <1>5 DEF Plans
<1>7. A \subseteq SUBSET Peers /\ B \subseteq SUBSET Peers /\ C \subseteq SUBSET Peers
  BY <1>3, <1>4, <1>5
<1> QED
  BY <1>6, <1>7

\* The top of the loop.
LEMMA DoEvictionKeeps ==
  ASSUME NEW id, NEW gh, Good(drv, id, gh, {}), DoEviction
  PROVE  Good(drv', id, gh, {})
<1>1. PICK plan \in Plans(EvictionCountRequired) : drv' = Evict(drv, plan)
  BY DEF DoEviction
<1>2. plan \in SUBSET Peers
  BY PlansArePeers
<1> QED
  BY <1>1, <1>2, EvictKeeps

\* Moved peers are told to stop; a connection whose peer has no address is pending.
LEMMA HandleRemotePeerAddrChangeKeeps ==
  ASSUME NEW id, NEW gh, Good(drv, id, gh, {}), NEW changed \in SUBSET Moved, HandleRemotePeerAddrChange(changed)
  PROVE  Good(drv', id, gh, {})
<1>0. drv \in Driver /\ drv.pending \subseteq Versioned /\ drv.evicting \subseteq Peers
  BY Fields DEF Good
<1>1. PICK gone : gone = {p \in changed : tpu_addr[p] = NoAddr}
  OBVIOUS
<1>2. PICK new : new = {<<drv.handle[p].addr, drv.handle[p].version>> : p \in gone}
  OBVIOUS
<1>3. changed \in SUBSET Peers /\ \A p \in changed : HasWorker(drv, p)
  BY DEF Moved
<1>4. ASSUME NEW p \in gone PROVE InUse(drv, <<drv.handle[p].addr, drv.handle[p].version>>)
  <2>1. HasWorker(drv, p) /\ p \in Peers
    BY <1>1, <1>3
  <2>2. /\ drv.handle[p].addr \in Addrs
        /\ drv.conns[drv.handle[p].addr].version = drv.handle[p].version
        /\ drv.conns[drv.handle[p].addr].peers # {}
    BY <2>1 DEF Good, Linked
  <2>3. InUse(drv, <<drv.handle[p].addr, drv.conns[drv.handle[p].addr].version>>)
    BY <2>2, UsedIsInUse
  <2> QED
    BY <2>2, <2>3
<1>5. \A e \in new : InUse(drv, e)
  BY <1>2, <1>4
<1>6. new \subseteq Versioned
  BY <1>5 DEF InUse
<1>7. PICK x : x = [drv EXCEPT !.pending = drv.pending \cup new]
  OBVIOUS
<1>8. x \in Driver
  <2>1. drv.pending \cup new \in SUBSET Versioned
    BY <1>0, <1>6
  <2> QED
    BY <1>0, <1>7, <2>1 DEF Driver
<1>9. /\ x.identity = drv.identity /\ x.connecting = drv.connecting /\ x.blocked = drv.blocked
      /\ x.handle = drv.handle /\ x.worker = drv.worker /\ x.conns = drv.conns /\ x.orphans = drv.orphans
      /\ x.pending = drv.pending \cup new /\ x.evicting = drv.evicting
  BY <1>0, <1>7 DEF Driver
<1>10. drv' = Cancel(x, changed)
  BY <1>1, <1>2, <1>7 DEF HandleRemotePeerAddrChange
<1>11. \A e \in x.pending : e \in drv.pending \/ InUse(drv, e)
  BY <1>5, <1>9
<1> QED
  BY <1>3, <1>8, <1>9, <1>10, <1>11, CancelKeeps

-----------------------------------------------------------------------------
(***************************************************************************)
(* Results of connecting tasks                                             *)
(***************************************************************************)

Forgets(s, a, r) == r = [s EXCEPT !.connecting[a] = NoConnecting]

\* An attempt that is not waiting leaves the map; its peers are dialled no more.
LEMMA AttemptEnds ==
  ASSUME NEW id, NEW gh, NEW s, Good(s, id, gh, {}), NEW a \in Addrs, s.connecting[a].st # "waiting", NEW r, Forgets(s, a, r)
  PROVE  /\ Good(r, id, gh, {}) /\ r.conns = s.conns /\ r.version = s.version /\ r.handle = s.handle
         /\ r.connecting[a].st = "none"
         /\ \A p \in ToSet(s.connecting[a].peers) : \A b \in Addrs : p \notin ToSet(r.connecting[b].peers)
<1>0. s \in Driver /\ s.connecting \in [Addrs -> Connecting]
  BY Fields DEF Good
<1>1. PICK new : new = [s.connecting EXCEPT ![a] = NoConnecting]
  OBVIOUS
<1>2. /\ new \in [Addrs -> Connecting] /\ new[a] = NoConnecting
      /\ \A b \in Addrs \ {a} : new[b] = s.connecting[b]
  BY <1>0, <1>1, NoneTypes
<1>3. r = [s EXCEPT !.connecting = new]
  BY <1>0, <1>1 DEF Driver, Forgets
<1>4. r \in Driver
  BY <1>0, <1>2, <1>3 DEF Driver
<1>5. /\ r.connecting = new /\ r.blocked = s.blocked /\ SameConnections(s, r) /\ r.version = s.version
  BY <1>0, <1>3 DEF Driver, SameConnections
<1>6. NoConnecting.st = "none" /\ NoConnecting.peers = <<>> /\ ToSet(<<>>) = {}
  BY EmptyMembers DEF NoConnecting
<1>7. Linked(r) /\ Mapped(r) /\ Worked(r, gh) /\ UnusedKnown(r, {}) /\ PendingUsed(r)
  BY <1>5 DEF SameConnections, Good, Linked, Mapped, Worked, UnusedKnown, PendingUsed, HasWorker
<1>8. Evictions(r)
  BY <1>5 DEF SameConnections, Good, Evictions, HasWorker, LeftBehind, Signalled
<1>9. \A b \in Addrs, p \in Peers : p \in ToSet(new[b].peers) => b # a /\ p \in ToSet(s.connecting[b].peers)
  BY <1>2, <1>6
<1>10. Dials(r)
  <2>1. \A b \in Addrs : new[b].st = "none" <=> new[b].peers = <<>>
    BY <1>2, <1>6 DEF Good, Dials
  <2>2. \A b \in Addrs : new[b].st # "none" => r.conns[b].st = "none"
    BY <1>2, <1>5, <1>6 DEF Good, Dials, SameConnections
  <2>3. ASSUME NEW b \in Addrs, NEW q \in Peers, q \in ToSet(new[b].peers)
        PROVE  /\ ~HasWorker(r, q)
               /\ \A d \in Addrs : q \in ToSet(new[d].peers) => b = d
    <3>1. q \in ToSet(s.connecting[b].peers)
      BY <1>9, <2>3
    <3>2. ~HasWorker(s, q) /\ \A d \in Addrs : q \in ToSet(s.connecting[d].peers) => b = d
      BY <3>1 DEF Good, Dials
    <3> QED
      BY <1>5, <1>9, <3>2 DEF HasWorker, SameConnections
  <2> QED
    BY <1>5, <2>1, <2>2, <2>3 DEF Dials
<1>11. Waits(r)
  BY <1>2, <1>5, <1>6 DEF Good, Waits
<1>12. ASSUME NEW p \in ToSet(s.connecting[a].peers), NEW b \in Addrs PROVE p \notin ToSet(r.connecting[b].peers)
  <2>1. p \in Peers
    <3>1. s.connecting[a].peers \in Seq(Peers)
      BY <1>0 DEF Connecting
    <3> QED
      BY <3>1, SeqMembers
  <2>2. \A d \in Addrs : p \in ToSet(s.connecting[d].peers) => a = d
    BY <2>1 DEF Good, Dials
  <2> QED
    BY <1>5, <1>9, <2>1, <2>2
<1> QED
  BY <1>2, <1>4, <1>5, <1>6, <1>7, <1>8, <1>10, <1>11, <1>12 DEF Good, SameConnections

\* The queues of all peers of an attempt are dropped.
LEMMA AllUnreachableKeeps ==
  ASSUME NEW id, NEW gh, NEW s, Good(s, id, gh, {}), NEW peers \in Seq(Peers)
  PROVE  Good(AllUnreachable(s, peers), id, gh, {})
<1> DEFINE Rec(iter) == [S \in SUBSET (DOMAIN peers) |->
             IF S = {} THEN s ELSE UnreachablePeer(iter[S \ {Max(S)}], peers[Max(S)])]
           Iter == CHOOSE iter : iter = Rec(iter)
<1>1. PICK N \in Nat : N = Len(peers) /\ DOMAIN peers = 1..N /\ \A i \in 1..N : peers[i] \in Peers
  BY LenProperties, ElementOfSeq
<1>2. PICK V : V = {r \in Driver : Good(r, id, gh, {})}
  OBVIOUS
<1>3. s \in V
  BY <1>2 DEF Good
<1>4. ASSUME NEW i \in 1..N, NEW r \in V PROVE UnreachablePeer(r, peers[i]) \in V
  <2>1. Good(UnreachablePeer(r, peers[i]), id, gh, {})
    BY <1>1, <1>2, <1>4, UnreachablePeerKeeps, TablesKept
  <2> QED
    BY <1>2, <2>1 DEF Good
<1>5. PICK act : act = [i \in 1..N |-> [r \in V |-> UnreachablePeer(r, peers[i])]]
  OBVIOUS
<1>6. act \in [1..N -> [V -> V]]
  BY <1>4, <1>5
<1>7. PICK h \in [SUBSET (1..N) -> V] : Folds(h, s, act, N)
  BY <1>3, <1>6, FoldExists
<1>8. h = Rec(h)
  <2>1. ASSUME NEW S \in SUBSET (1..N)
        PROVE  h[S] = IF S = {} THEN s ELSE UnreachablePeer(h[S \ {Max(S)}], peers[Max(S)])
    <3>1. CASE S = {}
      BY <1>7, <3>1 DEF Folds
    <3>2. CASE S # {}
      <4>1. Max(S) \in 1..N
        BY <3>2, MaxOfNumbers
      <4>2. h[S \ {Max(S)}] \in V /\ h[S] = act[Max(S)][h[S \ {Max(S)}]]
        BY <1>7, <3>2 DEF Folds
      <4> QED
        BY <1>5, <3>2, <4>1, <4>2
    <3> QED
      BY <3>1, <3>2
  <2> QED
    BY <1>1, <2>1
<1>9. PICK it : it = Rec(it) /\ AllUnreachable(s, peers) = it[DOMAIN peers]
  <2>1. Iter = Rec(Iter)
    BY <1>8
  <2>2. AllUnreachable(s, peers) = Iter[DOMAIN peers]
    BY DEF AllUnreachable, FoldLeft, MapThenFoldSet
  <2> HIDE DEF Iter
  <2> QED
    BY <2>1, <2>2
<1>10. Follows(it, act, V, N)
  <2>1. ASSUME NEW n \in 1..N, it[1..(n - 1)] \in V
        PROVE  it[1..n] = act[n][it[1..(n - 1)]]
    <3>1. n \in Nat /\ n # 0 /\ 1..n \in SUBSET (DOMAIN peers)
      BY <1>1
    <3>2. 1..n # {} /\ Max(1..n) = n /\ (1..n) \ {n} = 1..(n - 1)
      BY <3>1, Initial
    <3>3. it[1..n] = UnreachablePeer(it[(1..n) \ {Max(1..n)}], peers[Max(1..n)])
      BY <1>9, <3>1, <3>2
    <3> QED
      BY <1>5, <2>1, <3>2, <3>3
  <2> QED
    BY <2>1 DEF Follows
<1>11. it[{}] = s
  BY <1>9
<1>12. PICK f : Traces(f, s, act, V, N) /\ f[N] = it[1..N]
  <2>1. Iterates(it, s, act, V, N)
    BY <1>3, <1>6, <1>10, <1>11 DEF Iterates
  <2> QED
    BY <2>1, FoldTraces
<1>13. f[N] \in V /\ AllUnreachable(s, peers) = f[N]
  BY <1>1, <1>9, <1>12, N \in 0..N DEF Traces
<1> QED
  BY <1>2, <1>13

\* What Reattempt does for one peer.
Again(r, a, attempt, p) ==
  IF tpu_addr[p] = NoAddr THEN UnreachablePeer(r, p)
  ELSE SpawnConnecting(r, p, IF tpu_addr[p] # a THEN 1 ELSE attempt + 1)

\* The peers of a failed attempt are dialled again, at where they are now.
LEMMA ReattemptKeeps ==
  ASSUME NEW id, NEW gh, NEW s, Good(s, id, gh, {}), NEW a \in Addrs, NEW attempt \in 0..MaxConnectionAttempts,
         attempt < MaxConnectionAttempts, NEW peers \in Seq(Peers),
         tpu_addr \in [Peers -> Addrs \cup {NoAddr}]
  PROVE  Good(Reattempt(s, a, attempt, peers), id, gh, {})
<1> DEFINE Rec(iter) == [S \in SUBSET (DOMAIN peers) |->
             IF S = {} THEN s ELSE Again(iter[S \ {Max(S)}], a, attempt, peers[Max(S)])]
           Iter == CHOOSE iter : iter = Rec(iter)
<1>1. PICK N \in Nat : N = Len(peers) /\ DOMAIN peers = 1..N /\ \A i \in 1..N : peers[i] \in Peers
  BY LenProperties, ElementOfSeq
<1>2. PICK V : V = {r \in Driver : Good(r, id, gh, {})}
  OBVIOUS
<1>3. s \in V
  BY <1>2 DEF Good
<1>4. ASSUME NEW i \in 1..N, NEW r \in V PROVE Again(r, a, attempt, peers[i]) \in V
  <2>1. PICK p \in Peers : p = peers[i]
    BY <1>1
  <2>2. Good(UnreachablePeer(r, p), id, gh, {})
    BY <1>2, <1>4, UnreachablePeerKeeps, TablesKept
  <2>3. 1 \in 0..MaxConnectionAttempts /\ attempt + 1 \in 0..MaxConnectionAttempts
    BY DriverConstants
  <2>4. Good(SpawnConnecting(r, p, 1), id, gh, {}) /\ Good(SpawnConnecting(r, p, attempt + 1), id, gh, {})
    BY <1>2, <1>4, <2>3, SpawnConnectingKeeps
  <2>5. Good(Again(r, a, attempt, p), id, gh, {})
    BY <2>2, <2>4 DEF Again
  <2> QED
    BY <1>2, <2>1, <2>5 DEF Good
<1>5. PICK act : act = [i \in 1..N |-> [r \in V |-> Again(r, a, attempt, peers[i])]]
  OBVIOUS
<1>6. act \in [1..N -> [V -> V]]
  BY <1>4, <1>5
<1>7. PICK h \in [SUBSET (1..N) -> V] : Folds(h, s, act, N)
  BY <1>3, <1>6, FoldExists
<1>8. h = Rec(h)
  <2>1. ASSUME NEW S \in SUBSET (1..N)
        PROVE  h[S] = IF S = {} THEN s ELSE Again(h[S \ {Max(S)}], a, attempt, peers[Max(S)])
    <3>1. CASE S = {}
      BY <1>7, <3>1 DEF Folds
    <3>2. CASE S # {}
      <4>1. Max(S) \in 1..N
        BY <3>2, MaxOfNumbers
      <4>2. h[S \ {Max(S)}] \in V /\ h[S] = act[Max(S)][h[S \ {Max(S)}]]
        BY <1>7, <3>2 DEF Folds
      <4> QED
        BY <1>5, <3>2, <4>1, <4>2
    <3> QED
      BY <3>1, <3>2
  <2> QED
    BY <1>1, <2>1
<1>9. PICK it : it = Rec(it) /\ Reattempt(s, a, attempt, peers) = it[DOMAIN peers]
  <2>1. Iter = Rec(Iter)
    BY <1>8
  <2>2. Reattempt(s, a, attempt, peers) = Iter[DOMAIN peers]
    BY DEF Reattempt, Again, FoldLeft, MapThenFoldSet
  <2> HIDE DEF Iter
  <2> QED
    BY <2>1, <2>2
<1>10. Follows(it, act, V, N)
  <2>1. ASSUME NEW n \in 1..N, it[1..(n - 1)] \in V
        PROVE  it[1..n] = act[n][it[1..(n - 1)]]
    <3>1. n \in Nat /\ n # 0 /\ 1..n \in SUBSET (DOMAIN peers)
      BY <1>1
    <3>2. 1..n # {} /\ Max(1..n) = n /\ (1..n) \ {n} = 1..(n - 1)
      BY <3>1, Initial
    <3>3. it[1..n] = Again(it[(1..n) \ {Max(1..n)}], a, attempt, peers[Max(1..n)])
      BY <1>9, <3>1, <3>2
    <3> QED
      BY <1>5, <2>1, <3>2, <3>3
  <2> QED
    BY <2>1 DEF Follows
<1>11. it[{}] = s
  BY <1>9
<1>12. PICK f : Traces(f, s, act, V, N) /\ f[N] = it[1..N]
  <2>1. Iterates(it, s, act, V, N)
    BY <1>3, <1>6, <1>10, <1>11 DEF Iterates
  <2> QED
    BY <2>1, FoldTraces
<1>13. f[N] \in V /\ Reattempt(s, a, attempt, peers) = f[N]
  BY <1>1, <1>9, <1>12, N \in 0..N DEF Traces
<1> QED
  BY <1>2, <1>13

\* The attempts of the former identity are dialled again, in any order.
LEMMA RespawnedKeeps ==
  ASSUME NEW id, NEW gh, NEW s, Good(s, id, gh, {}), NEW saved \in [Addrs -> Connecting], NEW order \in Seq(Addrs),
         tpu_addr \in [Peers -> Addrs \cup {NoAddr}]
  PROVE  Good(Respawned(s, saved, order), id, gh, {})
<1> DEFINE Rec(iter) == [S \in SUBSET (DOMAIN order) |->
             IF S = {} THEN s ELSE SpawnAll(iter[S \ {Max(S)}], saved[order[Max(S)]].peers, saved[order[Max(S)]].attempt)]
           Iter == CHOOSE iter : iter = Rec(iter)
<1>1. PICK N \in Nat : N = Len(order) /\ DOMAIN order = 1..N /\ \A i \in 1..N : order[i] \in Addrs
  BY LenProperties, ElementOfSeq
<1>2. PICK V : V = {r \in Driver : Good(r, id, gh, {})}
  OBVIOUS
<1>3. s \in V
  BY <1>2 DEF Good
<1>4. ASSUME NEW i \in 1..N, NEW r \in V PROVE SpawnAll(r, saved[order[i]].peers, saved[order[i]].attempt) \in V
  <2>1. PICK a \in Addrs : a = order[i]
    BY <1>1
  <2>2. saved[a].peers \in Seq(Peers) /\ saved[a].attempt \in 0..MaxConnectionAttempts
    BY DEF Connecting
  <2>3. Good(SpawnAll(r, saved[a].peers, saved[a].attempt), id, gh, {})
    BY <1>2, <1>4, <2>2, SpawnAllKeeps
  <2> QED
    BY <1>2, <2>1, <2>3 DEF Good
<1>5. PICK act : act = [i \in 1..N |-> [r \in V |-> SpawnAll(r, saved[order[i]].peers, saved[order[i]].attempt)]]
  OBVIOUS
<1>6. act \in [1..N -> [V -> V]]
  BY <1>4, <1>5
<1>7. PICK h \in [SUBSET (1..N) -> V] : Folds(h, s, act, N)
  BY <1>3, <1>6, FoldExists
<1>8. h = Rec(h)
  <2>1. ASSUME NEW S \in SUBSET (1..N)
        PROVE  h[S] = IF S = {} THEN s ELSE SpawnAll(h[S \ {Max(S)}], saved[order[Max(S)]].peers, saved[order[Max(S)]].attempt)
    <3>1. CASE S = {}
      BY <1>7, <3>1 DEF Folds
    <3>2. CASE S # {}
      <4>1. Max(S) \in 1..N
        BY <3>2, MaxOfNumbers
      <4>2. h[S \ {Max(S)}] \in V /\ h[S] = act[Max(S)][h[S \ {Max(S)}]]
        BY <1>7, <3>2 DEF Folds
      <4> QED
        BY <1>5, <3>2, <4>1, <4>2
    <3> QED
      BY <3>1, <3>2
  <2> QED
    BY <1>1, <2>1
<1>9. PICK it : it = Rec(it) /\ Respawned(s, saved, order) = it[DOMAIN order]
  <2>1. Iter = Rec(Iter)
    BY <1>8
  <2>2. Respawned(s, saved, order) = Iter[DOMAIN order]
    BY DEF Respawned, FoldLeft, MapThenFoldSet
  <2> HIDE DEF Iter
  <2> QED
    BY <2>1, <2>2
<1>10. Follows(it, act, V, N)
  <2>1. ASSUME NEW n \in 1..N, it[1..(n - 1)] \in V
        PROVE  it[1..n] = act[n][it[1..(n - 1)]]
    <3>1. n \in Nat /\ n # 0 /\ 1..n \in SUBSET (DOMAIN order)
      BY <1>1
    <3>2. 1..n # {} /\ Max(1..n) = n /\ (1..n) \ {n} = 1..(n - 1)
      BY <3>1, Initial
    <3>3. it[1..n] = SpawnAll(it[(1..n) \ {Max(1..n)}], saved[order[Max(1..n)]].peers, saved[order[Max(1..n)]].attempt)
      BY <1>9, <3>1, <3>2
    <3> QED
      BY <1>5, <2>1, <3>2, <3>3
  <2> QED
    BY <2>1 DEF Follows
<1>11. it[{}] = s
  BY <1>9
<1>12. PICK f : Traces(f, s, act, V, N) /\ f[N] = it[1..N]
  <2>1. Iterates(it, s, act, V, N)
    BY <1>3, <1>6, <1>10, <1>11 DEF Iterates
  <2> QED
    BY <2>1, FoldTraces
<1>13. f[N] \in V /\ Respawned(s, saved, order) = f[N]
  BY <1>1, <1>9, <1>12, N \in 0..N DEF Traces
<1> QED
  BY <1>2, <1>13

\* What the loop's record keeps when a connection at a enters or leaves the map.
SameButConnections(s, a, r) ==
  /\ r.identity = s.identity /\ r.connecting = s.connecting /\ r.blocked = s.blocked
  /\ r.handle = s.handle /\ r.worker = s.worker /\ r.pending = s.pending
  /\ r.evicting = s.evicting /\ r.orphans = s.orphans
  /\ \A b \in Addrs \ {a} : r.conns[b] = s.conns[b]

Enters(s, a, r) ==
  r = [s EXCEPT !.conns[a] = [st |-> "open", version |-> s.version + 1, peers |-> {}],
                !.version = @ + 1]

\* The new connection is in the map, and nobody uses it yet.
LEMMA ConnectionEnters ==
  ASSUME NEW id, NEW gh, NEW s, Good(s, id, gh, {}), NEW a \in Addrs, s.conns[a].st = "none", s.connecting[a].st = "none",
         s.version < MaxVersion, NEW r, Enters(s, a, r)
  PROVE  /\ Good(r, id, gh, {<<a, s.version + 1>>}) /\ SameButConnections(s, a, r)
         /\ r.conns[a] = [st |-> "open", version |-> s.version + 1, peers |-> {}]
<1>0. /\ s \in Driver /\ s.conns \in [Addrs -> Connection] /\ s.version \in 0..MaxVersion
      /\ s.pending \subseteq Versioned
  BY Fields DEF Good
<1>1. PICK v : v = s.version + 1
  OBVIOUS
<1>2. v \in 0..MaxVersion /\ v # 0
  <2>1. MaxVersion \in Nat
    BY DriverConstants
  <2> QED
    BY <1>0, <1>1, <2>1
<1>3. PICK c : c = [st |-> "open", version |-> v, peers |-> {}]
  OBVIOUS
<1>4. c \in Connection
  BY <1>2, <1>3 DEF Connection
<1>5. PICK conns : conns = [s.conns EXCEPT ![a] = c]
  OBVIOUS
<1>6. conns \in [Addrs -> Connection] /\ conns[a] = c /\ \A b \in Addrs \ {a} : conns[b] = s.conns[b]
  BY <1>0, <1>4, <1>5
<1>7. r = [s EXCEPT !.conns = conns, !.version = v]
  BY <1>0, <1>1, <1>3, <1>5 DEF Driver, Enters
<1>8. r \in Driver
  BY <1>0, <1>2, <1>6, <1>7 DEF Driver
<1>9. r.conns = conns /\ SameButConnections(s, a, r)
  <2>1. /\ r.conns = conns /\ r.identity = s.identity /\ r.connecting = s.connecting
        /\ r.blocked = s.blocked /\ r.handle = s.handle /\ r.worker = s.worker
        /\ r.pending = s.pending /\ r.evicting = s.evicting /\ r.orphans = s.orphans
    BY <1>0, <1>7 DEF Driver
  <2> QED
    BY <1>6, <2>1 DEF SameButConnections
<1>10. s.conns[a] = NoConnection /\ s.conns[a].peers = {}
  BY DEF Good, Mapped, NoConnection
<1>11. \A b \in Addrs : conns[b].peers = s.conns[b].peers
  BY <1>3, <1>6, <1>10
<1>12. Linked(r)
  <2>1. ASSUME NEW p \in Peers, HasWorker(s, p)
        PROVE  /\ s.handle[p].addr \in Addrs
               /\ conns[s.handle[p].addr].version = s.handle[p].version
               /\ p \in conns[s.handle[p].addr].peers
    <3>1. /\ s.handle[p].addr \in Addrs
          /\ s.conns[s.handle[p].addr].version = s.handle[p].version
          /\ p \in s.conns[s.handle[p].addr].peers
      BY <2>1 DEF Good, Linked
    <3>2. s.handle[p].addr # a
      BY <1>10, <3>1
    <3> QED
      BY <1>6, <3>1, <3>2
  <2> QED
    BY <1>9, <2>1 DEF Linked, HasWorker, SameButConnections
<1>13. Mapped(r)
  <2>1. ASSUME NEW b \in Addrs
        PROVE  IF conns[b].st = "none" THEN conns[b] = NoConnection ELSE conns[b].version # 0
    <3>1. CASE b = a
      BY <1>2, <1>3, <1>6, <3>1
    <3>2. CASE b # a
      BY <1>6, <3>2 DEF Good, Mapped
    <3> QED
      BY <3>1, <3>2
  <2> QED
    BY <1>9, <2>1 DEF Mapped
<1>14. UnusedKnown(r, {<<a, v>>})
  <2>1. ASSUME NEW b \in Addrs, conns[b].st # "none", conns[b].peers = {}
        PROVE  <<b, conns[b].version>> \in ToSet(s.orphans) \cup {<<a, v>>}
    <3>1. CASE b = a
      BY <1>3, <1>6, <3>1
    <3>2. CASE b # a
      BY <1>6, <2>1, <3>2 DEF Good, UnusedKnown
    <3> QED
      BY <3>1, <3>2
  <2> QED
    BY <1>9, <2>1 DEF UnusedKnown, SameButConnections
<1>15. PendingUsed(r)
  <2>1. ASSUME NEW e \in s.pending PROVE conns[e[1]].version = e[2] /\ conns[e[1]].peers # {}
    <3>1. e[1] \in Addrs /\ s.conns[e[1]].version = e[2] /\ s.conns[e[1]].peers # {}
      BY <1>0 DEF Good, PendingUsed, Versioned
    <3>2. e[1] # a
      BY <1>10, <3>1
    <3> QED
      BY <1>6, <3>1, <3>2
  <2> QED
    BY <1>9, <2>1 DEF PendingUsed, SameButConnections
<1>16. Dials(r) /\ Waits(r)
  <2>1. \A b \in Addrs : s.connecting[b].st # "none" => conns[b].st = "none"
    BY <1>6 DEF Good, Dials
  <2>2. Dials(r)
    BY <1>9, <2>1 DEF Good, Dials, HasWorker, SameButConnections
  <2>3. Waits(r)
    BY <1>9 DEF Good, Waits, SameButConnections
  <2> QED
    BY <2>2, <2>3
<1>17. Evictions(r)
  BY <1>9, <1>11 DEF Good, Evictions, HasWorker, LeftBehind, Signalled, SameButConnections
<1>18. Worked(r, gh)
  <2>1. ASSUME NEW b \in Addrs, NEW q \in conns[b].peers
        PROVE  \/ s.handle[q].addr = b /\ s.handle[q].version = conns[b].version
               \/ <<b, conns[b].version, q>> \in gh
    <3>1. b # a /\ q \in s.conns[b].peers
      BY <1>3, <1>6, <1>11, <2>1
    <3>2. conns[b] = s.conns[b]
      BY <1>6, <3>1
    <3> QED
      BY <3>1, <3>2 DEF Good, Worked
  <2> QED
    BY <1>9, <2>1 DEF Worked, SameButConnections
<1> QED
  BY <1>1, <1>3, <1>6, <1>8, <1>9, <1>12, <1>13, <1>14, <1>15, <1>16, <1>17, <1>18 DEF Good, SameButConnections

\* Each peer that waited for the connection at a gets a worker.
InstallAll(s, a, peers) ==
  LET install(r, p) == InstallWorker(r, p, a) IN FoldLeft(install, s, peers)

\* The peers wait for the connection at a and for no other.
Waiting(s, a, peers) ==
  \A p \in ToSet(peers) :
    /\ \A b \in Addrs : p \notin ToSet(s.connecting[b].peers)
    /\ p \in s.evicting => \E b \in Addrs \ {a} : p \in s.conns[b].peers

\* What InstallAll keeps of the state it starts from.
Installing(gh, s, a, e, r) ==
  /\ Good(r, s.identity, gh, {e})
  /\ r.connecting = s.connecting /\ r.evicting = s.evicting
  /\ \A b \in Addrs \ {a} : r.conns[b] = s.conns[b]
  /\ r.conns[a].st # "none" /\ r.conns[a].version = s.conns[a].version

\* Once its peers have their workers, the new connection is in use.
LEMMA InstallAllKeeps ==
  ASSUME NEW id, NEW gh, NEW s, NEW a \in Addrs, NEW e, Good(s, id, gh, {e}), e = <<a, s.conns[a].version>>,
         s.conns[a].st # "none", NEW peers \in Seq(Peers), peers # <<>>, Waiting(s, a, peers),
         \A p \in ToSet(peers) : ~HasWorker(s, p)
  PROVE  Good(InstallAll(s, a, peers), id, gh, {})
<1> DEFINE Rec(iter) == [S \in SUBSET (DOMAIN peers) |->
             IF S = {} THEN s ELSE InstallWorker(iter[S \ {Max(S)}], peers[Max(S)], a)]
           Iter == CHOOSE iter : iter = Rec(iter)
<1>1. PICK N \in Nat : N = Len(peers) /\ DOMAIN peers = 1..N /\ \A i \in 1..N : peers[i] \in Peers
  BY LenProperties, ElementOfSeq
<1>2. PICK V : V = {r \in Driver : Installing(gh, s, a, e, r)}
  OBVIOUS
<1>3. s \in V
  BY <1>2 DEF Installing, Good
<1>4. ASSUME NEW i \in 1..N, NEW r \in V PROVE InstallWorker(r, peers[i], a) \in V
  <2>1. PICK p \in Peers : p = peers[i] /\ p \in ToSet(peers)
    BY <1>1, SeqMembers
  <2>2. Installing(gh, s, a, e, r)
    BY <1>2, <1>4
  <2>3. Installable(r, p, a)
    BY <2>1, <2>2 DEF Waiting, Installable, Installing
  <2>4. PICK x : x = InstallWorker(r, p, a)
    OBVIOUS
  <2>5. Good(x, s.identity, gh, {e}) /\ InstallFrame(r, a, x)
    BY <2>2, <2>3, <2>4, InstallWorkerKeeps DEF Installing
  <2>6. Installing(gh, s, a, e, x)
    BY <2>2, <2>5 DEF Installing, InstallFrame
  <2> QED
    BY <1>2, <2>1, <2>4, <2>5, <2>6 DEF Good
<1>5. PICK act : act = [i \in 1..N |-> [r \in V |-> InstallWorker(r, peers[i], a)]]
  OBVIOUS
<1>6. act \in [1..N -> [V -> V]]
  BY <1>4, <1>5
<1>7. PICK h \in [SUBSET (1..N) -> V] : Folds(h, s, act, N)
  BY <1>3, <1>6, FoldExists
<1>8. h = Rec(h)
  <2>1. ASSUME NEW S \in SUBSET (1..N)
        PROVE  h[S] = IF S = {} THEN s ELSE InstallWorker(h[S \ {Max(S)}], peers[Max(S)], a)
    <3>1. CASE S = {}
      BY <1>7, <3>1 DEF Folds
    <3>2. CASE S # {}
      <4>1. Max(S) \in 1..N
        BY <3>2, MaxOfNumbers
      <4>2. h[S \ {Max(S)}] \in V /\ h[S] = act[Max(S)][h[S \ {Max(S)}]]
        BY <1>7, <3>2 DEF Folds
      <4> QED
        BY <1>5, <3>2, <4>1, <4>2
    <3> QED
      BY <3>1, <3>2
  <2> QED
    BY <1>1, <2>1
<1>9. PICK it : it = Rec(it) /\ InstallAll(s, a, peers) = it[DOMAIN peers]
  <2>1. Iter = Rec(Iter)
    BY <1>8
  <2>2. InstallAll(s, a, peers) = Iter[DOMAIN peers]
    BY DEF InstallAll, FoldLeft, MapThenFoldSet
  <2> HIDE DEF Iter
  <2> QED
    BY <2>1, <2>2
<1>10. Follows(it, act, V, N)
  <2>1. ASSUME NEW n \in 1..N, it[1..(n - 1)] \in V
        PROVE  it[1..n] = act[n][it[1..(n - 1)]]
    <3>1. n \in Nat /\ n # 0 /\ 1..n \in SUBSET (DOMAIN peers)
      BY <1>1
    <3>2. 1..n # {} /\ Max(1..n) = n /\ (1..n) \ {n} = 1..(n - 1)
      BY <3>1, Initial
    <3>3. it[1..n] = InstallWorker(it[(1..n) \ {Max(1..n)}], peers[Max(1..n)], a)
      BY <1>9, <3>1, <3>2
    <3> QED
      BY <1>5, <2>1, <3>2, <3>3
  <2> QED
    BY <2>1 DEF Follows
<1>11. it[{}] = s
  BY <1>9
<1>12. PICK f : Traces(f, s, act, V, N) /\ f[N] = it[1..N]
  <2>1. Iterates(it, s, act, V, N)
    BY <1>3, <1>6, <1>10, <1>11 DEF Iterates
  <2> QED
    BY <2>1, FoldTraces
<1>13. f[N] \in V /\ InstallAll(s, a, peers) = f[N]
  BY <1>1, <1>9, <1>12, N \in 0..N DEF Traces
<1>14. N # 0
  BY <1>1, EmptySeq
<1>15. ASSUME NEW n \in 1..N
       PROVE  /\ n - 1 \in 0..N /\ f[n - 1] \in V /\ f[n] \in V
              /\ f[n] = InstallWorker(f[n - 1], peers[n], a)
              /\ Installing(gh, s, a, e, f[n - 1])
  <2>1. n - 1 \in 0..N /\ n \in 0..N
    OBVIOUS
  <2>2. f[n - 1] \in V /\ f[n] \in V /\ f[n] = act[n][f[n - 1]]
    BY <1>12, <2>1 DEF Traces
  <2>3. f[n] = InstallWorker(f[n - 1], peers[n], a)
    BY <1>5, <2>2
  <2> QED
    BY <1>2, <2>1, <2>2, <2>3
<1>16. ASSUME NEW n \in 1..N
       PROVE  /\ f[n - 1].conns[a].peers \subseteq f[n].conns[a].peers
              /\ ~HasWorker(f[n - 1], peers[n]) => f[n].conns[a].peers # {}
  <2>1. PICK p \in Peers : p = peers[n] /\ p \in ToSet(peers)
    BY <1>1, SeqMembers
  <2>2. PICK r : r = f[n - 1] /\ Installing(gh, s, a, e, r)
    BY <1>15
  <2>3. Installable(r, p, a)
    BY <2>1, <2>2 DEF Waiting, Installable, Installing
  <2>4. PICK x : x = InstallWorker(r, p, a) /\ x = f[n]
    BY <1>15, <2>1, <2>2
  <2>6. Good(r, s.identity, gh, {e})
    BY <2>2 DEF Installing
  <2>5. /\ InstallFrame(r, a, x) 
        /\ ~HasWorker(r, p) /\ r.conns[a].st # "none" => p \in x.conns[a].peers
    BY <2>3, <2>4, <2>6, InstallWorkerKeeps
  <2> QED
    BY <2>1, <2>2, <2>4, <2>5 DEF Installing, InstallFrame
<1>17. PICK Used : Used = {n \in 0..N : n # 0 => f[n].conns[a].peers # {}}
  OBVIOUS
<1>18. 0 \in Used
  BY <1>17
<1>19. ASSUME NEW n \in 0..(N - 1), n \in Used PROVE n + 1 \in Used
  <2>1. n + 1 \in 1..N /\ n + 1 \in 0..N /\ (n + 1) - 1 = n
    OBVIOUS
  <2>2. CASE n = 0
    <3>1. f[0] = s /\ peers[1] \in ToSet(peers)
      BY <1>1, <1>12, <1>14, SeqMembers DEF Traces
    <3>2. ~HasWorker(f[0], peers[1])
      BY <3>1
    <3>3. f[1].conns[a].peers # {}
      BY <1>14, <1>16, <3>2, 1 \in 1..N, 1 - 1 = 0
    <3> QED
      BY <1>17, <2>1, <2>2, <3>3
  <2>3. CASE n # 0
    <3>1. f[n].conns[a].peers # {}
      BY <1>17, <1>19, <2>3
    <3>2. f[n].conns[a].peers \subseteq f[n + 1].conns[a].peers
      BY <1>16, <2>1
    <3> QED
      BY <1>17, <2>1, <3>1, <3>2
  <2> QED
    BY <2>2, <2>3
<1>20. f[N].conns[a].peers # {}
  <2>1. \A n \in 0..(N - 1) : n \in Used => n + 1 \in Used
    BY <1>19
  <2>2. \A n \in 0..N : n \in Used
    BY <1>18, <2>1, BoundedInduction
  <2> QED
    BY <1>14, <1>17, <2>2, N \in 0..N
<1>21. PICK x : x = f[N] /\ Installing(gh, s, a, e, x) /\ x.conns[a].peers # {}
  BY <1>2, <1>13, <1>20
<1>22. UnusedKnown(x, {})
  <2>1. ASSUME NEW b \in Addrs, x.conns[b].st # "none", x.conns[b].peers = {}
        PROVE  <<b, x.conns[b].version>> \in ToSet(x.orphans)
    <3>1. b # a
      BY <1>21, <2>1
    <3>2. <<b, x.conns[b].version>> \in ToSet(x.orphans) \cup {e}
      BY <1>21, <2>1 DEF Installing, Good, UnusedKnown
    <3> QED
      BY <3>1, <3>2
  <2> QED
    BY <2>1 DEF UnusedKnown
<1>23. Good(x, id, gh, {})
  BY <1>21, <1>22 DEF Installing, Good
<1> QED
  BY <1>13, <1>21, <1>23

\* An attempt succeeded.
LEMMA EstablishedKeeps ==
  ASSUME NEW id, NEW gh, NEW s, Good(s, id, gh, {}), NEW a \in Addrs, s.conns[a].st = "none", s.connecting[a].st = "none",
         s.version < MaxVersion, NEW peers \in Seq(Peers), peers # <<>>,
         \A p \in ToSet(peers) : ~HasWorker(s, p) /\ \A b \in Addrs : p \notin ToSet(s.connecting[b].peers)
  PROVE  Good(Established(s, a, peers), id, gh, {})
<1>1. PICK r : r = [s EXCEPT !.conns[a] = [st |-> "open", version |-> s.version + 1, peers |-> {}],
                             !.version = @ + 1]
  OBVIOUS
<1>2. /\ Good(r, id, gh, {<<a, s.version + 1>>}) /\ SameButConnections(s, a, r)
      /\ r.conns[a] = [st |-> "open", version |-> s.version + 1, peers |-> {}]
  <2>1. Enters(s, a, r)
    BY <1>1 DEF Enters
  <2> QED
    BY <2>1, ConnectionEnters
<1>3. r.conns[a].version = s.version + 1 /\ r.conns[a].st # "none"
  BY <1>2
<1>4. ToSet(peers) \subseteq Peers
  BY SeqMembers
<1>5. s.conns[a].peers = {}
  BY DEF Good, Mapped, NoConnection
<1>6. Waiting(r, a, peers) /\ \A p \in ToSet(peers) : ~HasWorker(r, p)
  <2>1. ASSUME NEW p \in s.evicting PROVE \E b \in Addrs \ {a} : p \in s.conns[b].peers
    <3>1. \E b \in Addrs : p \in s.conns[b].peers
      BY DEF Good, Evictions
    <3> QED
      BY <1>5, <3>1
  <2> QED
    BY <1>2, <2>1 DEF Waiting, SameButConnections, HasWorker
<1>7. Good(InstallAll(r, a, peers), id, gh, {})
  <2>1. PICK e : e = <<a, s.version + 1>>
    OBVIOUS
  <2>2. e = <<a, r.conns[a].version>> /\ Good(r, id, gh, {e})
    BY <1>2, <1>3, <2>1
  <2> QED
    BY <1>3, <1>6, <2>2, InstallAllKeeps
<1>8. Established(s, a, peers) = InstallAll(r, a, peers)
  BY <1>1 DEF Established, InstallAll
<1> QED
  BY <1>7, <1>8

\* The result of a connecting task, of this identity or of a former one.
LEMMA HandleConnectingResultKeeps ==
  ASSUME NEW id, NEW gh, Good(drv, id, gh, {}), tpu_addr \in [Peers -> Addrs \cup {NoAddr}], NEW a \in Addrs,
         NEW outcome \in {"ok", "connection_error", "other_error"}, HandleConnectingResult(a, outcome)
  PROVE  Good(drv', id, gh, {})
<1>0. drv \in Driver /\ drv.connecting[a] \in Connecting /\ drv.version \in 0..MaxVersion
  BY Fields DEF Good
<1>1. PICK c : c = drv.connecting[a]
  OBVIOUS
<1>2. PICK s : s = [drv EXCEPT !.connecting[a] = NoConnecting]
  OBVIOUS
<1>3. /\ c.st = "dialing"
      /\ outcome = "ok" => drv.version < MaxVersion
      /\ drv' = IF c.identity # drv.identity THEN SpawnAll(s, c.peers, c.attempt)
                ELSE IF outcome = "ok" THEN Established(s, a, c.peers)
                ELSE IF outcome = "connection_error" /\ c.attempt < MaxConnectionAttempts
                       THEN Reattempt(s, a, c.attempt, c.peers)
                ELSE AllUnreachable(s, c.peers)
  BY <1>1, <1>2 DEF HandleConnectingResult
<1>4. /\ Good(s, id, gh, {}) /\ s.conns = drv.conns /\ s.version = drv.version /\ s.handle = drv.handle
      /\ s.connecting[a].st = "none"
      /\ \A p \in ToSet(c.peers) : \A b \in Addrs : p \notin ToSet(s.connecting[b].peers)
  <2>1. Forgets(drv, a, s)
    BY <1>2 DEF Forgets
  <2>2. drv.connecting[a].st # "waiting"
    BY <1>1, <1>3
  <2>3. /\ Good(s, id, gh, {}) /\ s.conns = drv.conns /\ s.version = drv.version /\ s.handle = drv.handle
        /\ s.connecting[a].st = "none"
        /\ \A p \in ToSet(drv.connecting[a].peers) : \A b \in Addrs : p \notin ToSet(s.connecting[b].peers)
    BY <2>1, <2>2, AttemptEnds
  <2> QED
    BY <1>1, <2>3
<1>5. c.peers \in Seq(Peers) /\ c.attempt \in 0..MaxConnectionAttempts
  BY <1>0, <1>1 DEF Connecting
<1>6. CASE c.identity # drv.identity
  BY <1>3, <1>4, <1>5, <1>6, SpawnAllKeeps
<1>7. CASE c.identity = drv.identity /\ outcome = "ok"
  <2>0. drv.connecting[a].st # "none"
    BY <1>1, <1>3
  <2>1. c.peers # <<>> /\ drv.conns[a].st = "none"
    <3>1. /\ drv.connecting[a].st = "none" <=> drv.connecting[a].peers = <<>>
          /\ drv.connecting[a].st # "none" => drv.conns[a].st = "none"
      BY DEF Good, Dials
    <3> QED
      BY <1>1, <2>0, <3>1
  <2>2. \A p \in ToSet(c.peers) : ~HasWorker(s, p)
    <3>1. ToSet(c.peers) \subseteq Peers
      BY <1>5, SeqMembers
    <3> QED
      BY <1>1, <1>4, <3>1 DEF Good, Dials, HasWorker
  <2>3. s.version < MaxVersion /\ s.conns[a].st = "none"
    BY <1>3, <1>4, <1>7, <2>1
  <2>4. \A p \in ToSet(c.peers) : ~HasWorker(s, p) /\ \A b \in Addrs : p \notin ToSet(s.connecting[b].peers)
    BY <1>4, <2>2
  <2>5. Good(Established(s, a, c.peers), id, gh, {})
    BY <1>4, <1>5, <2>1, <2>3, <2>4, EstablishedKeeps
  <2> QED
    BY <1>3, <1>7, <2>5
<1>8. CASE /\ c.identity = drv.identity /\ outcome # "ok"
           /\ outcome = "connection_error" /\ c.attempt < MaxConnectionAttempts
  <2>1. Good(Reattempt(s, a, c.attempt, c.peers), id, gh, {})
    BY <1>4, <1>5, <1>8, ReattemptKeeps
  <2> QED
    BY <1>3, <1>8, <2>1
<1>9. CASE /\ c.identity = drv.identity /\ outcome # "ok"
           /\ ~(outcome = "connection_error" /\ c.attempt < MaxConnectionAttempts)
  <2>1. Good(AllUnreachable(s, c.peers), id, gh, {})
    BY <1>4, <1>5, AllUnreachableKeeps
  <2> QED
    BY <1>3, <1>9, <2>1
<1> QED
  BY <1>6, <1>7, <1>8, <1>9

-----------------------------------------------------------------------------
(***************************************************************************)
(* Orphans                                                                 *)
(***************************************************************************)

Leaves(s, a, r) == r = [s EXCEPT !.conns[a] = NoConnection]

\* A connection that nobody uses leaves the map.
LEMMA ConnectionLeaves ==
  ASSUME NEW id, NEW gh, NEW handled, NEW s, Good(s, id, gh, handled), NEW a \in Addrs, s.conns[a].peers = {},
         NEW r, Leaves(s, a, r)
  PROVE  Good(r, id, gh, handled) /\ SameButConnections(s, a, r) /\ r.conns[a] = NoConnection
<1>0. s \in Driver /\ s.conns \in [Addrs -> Connection] /\ s.pending \subseteq Versioned
  BY Fields DEF Good
<1>1. PICK conns : conns = [s.conns EXCEPT ![a] = NoConnection]
  OBVIOUS
<1>2. NoConnection \in Connection /\ NoConnection.st = "none" /\ NoConnection.peers = {}
  BY NoneTypes DEF NoConnection
<1>3. /\ conns \in [Addrs -> Connection] /\ conns[a] = NoConnection
      /\ \A b \in Addrs \ {a} : conns[b] = s.conns[b]
  BY <1>0, <1>1, <1>2
<1>4. r = [s EXCEPT !.conns = conns]
  BY <1>0, <1>1 DEF Driver, Leaves
<1>5. r \in Driver
  BY <1>0, <1>3, <1>4 DEF Driver
<1>6. r.conns = conns /\ SameButConnections(s, a, r)
  <2>1. /\ r.conns = conns /\ r.identity = s.identity /\ r.connecting = s.connecting
        /\ r.blocked = s.blocked /\ r.handle = s.handle /\ r.worker = s.worker
        /\ r.pending = s.pending /\ r.evicting = s.evicting /\ r.orphans = s.orphans
    BY <1>0, <1>4 DEF Driver
  <2> QED
    BY <1>3, <2>1 DEF SameButConnections
<1>7. \A b \in Addrs : conns[b].peers = s.conns[b].peers
  BY <1>2, <1>3
<1>8. Linked(r)
  <2>1. ASSUME NEW p \in Peers, HasWorker(s, p)
        PROVE  /\ s.handle[p].addr \in Addrs
               /\ conns[s.handle[p].addr].version = s.handle[p].version
               /\ p \in conns[s.handle[p].addr].peers
    <3>1. /\ s.handle[p].addr \in Addrs
          /\ s.conns[s.handle[p].addr].version = s.handle[p].version
          /\ p \in s.conns[s.handle[p].addr].peers
      BY <2>1 DEF Good, Linked
    <3>2. s.handle[p].addr # a
      BY <3>1
    <3> QED
      BY <1>3, <3>1, <3>2
  <2> QED
    BY <1>6, <2>1 DEF Linked, HasWorker, SameButConnections
<1>9. Mapped(r)
  <2>1. ASSUME NEW b \in Addrs
        PROVE  IF conns[b].st = "none" THEN conns[b] = NoConnection ELSE conns[b].version # 0
    <3>1. IF s.conns[b].st = "none" THEN s.conns[b] = NoConnection ELSE s.conns[b].version # 0
      BY DEF Good, Mapped
    <3> QED
      BY <1>2, <1>3, <3>1
  <2> QED
    BY <1>6, <2>1 DEF Mapped
<1>10. UnusedKnown(r, handled)
  BY <1>2, <1>3, <1>6 DEF Good, UnusedKnown, SameButConnections
<1>11. PendingUsed(r)
  <2>1. ASSUME NEW e \in s.pending PROVE conns[e[1]].version = e[2] /\ conns[e[1]].peers # {}
    <3>1. e[1] \in Addrs /\ s.conns[e[1]].version = e[2] /\ s.conns[e[1]].peers # {}
      BY <1>0 DEF Good, PendingUsed, Versioned
    <3>2. e[1] # a
      BY <3>1
    <3> QED
      BY <1>3, <3>1, <3>2
  <2> QED
    BY <1>6, <2>1 DEF PendingUsed, SameButConnections
<1>12. Dials(r)
  <2>1. \A b \in Addrs : s.connecting[b].st # "none" => conns[b].st = "none"
    BY <1>2, <1>3 DEF Good, Dials
  <2> QED
    BY <1>6, <2>1 DEF Good, Dials, HasWorker, SameButConnections
<1>13. Waits(r)
  BY <1>6 DEF Good, Waits, SameButConnections
<1>14. Evictions(r)
  BY <1>6, <1>7 DEF Good, Evictions, HasWorker, LeftBehind, Signalled, SameButConnections
<1>15. Worked(r, gh)
  <2>1. ASSUME NEW b \in Addrs, NEW q \in conns[b].peers
        PROVE  \/ s.handle[q].addr = b /\ s.handle[q].version = conns[b].version
               \/ <<b, conns[b].version, q>> \in gh
    <3>1. b # a /\ q \in s.conns[b].peers
      BY <1>2, <1>3, <1>7, <2>1
    <3>2. conns[b] = s.conns[b]
      BY <1>3, <3>1
    <3> QED
      BY <3>1, <3>2 DEF Good, Worked
  <2> QED
    BY <1>6, <2>1 DEF Worked, SameButConnections
<1> QED
  BY <1>3, <1>5, <1>6, <1>8, <1>9, <1>10, <1>11, <1>12, <1>13, <1>14, <1>15 DEF Good, SameButConnections

\* The connection of version e[2] is at e[1] and nobody uses it.
Unused(s, e) == s.conns[e[1]].version = e[2] /\ s.conns[e[1]].peers = {}

\* An expired orphan that is still unused is closed, and no other becomes unused.
LEMMA ExpireOrphanKeeps ==
  ASSUME NEW id, NEW gh, NEW handled, NEW s, Good(s, id, gh, handled), NEW e \in Versioned, NEW r, r = ExpireOrphan(s, e)
  PROVE  /\ Good(r, id, gh, handled) /\ r.orphans = s.orphans /\ ~Unused(r, e)
         /\ \A d \in Versioned : ~Unused(s, d) => ~Unused(r, d)
<1>1. CASE ~Unused(s, e)
  BY <1>1 DEF ExpireOrphan, Unused
<1>2. CASE Unused(s, e)
  <2>1. e[1] \in Addrs /\ \A d \in Versioned : d[1] \in Addrs /\ d[2] # 0
    BY DEF Versioned
  <2>2. PICK x : Leaves(s, e[1], x)
    BY DEF Leaves
  <2>3. Good(x, id, gh, handled) /\ SameButConnections(s, e[1], x) /\ x.conns[e[1]] = NoConnection
    BY <1>2, <2>1, <2>2, ConnectionLeaves DEF Unused
  <2>4. r = Unblock(x)
    BY <1>2, <2>2 DEF ExpireOrphan, Unused, Leaves
  <2>5. Good(r, id, gh, handled) /\ SameConnections(x, r)
    BY <2>3, <2>4, UnblockKeeps
  <2>6. NoConnection.version = 0
    BY DEF NoConnection
  <2>7. /\ r.orphans = s.orphans /\ r.conns[e[1]].version = 0
        /\ \A b \in Addrs \ {e[1]} : r.conns[b] = s.conns[b]
    BY <2>3, <2>5, <2>6 DEF SameConnections, SameButConnections
  <2>8. ASSUME NEW d \in Versioned, d = e \/ ~Unused(s, d) PROVE ~Unused(r, d)
    <3>1. CASE d[1] = e[1]
      BY <2>1, <2>7, <3>1 DEF Unused
    <3>2. CASE d[1] # e[1]
      BY <2>1, <2>7, <2>8, <3>2 DEF Unused
    <3> QED
      BY <3>1, <3>2
  <2> QED
    BY <2>5, <2>7, <2>8
<1> QED
  BY <1>1, <1>2

ExpireAll(s, q) == FoldLeft(ExpireOrphan, s, q)

\* After all expired entries were handled, an unused connection is still an orphan.
LEMMA ExpireAllKeeps ==
  ASSUME NEW id, NEW gh, NEW q \in Seq(Versioned), NEW s, Good(s, id, gh, ToSet(q))
  PROVE  Good(ExpireAll(s, q), id, gh, {})
<1> DEFINE Rec(iter) == [S \in SUBSET (DOMAIN q) |->
             IF S = {} THEN s ELSE ExpireOrphan(iter[S \ {Max(S)}], q[Max(S)])]
           Iter == CHOOSE iter : iter = Rec(iter)
<1>1. PICK N \in Nat : N = Len(q) /\ DOMAIN q = 1..N /\ \A i \in 1..N : q[i] \in Versioned
  BY LenProperties, ElementOfSeq
<1>2. PICK V : V = {r \in Driver : Good(r, id, gh, ToSet(q))}
  OBVIOUS
<1>3. s \in V
  BY <1>2 DEF Good
<1>4. ASSUME NEW i \in 1..N, NEW r \in V PROVE ExpireOrphan(r, q[i]) \in V
  <2>1. PICK e \in Versioned : e = q[i]
    BY <1>1
  <2>2. Good(ExpireOrphan(r, e), id, gh, ToSet(q))
    BY <1>2, <1>4, ExpireOrphanKeeps
  <2> QED
    BY <1>2, <2>1, <2>2 DEF Good
<1>5. PICK act : act = [i \in 1..N |-> [r \in V |-> ExpireOrphan(r, q[i])]]
  OBVIOUS
<1>6. act \in [1..N -> [V -> V]]
  BY <1>4, <1>5
<1>7. PICK h \in [SUBSET (1..N) -> V] : Folds(h, s, act, N)
  BY <1>3, <1>6, FoldExists
<1>8. h = Rec(h)
  <2>1. ASSUME NEW S \in SUBSET (1..N)
        PROVE  h[S] = IF S = {} THEN s ELSE ExpireOrphan(h[S \ {Max(S)}], q[Max(S)])
    <3>1. CASE S = {}
      BY <1>7, <3>1 DEF Folds
    <3>2. CASE S # {}
      <4>1. Max(S) \in 1..N
        BY <3>2, MaxOfNumbers
      <4>2. h[S \ {Max(S)}] \in V /\ h[S] = act[Max(S)][h[S \ {Max(S)}]]
        BY <1>7, <3>2 DEF Folds
      <4> QED
        BY <1>5, <3>2, <4>1, <4>2
    <3> QED
      BY <3>1, <3>2
  <2> QED
    BY <1>1, <2>1
<1>9. PICK it : it = Rec(it) /\ ExpireAll(s, q) = it[DOMAIN q]
  <2>1. Iter = Rec(Iter)
    BY <1>8
  <2>2. ExpireAll(s, q) = Iter[DOMAIN q]
    BY DEF ExpireAll, FoldLeft, MapThenFoldSet
  <2> HIDE DEF Iter
  <2> QED
    BY <2>1, <2>2
<1>10. Follows(it, act, V, N)
  <2>1. ASSUME NEW n \in 1..N, it[1..(n - 1)] \in V
        PROVE  it[1..n] = act[n][it[1..(n - 1)]]
    <3>1. n \in Nat /\ n # 0 /\ 1..n \in SUBSET (DOMAIN q)
      BY <1>1
    <3>2. 1..n # {} /\ Max(1..n) = n /\ (1..n) \ {n} = 1..(n - 1)
      BY <3>1, Initial
    <3>3. it[1..n] = ExpireOrphan(it[(1..n) \ {Max(1..n)}], q[Max(1..n)])
      BY <1>9, <3>1, <3>2
    <3> QED
      BY <1>5, <2>1, <3>2, <3>3
  <2> QED
    BY <2>1 DEF Follows
<1>11. it[{}] = s
  BY <1>9
<1>12. PICK f : Traces(f, s, act, V, N) /\ f[N] = it[1..N]
  <2>1. Iterates(it, s, act, V, N)
    BY <1>3, <1>6, <1>10, <1>11 DEF Iterates
  <2> QED
    BY <2>1, FoldTraces
<1>13. f[N] \in V /\ ExpireAll(s, q) = f[N]
  BY <1>1, <1>9, <1>12, N \in 0..N DEF Traces
<1>14. PICK Done : Done = {n \in 0..N : \A i \in 1..n : ~Unused(f[n], q[i])}
  OBVIOUS
<1>15. 0 \in Done
  BY <1>14
<1>16. ASSUME NEW n \in 0..(N - 1), n \in Done PROVE n + 1 \in Done
  <2>1. n + 1 \in 1..N /\ n + 1 \in 0..N /\ (n + 1) - 1 = n /\ n \in 0..N
    OBVIOUS
  <2>2. f[n] \in V /\ f[n + 1] = act[n + 1][f[n]]
    BY <1>12, <2>1 DEF Traces
  <2>3. PICK e \in Versioned : e = q[n + 1]
    BY <1>1, <2>1
  <2>4. PICK r : r = ExpireOrphan(f[n], e) /\ r = f[n + 1]
    BY <1>5, <2>1, <2>2, <2>3
  <2>5. Good(f[n], id, gh, ToSet(q))
    BY <1>2, <2>2
  <2>6. ~Unused(r, e) /\ \A d \in Versioned : ~Unused(f[n], d) => ~Unused(r, d)
    <3>1. PICK x, T : x = f[n] /\ T = ToSet(q) /\ Good(x, id, gh, T) /\ r = ExpireOrphan(x, e)
      BY <2>4, <2>5
    <3>2. ~Unused(r, e) /\ \A d \in Versioned : ~Unused(x, d) => ~Unused(r, d)
      BY <3>1, ExpireOrphanKeeps
    <3> QED
      BY <3>1, <3>2
  <2>7. ASSUME NEW i \in 1..(n + 1) PROVE ~Unused(r, q[i])
    <3>1. CASE i = n + 1
      BY <2>3, <2>6, <3>1
    <3>2. CASE i # n + 1
      <4>1. i \in 1..n /\ i \in 1..N
        BY <3>2
      <4>2. ~Unused(f[n], q[i]) /\ q[i] \in Versioned
        BY <1>1, <1>14, <1>16, <4>1
      <4> QED
        BY <2>6, <4>2
    <3> QED
      BY <3>1, <3>2
  <2> QED
    BY <1>14, <2>1, <2>4, <2>7
<1>17. \A i \in 1..N : ~Unused(f[N], q[i])
  <2>1. \A n \in 0..(N - 1) : n \in Done => n + 1 \in Done
    BY <1>16
  <2>2. \A n \in 0..N : n \in Done
    BY <1>15, <2>1, BoundedInduction
  <2> QED
    BY <1>14, <2>2, N \in 0..N
<1>18. PICK x : x = f[N] /\ Good(x, id, gh, ToSet(q)) /\ \A i \in 1..N : ~Unused(x, q[i])
  BY <1>2, <1>13, <1>17
<1>19. UnusedKnown(x, {})
  <2>1. ASSUME NEW a \in Addrs, x.conns[a].st # "none", x.conns[a].peers = {}
        PROVE  <<a, x.conns[a].version>> \in ToSet(x.orphans)
    <3>1. PICK e : e = <<a, x.conns[a].version>>
      OBVIOUS
    <3>2. Unused(x, e)
      BY <2>1, <3>1 DEF Unused
    <3>3. e \notin ToSet(q)
      BY <1>1, <1>18, <3>2, SeqMembers
    <3>4. e \in ToSet(x.orphans) \cup ToSet(q)
      BY <1>18, <2>1, <3>1 DEF Good, UnusedKnown
    <3> QED
      BY <3>1, <3>3, <3>4
  <2> QED
    BY <2>1 DEF UnusedKnown
<1>20. Good(x, id, gh, {})
  BY <1>18, <1>19 DEF Good
<1> QED
  BY <1>13, <1>18, <1>20

\* Every member of a sequence is in its first part or in the rest.
LEMMA SplitMembers ==
  ASSUME NEW S, NEW q \in Seq(S), NEW k \in 1..Len(q)
  PROVE  /\ SubSeq(q, 1, k) \in Seq(S) /\ SubSeq(q, k + 1, Len(q)) \in Seq(S)
         /\ ToSet(q) \subseteq ToSet(SubSeq(q, 1, k)) \cup ToSet(SubSeq(q, k + 1, Len(q)))
<1>1. PICK N \in Nat : N = Len(q) /\ DOMAIN q = 1..N /\ k \in 1..N
  BY LenProperties
<1>2. PICK first : first = SubSeq(q, 1, k)
  OBVIOUS
<1>3. PICK rest : rest = SubSeq(q, k + 1, Len(q))
  OBVIOUS
<1>4. \A i \in 1..N : q[i] \in S
  BY <1>1, ElementOfSeq
<1>5. first = [i \in 1..k |-> q[i]]
  BY <1>1, <1>2
<1>6. rest = [i \in 1..(N - k) |-> q[i + k]]
  BY <1>1, <1>3
<1>7. first \in Seq(S) /\ Len(first) = k /\ \A i \in 1..k : first[i] = q[i]
  BY <1>1, <1>4, <1>5
<1>8. rest \in Seq(S) /\ Len(rest) = N - k /\ \A i \in 1..(N - k) : rest[i] = q[i + k]
  BY <1>1, <1>4, <1>6
<1>9. ASSUME NEW x \in ToSet(q) PROVE x \in ToSet(first) \cup ToSet(rest)
  <2>1. PICK i \in 1..N : q[i] = x
    BY <1>1, SeqMembers
  <2>2. CASE i <= k
    <3>1. i \in 1..Len(first) /\ first[i] = x
      BY <1>7, <2>1, <2>2
    <3> QED
      BY <1>7, <3>1, SeqMembers
  <2>3. CASE i > k
    <3>1. i - k \in 1..(N - k) /\ (i - k) + k = i
      BY <1>1, <2>3
    <3>2. i - k \in 1..Len(rest) /\ rest[i - k] = x
      BY <1>8, <2>1, <3>1
    <3> QED
      BY <1>8, <3>2, SeqMembers
  <2> QED
    BY <1>1, <2>2, <2>3
<1> QED
  BY <1>2, <1>3, <1>7, <1>8, <1>9

\* The orphan timer, whatever number of orphans has expired.
LEMMA TryEvictOrphanConnectionsKeeps ==
  ASSUME NEW id, NEW gh, Good(drv, id, gh, {}), NEW k \in 1..Len(drv.orphans), TryEvictOrphanConnections(k)
  PROVE  Good(drv', id, gh, {})
<1>0. drv \in Driver /\ drv.orphans \in Seq(Versioned)
  BY Fields DEF Good
<1>1. PICK q, rest : q = SubSeq(drv.orphans, 1, k) /\ rest = SubSeq(drv.orphans, k + 1, Len(drv.orphans))
  OBVIOUS
<1>2. q \in Seq(Versioned) /\ rest \in Seq(Versioned) /\ ToSet(drv.orphans) \subseteq ToSet(q) \cup ToSet(rest)
  BY <1>0, <1>1, SplitMembers
<1>3. PICK s : s = [drv EXCEPT !.orphans = rest]
  OBVIOUS
<1>4. s \in Driver
  BY <1>0, <1>2, <1>3 DEF Driver
<1>5. /\ s.orphans = rest /\ s.identity = drv.identity /\ s.connecting = drv.connecting
      /\ s.blocked = drv.blocked /\ s.handle = drv.handle /\ s.worker = drv.worker
      /\ s.conns = drv.conns /\ s.pending = drv.pending /\ s.evicting = drv.evicting
  BY <1>0, <1>3 DEF Driver
<1>6. Linked(s) /\ Mapped(s) /\ Worked(s, gh) /\ PendingUsed(s) /\ Dials(s) /\ Waits(s)
  BY <1>5 DEF Good, Linked, Mapped, Worked, PendingUsed, Dials, Waits, HasWorker
<1>7. Evictions(s)
  BY <1>5 DEF Good, Evictions, HasWorker, LeftBehind, Signalled
<1>8. UnusedKnown(s, ToSet(q))
  BY <1>2, <1>5 DEF Good, UnusedKnown
<1>9. Good(s, id, gh, ToSet(q))
  BY <1>4, <1>5, <1>6, <1>7, <1>8 DEF Good
<1>10. drv' = ExpireAll(s, q)
  BY <1>1, <1>3 DEF TryEvictOrphanConnections, ExpireAll
<1> QED
  BY <1>2, <1>9, <1>10, ExpireAllKeeps

-----------------------------------------------------------------------------
(***************************************************************************)
(* Predicted leaders                                                       *)
(***************************************************************************)

\* The orders of a finite set are sequences of its elements.
LEMMA SeqOfSubset ==
  ASSUME NEW S, NEW T \in SUBSET S, NEW q \in SetToSeqs(T), IsFiniteSet(S)
  PROVE  q \in Seq(S)
<1>1. PICK n : n = Cardinality(T)
  OBVIOUS
<1>2. n \in Nat
  BY <1>1, FS_Subset, FS_CardinalityType
<1>3. q \in [1..n -> T]
  BY <1>1 DEF SetToSeqs
<1> QED
  BY <1>2, <1>3

\* Upcoming leaders are dialled before they have transactions.
LEMMA TryPredictUpcomingLeadersKeeps ==
  ASSUME NEW id, NEW gh, Good(drv, id, gh, {}), tpu_addr \in [Peers -> Addrs \cup {NoAddr}],
         NEW upcoming \in SetToAllKPermutations(Predictable), TryPredictUpcomingLeaders(upcoming)
  PROVE  Good(drv', id, gh, {})
<1>1. PICK T \in SUBSET Predictable : upcoming \in SetToSeqs(T)
  BY DEF SetToAllKPermutations
<1>2. upcoming \in Seq(Peers)
  <2>1. T \in SUBSET Peers /\ IsFiniteSet(Peers)
    BY DriverConstants
  <2> QED
    BY <1>1, <2>1, SeqOfSubset
<1>3. 1 \in 0..MaxConnectionAttempts
  BY DriverConstants
<1>4. drv' = SpawnAll(drv, upcoming, 1)
  BY DEF TryPredictUpcomingLeaders
<1> QED
  BY <1>2, <1>3, <1>4, SpawnAllKeeps

-----------------------------------------------------------------------------
(***************************************************************************)
(* Identity updates and the end of the input                               *)
(***************************************************************************)

\* All the tables are empty.
Blank(s) ==
  /\ s \in Driver
  /\ s.connecting = [a \in Addrs |-> NoConnecting] /\ s.blocked = <<>>
  /\ s.handle = [p \in Peers |-> NoHandle] /\ s.conns = [a \in Addrs |-> NoConnection]
  /\ s.pending = {} /\ s.evicting = {} /\ s.orphans = <<>>

\* Empty tables agree.
LEMMA BlankIsGood ==
  ASSUME NEW gh, NEW s, Blank(s)
  PROVE  Good(s, s.identity, gh, {})
<1>1. \A p \in Peers : ~HasWorker(s, p)
  BY DEF Blank, HasWorker
<1>2. \A a \in Addrs : /\ s.connecting[a].st = "none" /\ s.connecting[a].peers = <<>>
                       /\ s.conns[a] = NoConnection /\ s.conns[a].st = "none"
  BY DEF Blank, NoConnecting, NoConnection
<1>3. ToSet(<<>>) = {} /\ IsInjective(<<>>)
  BY EmptyMembers
<1>4. Linked(s) /\ Mapped(s) /\ Worked(s, gh) /\ UnusedKnown(s, {}) /\ PendingUsed(s)
  BY <1>1, <1>2 DEF Blank, Linked, Mapped, Worked, NoConnection, UnusedKnown, PendingUsed
<1>5. Dials(s) /\ Evictions(s)
  BY <1>1, <1>2, <1>3 DEF Blank, Dials, Evictions
<1>6. Waits(s)
  BY <1>2, <1>3 DEF Blank, Waits
<1> QED
  BY <1>4, <1>5, <1>6 DEF Blank, Good

\* The handles and queues after schedule_graceful_drop_all_worker.
LEMMA DropAllWorkersFields ==
  ASSUME NEW s \in Driver, NEW r, r = DropAllWorkers(s)
  PROVE  r \in Driver /\ r.handle = [p \in Peers |-> NoHandle] /\ r.identity = s.identity
<1>1. /\ s.identity \in Identities /\ s.tx_queues \in [Peers -> Seq(Entry)]
      /\ s.left \in [Peers -> [Identities -> Seq(Entry)]]
  BY Fields
<1>2. PICK handles : handles = [p \in Peers |-> NoHandle]
  OBVIOUS
<1>3. handles \in [Peers -> Handle]
  <2>1. NoHandle \in Handle
    BY NoneTypes
  <2> QED
    BY <1>2, <2>1
<1>4. PICK left : left = [p \in Peers |-> [s.left[p] EXCEPT ![s.identity] =
                        IF s.worker[p][s.identity].st = "none" THEN <<>> ELSE s.tx_queues[p]]]
  OBVIOUS
<1>5. <<>> \in Seq(Entry)
  BY EmptyMembers
<1>6. left \in [Peers -> [Identities -> Seq(Entry)]]
  <2>1. ASSUME NEW p \in Peers
        PROVE  [s.left[p] EXCEPT ![s.identity] =
                  IF s.worker[p][s.identity].st = "none" THEN <<>> ELSE s.tx_queues[p]]
                 \in [Identities -> Seq(Entry)]
    <3>1. PICK q : q = IF s.worker[p][s.identity].st = "none" THEN <<>> ELSE s.tx_queues[p]
      OBVIOUS
    <3>2. q \in Seq(Entry)
      BY <1>1, <1>5, <3>1
    <3> QED
      BY <1>1, <3>1, <3>2
  <2> QED
    BY <1>4, <2>1
<1>7. PICK queues : queues = [p \in Peers |-> <<>>]
  OBVIOUS
<1>8. queues \in [Peers -> Seq(Entry)]
  BY <1>5, <1>7
<1>9. r = [s EXCEPT !.handle = handles, !.left = left, !.tx_queues = queues]
  BY <1>2, <1>4, <1>7 DEF DropAllWorkers, Driver
<1>10. r \in Driver
  BY <1>3, <1>6, <1>8, <1>9 DEF Driver
<1>11. r.handle = handles /\ r.identity = s.identity
  BY <1>9 DEF Driver
<1> QED
  BY <1>2, <1>10, <1>11

\* The empty tables.
LEMMA EmptyTables ==
  /\ [a \in Addrs |-> NoConnecting] \in [Addrs -> Connecting]
  /\ [a \in Addrs |-> NoConnection] \in [Addrs -> Connection]
  /\ <<>> \in Seq(Addrs) /\ <<>> \in Seq(Versioned)
<1>1. NoConnecting \in Connecting /\ NoConnection \in Connection
  BY NoneTypes
<1>2. <<>> \in Seq(Addrs) /\ <<>> \in Seq(Versioned)
  BY EmptyMembers
<1> QED
  BY <1>1, <1>2

\* update_identity up to its barrier empties the tables.
LEMMA IdentityChangedKeeps ==
  ASSUME NEW gh, NEW s \in Driver, s.identity < MaxIdentity, NEW r, r = IdentityChanged(s)
  PROVE  Good(r, s.identity + 1, gh, {})
<1>1. PICK x : x = DropAllWorkers(s)
  OBVIOUS
<1>2. x \in Driver /\ x.handle = [p \in Peers |-> NoHandle] /\ x.identity = s.identity
  BY <1>1, DropAllWorkersFields
<1>3. PICK j : j = x.identity + 1
  OBVIOUS
<1>4. j \in Identities /\ j = s.identity + 1
  <2>1. MaxIdentity \in Nat /\ s.identity \in 0..MaxIdentity
    BY DriverConstants, Fields DEF Identities
  <2> QED
    BY <1>2, <1>3, <2>1 DEF Identities
<1>5. PICK cs, ms : cs = [a \in Addrs |-> NoConnecting] /\ ms = [a \in Addrs |-> NoConnection]
  OBVIOUS
<1>6. r = [x EXCEPT !.identity = j, !.connecting = cs, !.conns = ms,
                    !.blocked = <<>>, !.pending = {}, !.evicting = {}, !.orphans = <<>>]
  BY <1>1, <1>2, <1>3, <1>5 DEF IdentityChanged, Driver
<1>7. r \in Driver
  <2>1. /\ cs \in [Addrs -> Connecting] /\ ms \in [Addrs -> Connection]
        /\ <<>> \in Seq(Addrs) /\ <<>> \in Seq(Versioned)
    BY <1>5, EmptyTables
  <2>2. x \in Driver /\ j \in Identities
    BY <1>2, <1>4
  <2> QED
    BY <1>6, <2>1, <2>2 DEF Driver
<1>8. /\ r.identity = j /\ r.connecting = cs /\ r.conns = ms /\ r.blocked = <<>>
      /\ r.pending = {} /\ r.evicting = {} /\ r.orphans = <<>> /\ r.handle = x.handle
  BY <1>2, <1>6 DEF Driver
<1>9. Blank(r)
  BY <1>2, <1>5, <1>7, <1>8 DEF Blank
<1>10. Good(r, r.identity, gh, {})
  BY <1>9, BlankIsGood
<1> QED
  BY <1>4, <1>8, <1>10

\* The order in which update_identity dials is a sequence of addresses.
LEMMA DialOrdersAreAddrs ==
  ASSUME NEW saved, NEW order \in DialOrders(saved)
  PROVE  order \in Seq(Addrs)
<1>1. PICK T : T = {a \in Addrs : saved[a].st # "none"}
  OBVIOUS
<1>2. T \in SUBSET Addrs /\ order \in SetToSeqs(T)
  BY <1>1 DEF DialOrders
<1>3. IsFiniteSet(Addrs)
  BY DriverConstants
<1> QED
  BY <1>2, <1>3, SeqOfSubset

\* A plain identity update.
LEMMA UpdateIdentityKeeps ==
  ASSUME NEW gh, drv \in Driver, drv.identity < MaxIdentity, tpu_addr \in [Peers -> Addrs \cup {NoAddr}],
         UpdateIdentity
  PROVE  Good(drv', drv.identity + 1, gh, {})
<1>1. PICK order \in DialOrders(drv.connecting) :
        drv' = Respawned(IdentityChanged(drv), drv.connecting, order)
  BY DEF UpdateIdentity
<1>2. order \in Seq(Addrs)
  BY DialOrdersAreAddrs
<1>3. drv.connecting \in [Addrs -> Connecting]
  BY Fields
<1>4. Good(IdentityChanged(drv), drv.identity + 1, gh, {})
  BY IdentityChangedKeeps
<1>5. PICK s, saved : s = IdentityChanged(drv) /\ saved = drv.connecting
  OBVIOUS
<1>6. Good(Respawned(s, saved, order), drv.identity + 1, gh, {})
  BY <1>2, <1>3, <1>4, <1>5, RespawnedKeeps
<1> QED
  BY <1>1, <1>5, <1>6

\* update_identity after its barrier.
LEMMA BarrierReleasedKeeps ==
  ASSUME NEW id, NEW gh, Good(drv, id, gh, {}), tpu_addr \in [Peers -> Addrs \cup {NoAddr}],
         respawn \in [Addrs -> Connecting], BarrierReleased
  PROVE  Good(drv', id, gh, {})
<1>1. PICK order \in DialOrders(respawn) : drv' = Respawned(drv, respawn, order)
  BY DEF BarrierReleased
<1>2. order \in Seq(Addrs)
  BY DialOrdersAreAddrs
<1> QED
  BY <1>1, <1>2, RespawnedKeeps

\* The end of the input.
LEMMA InletClosedKeeps ==
  ASSUME NEW gh, drv \in Driver, InletClosed
  PROVE  Good(drv', drv.identity, gh, {})
<1>1. PICK x : x = DropAllWorkers(drv)
  OBVIOUS
<1>2. x \in Driver /\ x.handle = [p \in Peers |-> NoHandle] /\ x.identity = drv.identity
  BY <1>1, DropAllWorkersFields
<1>3. PICK cs, ms : cs = [a \in Addrs |-> NoConnecting] /\ ms = [a \in Addrs |-> NoConnection]
  OBVIOUS
<1>4. drv' = [x EXCEPT !.connecting = cs, !.blocked = <<>>, !.conns = ms, !.version = 0,
                       !.pending = {}, !.evicting = {}, !.orphans = <<>>, !.recent = {}]
  BY <1>1, <1>3 DEF InletClosed
<1>5. drv' \in Driver
  <2>1. /\ cs \in [Addrs -> Connecting] /\ ms \in [Addrs -> Connection]
        /\ <<>> \in Seq(Addrs) /\ <<>> \in Seq(Versioned)
    BY <1>3, EmptyTables
  <2>2. 0 \in 0..MaxVersion
    BY DriverConstants
  <2> QED
    BY <1>2, <1>4, <2>1, <2>2 DEF Driver
<1>6. /\ drv'.identity = drv.identity /\ drv'.connecting = cs /\ drv'.conns = ms /\ drv'.blocked = <<>>
      /\ drv'.pending = {} /\ drv'.evicting = {} /\ drv'.orphans = <<>> /\ drv'.handle = x.handle
  BY <1>2, <1>4 DEF Driver
<1>7. Blank(drv')
  BY <1>2, <1>3, <1>5, <1>6 DEF Blank
<1>8. Good(drv', drv'.identity, gh, {})
  BY <1>7, BlankIsGood
<1> QED
  BY <1>6, <1>8

-----------------------------------------------------------------------------
(***************************************************************************)
(* The command channel                                                     *)
(***************************************************************************)

Commands == {"update", "barrier"}

\* OneBarrierInFlight is what Barriers says of the variables.
LEMMA BarriersAreOne ==
  ASSUME CommandInv
  PROVE  OneBarrierInFlight
<1>1. Barriers(cnc, in_flight, stage) /\ in_flight \in BOOLEAN
  BY DEF CommandInv
<1> QED
  BY <1>1 DEF Barriers, OneBarrierInFlight

\* A command is sent.
LEMMA AppendsCommand ==
  ASSUME NEW q \in Seq(Commands), NEW c \in Commands
  PROVE  /\ Append(q, c) \in Seq(Commands) /\ Len(Append(q, c)) = Len(q) + 1
         /\ DOMAIN Append(q, c) = DOMAIN q \cup {Len(q) + 1} /\ Len(q) + 1 \notin DOMAIN q
         /\ Append(q, c)[Len(q) + 1] = c /\ \A i \in DOMAIN q : Append(q, c)[i] = q[i]
<1>1. PICK N \in Nat : N = Len(q) /\ DOMAIN q = 1..N
  BY LenProperties
<1>2. PICK r : r = Append(q, c)
  OBVIOUS
<1>3. /\ r \in Seq(Commands) /\ Len(r) = N + 1 /\ r[N + 1] = c /\ \A i \in 1..N : r[i] = q[i]
  BY <1>1, <1>2, AppendProperties
<1>4. DOMAIN r = 1..(N + 1)
  BY <1>3, LenProperties
<1>5. 1..(N + 1) = (1..N) \cup {N + 1} /\ N + 1 \notin 1..N
  OBVIOUS
<1> QED
  BY <1>1, <1>2, <1>3, <1>4, <1>5

\* A command is received.
LEMMA TakesCommand ==
  ASSUME NEW q \in Seq(Commands), q # <<>>
  PROVE  /\ Tail(q) \in Seq(Commands) /\ Len(Tail(q)) = Len(q) - 1 /\ Head(q) = q[1] /\ 1 \in DOMAIN q
         /\ \A i \in DOMAIN Tail(q) : i + 1 \in DOMAIN q /\ i + 1 # 1 /\ Tail(q)[i] = q[i + 1]
         /\ \A i \in DOMAIN q : i # 1 => i - 1 \in DOMAIN Tail(q) /\ Tail(q)[i - 1] = q[i]
<1>1. PICK N \in Nat : N = Len(q) /\ DOMAIN q = 1..N
  BY LenProperties
<1>2. N # 0
  BY <1>1, EmptySeq
<1>3. PICK r : r = Tail(q)
  OBVIOUS
<1>4. r \in Seq(Commands) /\ Len(r) = N - 1 /\ \A i \in 1..(N - 1) : r[i] = q[i + 1]
  BY <1>1, <1>3, HeadTailProperties
<1>5. DOMAIN r = 1..(N - 1)
  BY <1>4, LenProperties
<1>6. Head(q) = q[1] /\ 1 \in 1..N
  BY <1>2
<1>7. \A i \in 1..(N - 1) : i + 1 \in 1..N /\ i + 1 # 1
  OBVIOUS
<1>8. ASSUME NEW i \in 1..N, i # 1 PROVE i - 1 \in 1..(N - 1) /\ r[i - 1] = q[i]
  <2>1. i - 1 \in 1..(N - 1) /\ (i - 1) + 1 = i
    BY <1>8
  <2> QED
    BY <1>4, <2>1
<1> QED
  BY <1>1, <1>3, <1>4, <1>5, <1>6, <1>7, <1>8

-----------------------------------------------------------------------------
(***************************************************************************)
(* The invariant is inductive                                              *)
(***************************************************************************)

\* The initial state.
LEMMA InitHolds == Init => DriverInv
<1> SUFFICES ASSUME Init PROVE DriverInv
  OBVIOUS
<1>1. /\ NoHandle \in Handle /\ NoWorker \in Worker /\ NoConnection \in Connection
      /\ NoConnecting \in Connecting
  BY NoneTypes
<1>2. /\ <<>> \in Seq(Entry) /\ <<>> \in Seq(Addrs) /\ <<>> \in Seq(Versioned)
      /\ <<>> \in Seq(Outcomes) /\ <<>> \in Seq(Commands)
  BY EmptyMembers
<1>3. 0 \in Identities /\ 0 \in 0..MaxVersion /\ 0 \in 0..MaxFaults
  BY DriverConstants DEF Identities
<1>4. drv \in Driver
  <2>1. /\ [p \in Peers |-> <<>>] \in [Peers -> Seq(Entry)]
        /\ [p \in Peers |-> [i \in Identities |-> <<>>]] \in [Peers -> [Identities -> Seq(Entry)]]
        /\ [t \in Txs |-> <<>>] \in [Txs -> Seq(Outcomes)]
    BY <1>2
  <2>2. /\ [a \in Addrs |-> NoConnecting] \in [Addrs -> Connecting]
        /\ [a \in Addrs |-> NoConnection] \in [Addrs -> Connection]
        /\ [p \in Peers |-> NoHandle] \in [Peers -> Handle]
        /\ [p \in Peers |-> [i \in Identities |-> NoWorker]] \in [Peers -> [Identities -> Worker]]
    BY <1>1
  <2> QED
    BY <1>2, <1>3, <2>1, <2>2 DEF Init, Driver
<1>5. Blank(drv)
  BY <1>4 DEF Init, Blank
<1>6. Good(drv, drv.identity, ghosts, {})
  BY <1>5, BlankIsGood
<1>7. stage = "evict" /\ cnc = <<>> /\ in_flight = FALSE /\ drv.identity = 0
  BY DEF Init
<1>8. CommandInv
  <2>1. DOMAIN cnc = {} /\ Len(cnc) = 0
    BY <1>7
  <2>2. Barriers(cnc, in_flight, stage)
    BY <1>7, <2>1 DEF Barriers
  <2>3. cnc \in Seq({"update", "barrier"}) /\ in_flight \in BOOLEAN
    BY <1>2, <1>7 DEF Commands
  <2>4. drv.identity + Len(cnc) <= MaxIdentity
    BY <1>7, <2>1, DriverConstants
  <2> QED
    BY <2>2, <2>3, <2>4 DEF CommandInv
<1>9. respawn \in [Addrs -> Connecting]
  BY <1>1 DEF Init
<1>10. tpu_addr \in [Peers -> Addrs \cup {NoAddr}]
  BY DriverConstants DEF Init
<1>11. /\ faults \in 0..MaxFaults /\ submitted \in SUBSET Txs
       /\ ghosts \in SUBSET Ghost
  BY <1>3 DEF Init
<1> QED
  BY <1>6, <1>7, <1>8, <1>9, <1>10, <1>11 DEF DriverInv

InLoop(st) == st = "evict" \/ st = "predict" \/ st = "select"

\* The loop stays where it is, or goes on.
Proceeds == stage' = stage \/ (InLoop(stage) /\ InLoop(stage'))

\* The types of what surrounds the loop.
SurroundingsOK ==
  /\ respawn \in [Addrs -> Connecting]
  /\ tpu_addr \in [Peers -> Addrs \cup {NoAddr}]
  /\ faults \in 0..MaxFaults
  /\ ghosts \in SUBSET Ghost
  /\ submitted \in SUBSET Txs

\* A step that neither touches the commands nor the identity.
LEMMA OrdinaryStep ==
  ASSUME DriverInv, Good(drv', drv.identity, ghosts', {}), Proceeds, SurroundingsOK',
         UNCHANGED <<cnc, in_flight>>
  PROVE  DriverInv'
<1>1. drv'.identity = drv.identity /\ Good(drv', drv'.identity, ghosts', {})
  BY DEF Good
<1>2. stage \in {"evict", "predict", "select", "barrier", "stopped"}
  BY DEF DriverInv
<1>3. /\ stage' \in {"evict", "predict", "select", "barrier", "stopped"}
      /\ stage' = "barrier" <=> stage = "barrier"
      /\ stage' = "stopped" <=> stage = "stopped"
  BY <1>2 DEF Proceeds, InLoop
<1>4. /\ cnc \in Seq({"update", "barrier"}) /\ in_flight \in BOOLEAN
      /\ stage # "stopped" => drv.identity + Len(cnc) <= MaxIdentity
      /\ Barriers(cnc, in_flight, stage)
  BY DEF DriverInv, CommandInv
<1>5. Barriers(cnc', in_flight', stage')
  BY <1>3, <1>4 DEF Barriers
<1>6. CommandInv'
  BY <1>1, <1>3, <1>4, <1>5 DEF CommandInv
<1> QED
  BY <1>1, <1>3, <1>6 DEF DriverInv, SurroundingsOK

\* A step of the loop itself, from its top or its select!.
LEMMA LoopStep ==
  ASSUME DriverInv, Good(drv', drv.identity, ghosts, {}), InLoop(stage), InLoop(stage'),
         UNCHANGED <<respawn, tpu_addr, faults, ghosts, cnc, in_flight>>, submitted' \in SUBSET Txs
  PROVE  DriverInv'
<1>1. Proceeds
  BY DEF Proceeds
<1>2. SurroundingsOK'
  BY DEF DriverInv, SurroundingsOK
<1> QED
  BY <1>1, <1>2, OrdinaryStep

\* A step beside the loop.
LEMMA TaskStep ==
  ASSUME DriverInv, Good(drv', drv.identity, ghosts, {}), UNCHANGED <<stage, respawn, ghosts, cnc, in_flight, submitted>>,
         tpu_addr' \in [Peers -> Addrs \cup {NoAddr}], faults' \in 0..MaxFaults
  PROVE  DriverInv'
<1>1. Proceeds
  BY DEF Proceeds
<1>2. SurroundingsOK'
  BY DEF DriverInv, SurroundingsOK
<1> QED
  BY <1>1, <1>2, OrdinaryStep

\* The bound of the faults.
LEMMA FaultCounted ==
  ASSUME DriverInv, FaultHappens
  PROVE  faults' \in 0..MaxFaults
<1>1. MaxFaults \in Nat /\ faults \in 0..MaxFaults
  BY DriverConstants DEF DriverInv
<1> QED
  BY <1>1 DEF FaultHappens

\* The guards of the handlers say that the loop runs.
LEMMA SelectIsInLoop ==
  /\ AtSelect => InLoop(stage)
  /\ EvictionDone => InLoop(stage)
  /\ LoopAgain => InLoop(stage')
  BY DEF AtSelect, EvictionDone, LoopAgain, InLoop

\* The top of the loop and the branches of its select!, identity updates apart.
LEMMA LoopActionsKeep ==
  ASSUME DriverInv,
         \/ DoEviction \/ PredictionTimer
         \/ \E upcoming \in SetToAllKPermutations(Predictable) \ {<<>>} : TryPredictUpcomingLeaders(upcoming)
         \/ \E t \in Txs : AcceptTx(t)
         \/ \E a \in Addrs : ConnectingEnds(a)
         \/ \E p \in Peers : WorkerJoined(p)
         \/ OrphanTimer
         \/ \E changed \in SUBSET Moved \ {{}} : HandleRemotePeerAddrChange(changed)
  PROVE  DriverInv'
<1>0. PICK id : id = drv.identity
  OBVIOUS
<1>1. Good(drv, id, ghosts, {}) /\ tpu_addr \in [Peers -> Addrs \cup {NoAddr}] /\ submitted \in SUBSET Txs
  BY <1>0 DEF DriverInv
<1>2. ASSUME Good(drv', id, ghosts, {}), InLoop(stage), InLoop(stage'), UNCHANGED <<envVars, cmdVars>>,
             submitted' \in SUBSET Txs
      PROVE  DriverInv'
  BY <1>0, <1>2, LoopStep DEF envVars, cmdVars
<1>3. CASE DoEviction
  <2>1. Good(drv', id, ghosts, {})
    BY <1>1, <1>3, DoEvictionKeeps
  <2>2. InLoop(stage) /\ InLoop(stage') /\ UNCHANGED <<envVars, cmdVars, submitted>>
    BY <1>3 DEF DoEviction, InLoop
  <2> QED
    BY <1>1, <1>2, <2>1, <2>2
<1>4. CASE PredictionTimer
  <2>1. InLoop(stage) /\ InLoop(stage') /\ UNCHANGED <<drv, envVars, cmdVars, submitted>>
    BY <1>4 DEF PredictionTimer, LoopAgain, InLoop
  <2> QED
    BY <1>1, <1>2, <2>1
<1>5. ASSUME NEW upcoming \in SetToAllKPermutations(Predictable), TryPredictUpcomingLeaders(upcoming)
      PROVE  DriverInv'
  <2>1. Good(drv', id, ghosts, {})
    BY <1>1, <1>5, TryPredictUpcomingLeadersKeeps
  <2>2. InLoop(stage) /\ InLoop(stage') /\ UNCHANGED <<envVars, cmdVars, submitted>>
    BY <1>5, SelectIsInLoop DEF TryPredictUpcomingLeaders, InLoop
  <2> QED
    BY <1>1, <1>2, <2>1, <2>2
<1>6. ASSUME NEW t \in Txs, AcceptTx(t) PROVE DriverInv'
  <2>1. Good(drv', id, ghosts, {})
    BY <1>1, <1>6, AcceptTxKeeps
  <2>2. /\ InLoop(stage) /\ InLoop(stage') /\ UNCHANGED <<envVars, cmdVars>>
        /\ submitted' = submitted \cup {t}
    BY <1>6, SelectIsInLoop DEF AcceptTx
  <2> QED
    BY <1>1, <1>2, <2>1, <2>2
<1>7. ASSUME NEW a \in Addrs, ConnectingEnds(a) PROVE DriverInv'
  <2>1. PICK outcome \in {"ok", "connection_error", "other_error"} : HandleConnectingResult(a, outcome)
    BY <1>7 DEF ConnectingEnds
  <2>2. Good(drv', id, ghosts, {})
    BY <1>1, <2>1, HandleConnectingResultKeeps
  <2>3. InLoop(stage) /\ InLoop(stage') /\ UNCHANGED <<envVars, cmdVars, submitted>>
    BY <2>1, SelectIsInLoop DEF HandleConnectingResult
  <2> QED
    BY <1>1, <1>2, <2>2, <2>3
<1>8. ASSUME NEW p \in Peers, WorkerJoined(p) PROVE DriverInv'
  <2>1. CASE HandleWorkerResult(p)
    <3>1. Good(drv', id, ghosts, {})
      BY <1>1, <2>1, HandleWorkerResultKeeps
    <3>2. AtSelect /\ LoopAgain /\ UNCHANGED <<envVars, cmdVars, submitted>>
      BY <2>1, Zenon DEF HandleWorkerResult
    <3> QED
      BY <1>1, <1>2, <3>1, <3>2, SelectIsInLoop
  <2>2. CASE HandleWorkerPanicked(p)
    <3>1. Good(drv', drv.identity, ghosts', {})
      BY <1>0, <1>1, <2>2, HandleWorkerPanickedKeeps
    <3>2. /\ AtSelect /\ LoopAgain /\ drv.worker[p][drv.identity].st = "panicked"
          /\ UNCHANGED <<tpu_addr, faults, cmdVars, submitted>>
          /\ ghosts' = ghosts \cup {<<drv.handle[p].addr, drv.handle[p].version, p>>}
      BY <2>2, Zenon DEF HandleWorkerPanicked
    <3>3. Proceeds
      BY <3>2, SelectIsInLoop DEF Proceeds
    <3>4. <<drv.handle[p].addr, drv.handle[p].version, p>> \in Ghost
      <4>1. drv.handle[p] \in Handle
        BY <1>1, Fields DEF Good
      <4> QED
        BY <4>1 DEF Handle, Ghost
    <3>5. SurroundingsOK'
      BY <3>2, <3>4 DEF DriverInv, SurroundingsOK, cmdVars
    <3> QED
      BY <3>1, <3>2, <3>3, <3>5, OrdinaryStep DEF cmdVars
  <2> QED
    BY <1>8, <2>1, <2>2 DEF WorkerJoined
<1>9. CASE OrphanTimer
  <2>1. PICK k \in 1..Len(drv.orphans) : TryEvictOrphanConnections(k)
    BY <1>9 DEF OrphanTimer
  <2>2. Good(drv', id, ghosts, {})
    BY <1>1, <2>1, TryEvictOrphanConnectionsKeeps
  <2>3. InLoop(stage) /\ InLoop(stage') /\ UNCHANGED <<envVars, cmdVars, submitted>>
    BY <2>1, SelectIsInLoop DEF TryEvictOrphanConnections
  <2> QED
    BY <1>1, <1>2, <2>2, <2>3
<1>10. ASSUME NEW changed \in SUBSET Moved, HandleRemotePeerAddrChange(changed) PROVE DriverInv'
  <2>1. Good(drv', id, ghosts, {})
    BY <1>1, <1>10, HandleRemotePeerAddrChangeKeeps
  <2>2. InLoop(stage) /\ InLoop(stage') /\ UNCHANGED <<envVars, cmdVars, submitted>>
    BY <1>10, SelectIsInLoop DEF HandleRemotePeerAddrChange
  <2> QED
    BY <1>1, <1>2, <2>1, <2>2
<1> QED
  BY <1>3, <1>4, <1>5, <1>6, <1>7, <1>8, <1>9, <1>10

\* Workers, drain tasklets, network, clock and address service.
LEMMA TasksKeep ==
  ASSUME DriverInv,
         \/ \E p \in Peers, i \in Identities :
              \/ SendEnds(p, i) \/ WorkerStep(p, i)
              \/ \E error \in {"lost", "mismatch"} : WorkerSeesClose(p, i, error)
              \/ WorkerPanics(p, i)
              \/ DrainJoin(p, i)
         \/ \E a \in Addrs, error \in {"lost", "mismatch"} : ConnectionDies(a, error)
         \/ \E p \in Peers : GracePeriodElapses(p)
         \/ \E p \in Peers, a \in Addrs \cup {NoAddr} : PeerMoves(p, a)
  PROVE  DriverInv'
<1>0. PICK id : id = drv.identity
  OBVIOUS
<1>1. /\ Good(drv, id, ghosts, {}) /\ tpu_addr \in [Peers -> Addrs \cup {NoAddr}]
      /\ faults \in 0..MaxFaults
  BY <1>0 DEF DriverInv
<1>2. ASSUME Good(drv', id, ghosts, {}), UNCHANGED <<stage, ghosts, cmdVars, submitted>>,
             tpu_addr' \in [Peers -> Addrs \cup {NoAddr}], faults' \in 0..MaxFaults
      PROVE  DriverInv'
  BY <1>0, <1>2, TaskStep DEF cmdVars
<1>3. ASSUME Good(drv', id, ghosts, {}), UNCHANGED workerFrame PROVE DriverInv'
  BY <1>1, <1>2, <1>3 DEF workerFrame, envVars
<1>4. ASSUME NEW p \in Peers, NEW i \in Identities, SendEnds(p, i) \/ WorkerStep(p, i) PROVE DriverInv'
  <2>1. CASE SendOk(p, i)
    <3>1. Good(drv', id, ghosts, {})
      BY <1>1, <2>1, SendOkKeeps
    <3>2. UNCHANGED workerFrame
      BY <2>1, Zenon DEF SendOk
    <3> QED
      BY <1>3, <3>1, <3>2
  <2>2. ASSUME NEW error \in DOMAIN WriteErrors, SendFailed(p, i, error) PROVE DriverInv'
    <3>1. Good(drv', id, ghosts, {})
      BY <1>1, <2>2, SendFailedKeeps
    <3>2. UNCHANGED workerFrame
      BY <2>2, Zenon DEF SendFailed
    <3> QED
      BY <1>3, <3>1, <3>2
  <2>3. CASE WorkerRecv(p, i)
    <3>1. Good(drv', id, ghosts, {})
      BY <1>1, <2>3, WorkerRecvKeeps
    <3>2. UNCHANGED workerFrame
      BY <2>3, Zenon DEF WorkerRecv
    <3> QED
      BY <1>3, <3>1, <3>2
  <2>4. CASE WorkerReturns(p, i)
    <3>1. Good(drv', id, ghosts, {})
      BY <1>1, <2>4, WorkerEndsKeeps
    <3> QED
      BY <1>3, <2>4, <3>1 DEF WorkerReturns
  <2>5. CASE WorkerCanceled(p, i)
    <3>1. Good(drv', id, ghosts, {})
      BY <1>1, <2>5, WorkerEndsKeeps
    <3> QED
      BY <1>3, <2>5, <3>1 DEF WorkerCanceled
  <2> QED
    BY <1>4, <2>1, <2>2, <2>3, <2>4, <2>5 DEF SendEnds, WorkerStep
<1>5. ASSUME NEW p \in Peers, NEW i \in Identities, NEW error \in {"lost", "mismatch"},
             WorkerSeesClose(p, i, error)
      PROVE  DriverInv'
  <2>1. Good(drv', id, ghosts, {})
    BY <1>1, <1>5, WorkerEndsKeeps
  <2> QED
    <3>1. UNCHANGED workerFrame
      BY <1>5, Zenon DEF WorkerSeesClose
    <3> QED
      BY <1>3, <2>1, <3>1
<1>6. ASSUME NEW p \in Peers, NEW i \in Identities, WorkerPanics(p, i) PROVE DriverInv'
  <2>1. Good(drv', id, ghosts, {})
    BY <1>1, <1>6, WorkerEndsKeeps
  <2>2. FaultHappens /\ UNCHANGED <<stage, tpu_addr, ghosts, cmdVars, submitted>>
    BY <1>6 DEF WorkerPanics
  <2>3. faults' \in 0..MaxFaults
    BY <2>2, FaultCounted
  <2> QED
    BY <1>1, <1>2, <2>1, <2>2, <2>3
<1>7. ASSUME NEW p \in Peers, NEW i \in Identities, DrainJoin(p, i) PROVE DriverInv'
  <2>1. Good(drv', id, ghosts, {})
    BY <1>1, <1>7, DrainJoinKeeps
  <2>2. UNCHANGED workerFrame
    BY <1>7, Zenon DEF DrainJoin
  <2> QED
    BY <1>3, <2>1, <2>2
<1>8. ASSUME NEW a \in Addrs, NEW error \in {"lost", "mismatch"}, ConnectionDies(a, error) PROVE DriverInv'
  <2>1. Good(drv', id, ghosts, {})
    BY <1>1, <1>8, ConnectionDiesKeeps
  <2>2. UNCHANGED workerFrame
    BY <1>8 DEF ConnectionDies, workerFrame
  <2> QED
    BY <1>3, <2>1, <2>2
<1>9. ASSUME NEW p \in Peers, GracePeriodElapses(p) PROVE DriverInv'
  <2>1. Good(drv', id, ghosts, {})
    BY <1>1, <1>9, GracePeriodElapsesKeeps
  <2>2. UNCHANGED workerFrame
    BY <1>9 DEF GracePeriodElapses, workerFrame
  <2> QED
    BY <1>3, <2>1, <2>2
<1>10. ASSUME NEW p \in Peers, NEW a \in Addrs \cup {NoAddr}, PeerMoves(p, a) PROVE DriverInv'
  <2>1. FaultHappens /\ UNCHANGED <<stage, drv, ghosts, cmdVars, submitted>> /\ tpu_addr' = [tpu_addr EXCEPT ![p] = a]
    BY <1>10 DEF PeerMoves
  <2>2. faults' \in 0..MaxFaults
    BY <2>1, FaultCounted
  <2>3. tpu_addr' \in [Peers -> Addrs \cup {NoAddr}]
    BY <1>1, <2>1
  <2>4. Good(drv', id, ghosts, {})
    BY <1>1, <2>1
  <2> QED
    BY <1>2, <2>1, <2>2, <2>3, <2>4
<1> QED
  BY <1>4, <1>5, <1>6, <1>7, <1>8, <1>9, <1>10

\* Identity updates and the end of the input.
LEMMA CommandsKeep ==
  ASSUME DriverInv,
         \/ RequestUpdate \/ RequestBarrierUpdate
         \/ UpdateIdentity \/ UpdateIdentityToBarrier \/ BarrierReleased \/ InletClosed
  PROVE  DriverInv'
<1>1. /\ Good(drv, drv.identity, ghosts, {}) /\ drv \in Driver /\ drv.identity \in Nat
      /\ stage \in {"evict", "predict", "select", "barrier", "stopped"} /\ SurroundingsOK
  <2>1. Good(drv, drv.identity, ghosts, {}) /\ SurroundingsOK
    BY DEF DriverInv, SurroundingsOK
  <2>2. drv \in Driver
    BY <2>1 DEF Good
  <2>3. drv.identity \in Nat
    BY <2>2, Fields DEF Identities
  <2> QED
    BY <2>1, <2>2, <2>3 DEF DriverInv
<1>2. /\ cnc \in Seq(Commands) /\ in_flight \in BOOLEAN
      /\ stage # "stopped" => drv.identity + Len(cnc) <= MaxIdentity
      /\ Barriers(cnc, in_flight, stage)
  BY DEF DriverInv, CommandInv, Commands
<1>3. Len(cnc) \in Nat /\ MaxIdentity \in Nat
  BY <1>2, LenProperties, DriverConstants
<1>4. ASSUME Good(drv', drv'.identity, ghosts', {}), stage' \in {"evict", "predict", "select", "barrier", "stopped"},
             SurroundingsOK', cnc' \in Seq(Commands), in_flight' \in BOOLEAN,
             stage' # "stopped" => drv'.identity + Len(cnc') <= MaxIdentity,
             Barriers(cnc', in_flight', stage')
      PROVE  DriverInv'
  <2>1. CommandInv'
    BY <1>4 DEF CommandInv, Commands
  <2> QED
    BY <1>4, <2>1 DEF DriverInv, SurroundingsOK
<1>5. CASE RequestUpdate \/ RequestBarrierUpdate
  <2>1. PICK c \in Commands :
          /\ cnc' = Append(cnc, c) /\ in_flight' = (c = "barrier")
          /\ FaultHappens /\ ~in_flight /\ stage # "stopped" /\ drv.identity + Len(cnc) < MaxIdentity
          /\ UNCHANGED <<stage, drv, respawn, tpu_addr, ghosts, submitted>>
    <3>1. CASE RequestUpdate
      <4>1. "update" \in Commands /\ in_flight' = ("update" = "barrier")
        BY <1>2, <3>1 DEF RequestUpdate, Commands
      <4> QED
        BY <3>1, <4>1 DEF RequestUpdate
    <3>2. CASE RequestBarrierUpdate
      <4>1. "barrier" \in Commands /\ in_flight' = ("barrier" = "barrier")
        BY <3>2 DEF RequestBarrierUpdate, Commands
      <4> QED
        BY <3>2, <4>1 DEF RequestBarrierUpdate
    <3> QED
      BY <1>5, <3>1, <3>2
  <2>2. PICK k : k = Len(cnc) + 1
    OBVIOUS
  <2>3. /\ cnc' \in Seq(Commands) /\ Len(cnc') = Len(cnc) + 1
        /\ DOMAIN cnc' = DOMAIN cnc \cup {k} /\ k \notin DOMAIN cnc
        /\ cnc'[k] = c /\ \A i \in DOMAIN cnc : cnc'[i] = cnc[i]
    BY <1>2, <2>1, <2>2, AppendsCommand
  <2>4. stage # "barrier" /\ \A i \in DOMAIN cnc : cnc[i] # "barrier"
    BY <1>2, <2>1 DEF Barriers
  <2>5. Barriers(cnc', in_flight', stage')
    <3>1. \A i \in DOMAIN cnc' : cnc'[i] = "barrier" => i = k /\ c = "barrier"
      BY <2>3, <2>4
    <3>2. c = "barrier" => k \in DOMAIN cnc' /\ cnc'[k] = "barrier"
      BY <2>3
    <3> QED
      BY <2>1, <2>2, <2>3, <2>4, <3>1, <3>2 DEF Barriers
  <2>6. drv'.identity + Len(cnc') <= MaxIdentity
    BY <1>1, <1>3, <2>1, <2>3
  <2>7. SurroundingsOK'
    <3>1. faults' \in 0..MaxFaults
      BY <2>1, FaultCounted
    <3> QED
      BY <1>1, <2>1, <3>1 DEF SurroundingsOK
  <2>8. Good(drv', drv'.identity, ghosts', {}) /\ in_flight' \in BOOLEAN /\ stage' = stage
    BY <1>1, <2>1
  <2> QED
    BY <1>1, <1>4, <2>3, <2>5, <2>6, <2>7, <2>8
<1>6. ASSUME cnc # <<>>, cnc' = Tail(cnc), stage # "stopped"
      PROVE  /\ cnc' \in Seq(Commands) /\ drv.identity < MaxIdentity
             /\ (drv.identity + 1) + Len(cnc') <= MaxIdentity
  <2>1. cnc' \in Seq(Commands) /\ Len(cnc') = Len(cnc) - 1 /\ Len(cnc') \in Nat
    <3>1. cnc' \in Seq(Commands) /\ Len(cnc') = Len(cnc) - 1
      BY <1>2, <1>6, TakesCommand
    <3> QED
      BY <3>1, LenProperties
  <2> QED
    BY <1>1, <1>2, <1>3, <1>6, <2>1
<1>7. ASSUME InLoop(stage) PROVE stage # "barrier" /\ stage # "stopped"
  BY <1>7 DEF InLoop
<1>8. CASE UpdateIdentity
  <2>1. /\ InLoop(stage) /\ cnc # <<>> /\ Head(cnc) = "update" /\ cnc' = Tail(cnc) /\ stage' = "evict"
        /\ UNCHANGED <<respawn, tpu_addr, faults, ghosts, in_flight, submitted>>
    BY <1>8, SelectIsInLoop DEF UpdateIdentity, LoopAgain, envVars
  <2>2. cnc' \in Seq(Commands) /\ drv.identity < MaxIdentity /\ (drv.identity + 1) + Len(cnc') <= MaxIdentity
    BY <1>6, <1>7, <2>1
  <2>3. Good(drv', drv.identity + 1, ghosts, {})
    BY <1>1, <1>8, <2>2, UpdateIdentityKeeps DEF SurroundingsOK
  <2>4. drv'.identity = drv.identity + 1 /\ Good(drv', drv'.identity, ghosts', {})
    BY <2>1, <2>3 DEF Good
  <2>5. Barriers(cnc', in_flight', stage')
    <3>1. /\ Head(cnc) = cnc[1] /\ 1 \in DOMAIN cnc
          /\ \A i \in DOMAIN cnc' : i + 1 \in DOMAIN cnc /\ i + 1 # 1 /\ cnc'[i] = cnc[i + 1]
          /\ \A i \in DOMAIN cnc : i # 1 => i - 1 \in DOMAIN cnc' /\ cnc'[i - 1] = cnc[i]
      BY <1>2, <2>1, TakesCommand
    <3>2. DOMAIN cnc' \subseteq Nat /\ Len(cnc') = Len(cnc) - 1
      BY <1>2, <2>1, <2>2, LenProperties, TakesCommand
    <3>3. ASSUME NEW i \in DOMAIN cnc', cnc'[i] = "barrier"
          PROVE  i = Len(cnc')
      <4>1. i + 1 = Len(cnc)
        BY <1>2, <3>1, <3>3 DEF Barriers
      <4> QED
        BY <1>3, <3>2, <4>1
    <3>4. (\E i \in DOMAIN cnc' : cnc'[i] = "barrier") <=> \E i \in DOMAIN cnc : cnc[i] = "barrier"
      <4>1. ASSUME NEW i \in DOMAIN cnc', cnc'[i] = "barrier" PROVE \E j \in DOMAIN cnc : cnc[j] = "barrier"
        BY <3>1, <4>1
      <4>2. ASSUME NEW i \in DOMAIN cnc, cnc[i] = "barrier" PROVE \E j \in DOMAIN cnc' : cnc'[j] = "barrier"
        <5>1. i # 1
          BY <2>1, <3>1, <4>2
        <5> QED
          BY <3>1, <4>2, <5>1
      <4> QED
        BY <4>1, <4>2
    <3>5. stage # "barrier" /\ stage' # "barrier" /\ in_flight' = in_flight
      BY <1>7, <2>1
    <3> QED
      BY <1>2, <3>3, <3>4, <3>5 DEF Barriers
  <2>6. SurroundingsOK'
    BY <1>1, <2>1 DEF SurroundingsOK
  <2>7. drv'.identity + Len(cnc') <= MaxIdentity
    BY <2>2, <2>4
  <2> QED
    BY <1>2, <1>4, <2>1, <2>2, <2>4, <2>5, <2>6, <2>7
<1>9. CASE UpdateIdentityToBarrier
  <2>1. /\ InLoop(stage) /\ cnc # <<>> /\ Head(cnc) = "barrier" /\ cnc' = Tail(cnc) /\ stage' = "barrier"
        /\ drv' = IdentityChanged(drv) /\ respawn' = drv.connecting
        /\ UNCHANGED <<tpu_addr, faults, ghosts, in_flight, submitted>>
    BY <1>9, SelectIsInLoop DEF UpdateIdentityToBarrier, envVars
  <2>2. cnc' \in Seq(Commands) /\ drv.identity < MaxIdentity /\ (drv.identity + 1) + Len(cnc') <= MaxIdentity
    BY <1>6, <1>7, <2>1
  <2>3. Good(drv', drv.identity + 1, ghosts, {})
    BY <1>1, <2>1, <2>2, IdentityChangedKeeps
  <2>4. drv'.identity = drv.identity + 1 /\ Good(drv', drv'.identity, ghosts', {})
    BY <2>1, <2>3 DEF Good
  <2>5. Barriers(cnc', in_flight', stage')
    <3>1. /\ Head(cnc) = cnc[1] /\ 1 \in DOMAIN cnc
          /\ \A i \in DOMAIN cnc' : i + 1 \in DOMAIN cnc /\ i + 1 # 1 /\ cnc'[i] = cnc[i + 1]
      BY <1>2, <2>1, TakesCommand
    <3>2. Len(cnc) = 1
      BY <1>2, <2>1, <3>1 DEF Barriers
    <3>4. cnc' = <<>>
      <4>1. Len(cnc') = 0
        BY <1>2, <2>1, <3>2, TakesCommand
      <4> QED
        BY <2>2, <4>1, EmptySeq
    <3>3. in_flight
      BY <1>2, <2>1, <3>1 DEF Barriers
    <3> QED
      BY <2>1, <3>3, <3>4 DEF Barriers
  <2>6. SurroundingsOK'
    <3>1. drv.connecting \in [Addrs -> Connecting]
      BY <1>1, Fields
    <3> QED
      BY <1>1, <2>1, <3>1 DEF SurroundingsOK
  <2>7. drv'.identity + Len(cnc') <= MaxIdentity
    BY <2>2, <2>4
  <2> QED
    BY <1>2, <1>4, <2>1, <2>2, <2>4, <2>5, <2>6, <2>7
<1>10. CASE BarrierReleased
  <2>1. /\ stage = "barrier" /\ respawn' = [a \in Addrs |-> NoConnecting] /\ in_flight' = FALSE
        /\ stage' = "evict" /\ UNCHANGED <<tpu_addr, faults, ghosts, cnc, submitted>>
    BY <1>10 DEF BarrierReleased, LoopAgain, envVars
  <2>2. Good(drv', drv.identity, ghosts, {})
    BY <1>1, <1>10, BarrierReleasedKeeps DEF SurroundingsOK
  <2>3. drv'.identity = drv.identity /\ Good(drv', drv'.identity, ghosts', {})
    BY <2>1, <2>2 DEF Good
  <2>4. Barriers(cnc', in_flight', stage')
    <3>1. \A i \in DOMAIN cnc : cnc[i] # "barrier"
      BY <1>2, <2>1 DEF Barriers
    <3> QED
      BY <2>1, <3>1 DEF Barriers
  <2>5. SurroundingsOK'
    <3>1. respawn' \in [Addrs -> Connecting]
      BY <2>1, EmptyTables
    <3> QED
      BY <1>1, <2>1, <3>1 DEF SurroundingsOK
  <2>6. drv'.identity + Len(cnc') <= MaxIdentity
    BY <1>2, <2>1, <2>3
  <2> QED
    BY <1>2, <1>4, <2>1, <2>3, <2>4, <2>5, <2>6
<1>11. CASE InletClosed
  <2>1. /\ stage' = "stopped" /\ cnc' = <<>> /\ in_flight' = FALSE /\ tpu_addr' = InitAddr
        /\ ghosts' = {} /\ UNCHANGED <<respawn, faults, submitted>>
    BY <1>11 DEF InletClosed
  <2>2. Good(drv', drv.identity, ghosts', {})
    BY <1>1, <1>11, InletClosedKeeps
  <2>3. Good(drv', drv'.identity, ghosts', {})
    BY <2>2 DEF Good
  <2>4. cnc' \in Seq(Commands) /\ DOMAIN cnc' = {}
    BY <2>1, EmptyMembers
  <2>5. Barriers(cnc', in_flight', stage')
    BY <2>1, <2>4 DEF Barriers
  <2>6. SurroundingsOK'
    <3>1. InitAddr \in [Peers -> Addrs \cup {NoAddr}]
      BY DriverConstants
    <3> QED
      BY <1>1, <2>1, <3>1 DEF SurroundingsOK
  <2> QED
    BY <1>4, <2>1, <2>3, <2>4, <2>5, <2>6
<1> QED
  BY <1>5, <1>8, <1>9, <1>10, <1>11

\* Every step keeps the invariant.
LEMMA NextKeeps == DriverInv /\ [Next]_vars => DriverInv'
<1> SUFFICES ASSUME DriverInv, [Next]_vars PROVE DriverInv'
  OBVIOUS
<1>1. CASE UNCHANGED vars
  BY <1>1 DEF vars, DriverInv, CommandInv
<1>2. CASE Ended
  BY <1>2 DEF Ended, vars, DriverInv, CommandInv
<1>3. CASE Next /\ ~Ended
  BY <1>3, LoopActionsKeep, TasksKeep, CommandsKeep DEF Next
<1> QED
  BY <1>1, <1>2, <1>3

\* What the invariant says of the tables.
LEMMA InvariantImplies ==
  ASSUME DriverInv
  PROVE  ConnectionsAccounted /\ AttemptsAccounted /\ OneBarrierInFlight
<1>1. /\ Good(drv, drv.identity, ghosts, {}) /\ drv \in Driver
  BY DEF DriverInv, Good
<1>2. TypeOK
  BY <1>1 DEF DriverInv, CommandInv, TypeOK
<1>3. NoOrphanWorker
  BY <1>1 DEF Good, Linked, NoOrphanWorker, OnCurrentConnection
<1>10. \A a \in Addrs : \A p \in drv.conns[a].peers : p \in Peers /\ (Uses(p, a) \/ IsGhost(p, a))
  <2> TAKE a \in Addrs
  <2> TAKE p \in drv.conns[a].peers
  <2>1. drv.conns[a] \in Connection /\ drv.handle \in [Peers -> Handle]
    BY <1>1, Fields
  <2>2. p \in Peers
    BY <2>1 DEF Connection
  <2>3. drv.handle[p] = [addr |-> drv.handle[p].addr, version |-> drv.handle[p].version]
    BY <2>1, <2>2 DEF Handle
  <2>4. \/ drv.handle[p].addr = a /\ drv.handle[p].version = drv.conns[a].version
        \/ <<a, drv.conns[a].version, p>> \in ghosts
    BY <1>1 DEF Good, Worked
  <2> QED
    BY <2>2, <2>3, <2>4 DEF Uses, IsGhost
<1>11. TableIsExact
  BY <1>10 DEF TableIsExact
<1>4. UnusedIsOrphaned
  BY <1>1, <1>10 DEF Good, UnusedKnown, UnusedIsOrphaned, Connected
<1>5. PendingIsInUse
  <2>1. \A e \in drv.pending : e[1] \in Addrs
    BY <1>1, Fields DEF Versioned
  <2> QED
    BY <1>1, <1>10, <2>1 DEF Good, PendingUsed, PendingIsInUse
<1>6. DialOrConnection
  <2>1. \A a \in Addrs : drv.connecting[a].peers \in Seq(Peers)
    BY <1>1, Fields DEF Connecting
  <2>2. \A a \in Addrs : ToSet(drv.connecting[a].peers) \subseteq Peers
    BY <2>1, SeqMembers
  <2>3. \A p \in ConnectingPeers(drv) : ~HasWorker(drv, p)
    BY <1>1, <2>2 DEF Good, Dials, ConnectingPeers
  <2> QED
    BY <1>1, <2>3 DEF Good, Dials, DialOrConnection, Connected
<1>7. WaiterIsListed
  <2>1. ToSet(drv.blocked) \subseteq Addrs
    BY <1>1, Fields, SeqMembers
  <2> QED
    BY <1>1, <2>1 DEF Good, Waits, WaiterIsListed
<1>8. EvictionIsSignalled
  BY <1>1 DEF Good, Evictions, Signalled, EvictionIsSignalled
<1>9. OneBarrierInFlight
  BY BarriersAreOne DEF DriverInv
<1> QED
  BY <1>2, <1>3, <1>4, <1>5, <1>6, <1>7, <1>8, <1>9, <1>11 DEF ConnectionsAccounted, AttemptsAccounted

-----------------------------------------------------------------------------
(***************************************************************************)
(* Theorems                                                                *)
(***************************************************************************)

\* The inductive invariant of the event loop: handles, connections, versions,
\* pending evictions, orphans, attempts, waiters and signals agree after every
\* handler, and with the commands and the permit of an identity update.
THEOREM DriverInvariant == Spec => []DriverInv
<1> QED
  BY InitHolds, NextKeeps, PTL DEF Spec

\* No worker without its connection; no connection that nobody will close and no
\* pending eviction that nobody ends, but where a worker has panicked: for any
\* number of peers that share, leave and change addresses.
THEOREM ConnectionsAreAccounted == Spec => []ConnectionsAccounted
<1>1. DriverInv => ConnectionsAccounted
  BY InvariantImplies
<1> QED
  BY <1>1, DriverInvariant, PTL

\* No attempt collides with a connection or a worker; none that waits for a
\* place is forgotten, nor the signal of the eviction it waits for.
THEOREM AttemptsAreAccounted == Spec => []AttemptsAccounted
<1>1. DriverInv => AttemptsAccounted
  BY InvariantImplies
<1> QED
  BY <1>1, DriverInvariant, PTL

\* The permit of update_identity_with_confirmation_barrier is held exactly while
\* its command is queued or waited for, and no command is queued behind it.
THEOREM OneBarrierIsInFlight == Spec => []OneBarrierInFlight
<1>1. DriverInv => OneBarrierInFlight
  BY InvariantImplies
<1> QED
  BY <1>1, DriverInvariant, PTL
=============================================================================
