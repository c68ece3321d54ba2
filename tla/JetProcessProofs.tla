-------------------------- MODULE JetProcessProofs --------------------------
(***************************************************************************)
(* Proofs about JetProcess: the process works under one identity, its      *)
(* jet-gateway session is sound and its events reach Lewis in order, for   *)
(* any number of admin calls, connections, transactions and events.        *)
(***************************************************************************)
EXTENDS JetProcess, SequenceTheorems, FiniteSetTheorems, TLAPS

-----------------------------------------------------------------------------
(***************************************************************************)
(* Identity                                                                *)
(***************************************************************************)

\* The part of TypeOK about the calls and the members.
IdentityTypes ==
  /\ group \in [identity : Identities, watcher : Identities, members : {{}, Members},
                lock : Holder]
  /\ call \in [Callers -> [pc : {"idle", "lock", "pausing", "waiting", "done", "lost"},
                           identity : Identities, taken : {{}, Members}, todo : SUBSET Members]]
  /\ barrier \in [Callers -> [size : Nat, arrived : Nat]]
  /\ gateway \in Member /\ listener \in Member

MemberState(m) == IF m = "quic gateway" THEN gateway ELSE listener

\* The member waits at the call's barrier, or did when it ended.
Took(m, c) == MemberState(m).at = {c}

Active(c) == call[c].pc \in {"pausing", "waiting"}

\* The call took the members and has not put them back; a call that was cut
\* short never will.
Owns(c) == barrier[c].size = 3 /\ (Active(c) \/ call[c].pc = "lost")

Unreleased(c) == Owns(c) /\ barrier[c].arrived < 3

\* The call's command is in the member's queue.
HasCommand(m, c) == MemberState(m).queue # <<>> /\ MemberState(m).queue[1].at = c

\* The mutex is held by the call under way; the barrier of a call was made for
\* the members it took; whoever has the members has them alone.
CallsSerialised ==
  /\ group.watcher = group.identity
  /\ \A c \in Callers :
       /\ Active(c) <=> group.lock = {c}
       /\ call[c].pc \in {"idle", "lock"} => barrier[c].size = 0 /\ barrier[c].arrived = 0
       /\ Active(c) => \/ call[c].taken = Members /\ barrier[c].size = 3
                       \/ call[c].taken = {} /\ barrier[c].size = 1
       /\ Active(c) /\ call[c].taken = {} => group.members = {} /\ call[c].todo = {}
       /\ Owns(c) => group.members = {}
       /\ \A d \in Callers : Owns(c) /\ Owns(d) => c = d
  /\ group.members = {} => \E c \in Callers : Owns(c)

\* A member that runs waits for nobody; its command is that of the call that
\* has the members, which waits for it.
MemberSound(m) ==
  LET s == MemberState(m)
  IN /\ s.pc = "run" => s.at = {}
     /\ \A c \in Callers : Took(m, c) => barrier[c].size = 3
     /\ Len(s.queue) <= 1
     /\ \A c \in Callers : HasCommand(m, c) =>
          Unreleased(c) /\ ~Took(m, c) /\ (call[c].pc = "pausing" => m \notin call[c].todo)
     /\ \A c \in Callers :
          call[c].pc = "pausing" /\ m \in call[c].todo => ~Took(m, c)

Arrived(m, c) == IF Took(m, c) THEN 1 ELSE 0

\* Nobody is counted twice at a barrier, and the caller is the last to come.
BarrierCounts ==
  \A c \in Callers :
    /\ Unreleased(c) => \A m, n \in Members : m # n =>
         barrier[c].arrived <= (IF call[c].pc = "pausing" THEN 0 ELSE 1) + Arrived(m, c) + Arrived(n, c)
    /\ call[c].pc = "pausing" /\ Owns(c) => Unreleased(c)

\* The identity that m has, or will have, from call c.
Assigned(m, c, id) ==
  \/ Took(m, c) /\ MemberState(m).identity = id
  \/ HasCommand(m, c) /\ MemberState(m).queue[1].identity = id

\* A call assigns one identity.
OneAssigned ==
  \A c \in Callers : Unreleased(c) =>
    \A m \in Members, id \in Identities : Assigned(m, c, id) =>
      /\ Active(c) => id = call[c].identity
      /\ \A n \in Members, other \in Identities : Assigned(n, c, other) => id = other

\* The members are under one identity but while a change is under way.
MembersAgree ==
  \/ \A m, n \in Members : MemberState(m).identity = MemberState(n).identity
  \/ \E c \in Callers, m \in Members : Unreleased(c) /\ Took(m, c)

\* A member has the identity of the group until it takes the new one.
GroupAgrees ==
  \A m \in Members :
    LET id == MemberState(m).identity
    IN /\ (\A c \in Callers : ~Owns(c)) => id = group.identity
       /\ \A c \in Callers : Owns(c) /\ Active(c) =>
            IF Unreleased(c) THEN Took(m, c) \/ id = group.identity
                             ELSE id = call[c].identity

IdentityInv ==
  /\ IdentityTypes /\ CallsSerialised /\ (\A m \in Members : MemberSound(m))
  /\ BarrierCounts /\ OneAssigned /\ MembersAgree /\ GroupAgrees

-----------------------------------------------------------------------------
LEMMA MemberTypes ==
  ASSUME IdentityTypes, NEW m \in Members
  PROVE  /\ MemberState(m) \in Member
         /\ MemberState(m).identity \in Identities /\ MemberState(m).at \in Holder
         /\ MemberState(m).queue \in Seq(Command)
         /\ MemberState(m).queue # <<>> =>
              /\ MemberState(m).queue[1] \in Command
              /\ MemberState(m).queue[1].at \in Callers /\ MemberState(m).queue[1].identity \in Identities
              /\ Head(MemberState(m).queue) = MemberState(m).queue[1]
              /\ Tail(MemberState(m).queue) \in Seq(Command)
              /\ Len(MemberState(m).queue) <= 1 => Tail(MemberState(m).queue) = <<>>
<1>1. MemberState(m) \in Member
  BY DEF IdentityTypes, MemberState
<1>2. PICK q : q = MemberState(m).queue
  OBVIOUS
<1>3. q \in Seq(Command)
  BY <1>1, <1>2 DEF Member
<1>4. ASSUME q # <<>>
      PROVE  /\ q[1] \in Command /\ Head(q) = q[1] /\ Tail(q) \in Seq(Command)
             /\ Len(q) <= 1 => Tail(q) = <<>>
  <2>1. q[1] \in Command /\ Head(q) = q[1] /\ Tail(q) \in Seq(Command) /\ Len(q) \in Nat \ {0}
        /\ Len(Tail(q)) = Len(q) - 1
    BY <1>3, <1>4
  <2>2. Len(q) <= 1 => Len(Tail(q)) = 0
    BY <2>1
  <2>3. QED BY <2>1, <2>2, EmptySeq
<1>5. \A x \in Command : x.at \in Callers /\ x.identity \in Identities
  BY DEF Command
<1>6. MemberState(m).identity \in Identities /\ MemberState(m).at \in Holder
  BY <1>1 DEF Member
<1>7. QED BY <1>1, <1>2, <1>3, <1>4, <1>5, <1>6

LEMMA CallTypes ==
  ASSUME IdentityTypes, NEW c \in Callers
  PROVE  /\ call[c].pc \in {"idle", "lock", "pausing", "waiting", "done", "lost"}
         /\ call[c].identity \in Identities /\ call[c].taken \in {{}, Members}
         /\ call[c].todo \in SUBSET Members
         /\ barrier[c].size \in Nat /\ barrier[c].arrived \in Nat
BY DEF IdentityTypes

LEMMA PairSize ==
  ASSUME NEW x, NEW y, x # y
  PROVE  Cardinality({x, y}) = 2
<1>1. IsFiniteSet({x}) /\ Cardinality({x}) = 1
  BY FS_Singleton
<1>2. {x, y} = {x} \cup {y} /\ y \notin {x}
  OBVIOUS
<1>3. Cardinality({x} \cup {y}) = Cardinality({x}) + 1
  BY <1>1, <1>2, FS_AddElement, Zenon
<1>4. QED BY <1>1, <1>2, <1>3

LEMMA MembersExist == Members # {}
BY DEF Members

LEMMA BarrierSizes == BarrierSize({}) = 1 /\ BarrierSize(Members) = 3
<1>1. Cardinality({}) = 0
  BY FS_EmptySet
<1>2. Cardinality(Members) = 2
  BY PairSize, Zenon DEF Members
<1>3. QED BY <1>1, <1>2 DEF BarrierSize

LEMMA ArrivalTypes ==
  ASSUME IdentityTypes, NEW c \in Callers, Arrives(c)
  PROVE  barrier' \in [Callers -> [size : Nat, arrived : Nat]]
<1>1. barrier[c] \in [size : Nat, arrived : Nat]
  BY DEF IdentityTypes
<1>2. barrier[c].arrived + 1 \in Nat
  BY <1>1
<1>3. [barrier[c] EXCEPT !.arrived = barrier[c].arrived + 1] \in [size : Nat, arrived : Nat]
  BY <1>1, <1>2
<1>4. QED BY <1>3 DEF Arrives, IdentityTypes

\* Nothing moves but that members may end.
Quiet ==
  /\ UNCHANGED <<group, call, barrier>>
  /\ \A m \in Members :
       /\ MemberState(m).identity' = MemberState(m).identity
       /\ MemberState(m).at' = MemberState(m).at
       /\ MemberState(m).pc' \in {MemberState(m).pc, "ended"}
       /\ MemberState(m).queue' \in {MemberState(m).queue, <<>>}

LEMMA QuietKeepsIdentity ==
  ASSUME IdentityInv, Quiet, IdentityTypes'
  PROVE  IdentityInv'
<1>1. \A c \in Callers : /\ (Active(c)' <=> Active(c)) /\ (Owns(c)' <=> Owns(c))
                         /\ (Unreleased(c)' <=> Unreleased(c))
                         /\ \A m \in Members : Took(m, c)' <=> Took(m, c)
  BY DEF Quiet, Active, Owns, Unreleased, Took
<1>2. CallsSerialised'
  BY <1>1 DEF IdentityInv, CallsSerialised, Quiet
<1>3. ASSUME NEW m \in Members PROVE MemberSound(m)'
  <2>1. Len(<<>>) = 0 /\ MemberSound(m)
    BY DEF IdentityInv
  <2>2. MemberState(m).pc' = "run" => MemberState(m).at' = {}
    BY <2>1 DEF Quiet, MemberSound
  <2>3. Len(MemberState(m).queue') <= 1
    BY <2>1 DEF Quiet, MemberSound
  <2>4. \A c \in Callers : HasCommand(m, c)' => HasCommand(m, c)
    BY DEF HasCommand, Quiet
  <2>5. QED BY <1>1, <2>1, <2>2, <2>3, <2>4 DEF MemberSound, Quiet
<1>4. BarrierCounts'
  BY <1>1 DEF IdentityInv, BarrierCounts, Arrived, Quiet
<1>5. \A m \in Members, c \in Callers, id \in Identities : Assigned(m, c, id)' => Assigned(m, c, id)
  BY <1>1 DEF Assigned, HasCommand, Quiet
<1>6. OneAssigned'
  BY <1>1, <1>5 DEF IdentityInv, OneAssigned, Quiet
<1>8. MembersAgree'
  BY <1>1 DEF IdentityInv, MembersAgree, Quiet
<1>9. GroupAgrees'
  BY <1>1 DEF IdentityInv, GroupAgrees, Quiet
<1>10. QED BY <1>2, <1>3, <1>4, <1>6, <1>8, <1>9 DEF IdentityInv

LEMMA OtherMember ==
  ASSUME NEW m \in Members
  PROVE  \E n \in Members : n # m /\ \A k \in Members : k = m \/ k = n
BY DEF Members

LEMMA TakeKeepsIdentity ==
  ASSUME IdentityInv, IdentityTypes', NEW m \in Members, NEW c \in Callers,
         HasCommand(m, c), MemberState(m).pc = "run", UNCHANGED <<group, call>>,
         MemberState(m)' = [identity |-> MemberState(m).queue[1].identity, pc |-> "barrier",
                            at |-> {c}, queue |-> Tail(MemberState(m).queue)],
         \A k \in Members : k # m => MemberState(k)' = MemberState(k),
         barrier' = [barrier EXCEPT ![c].arrived = @ + 1]
  PROVE  IdentityInv'
<1>0. PICK n \in Members : n # m /\ \A k \in Members : k = m \/ k = n
  BY OtherMember
<1>t. IdentityTypes /\ MemberSound(m) /\ MemberSound(n)
  BY <1>0 DEF IdentityInv
<1>1. /\ MemberState(m).queue' = <<>> /\ MemberState(m).at' = {c} /\ MemberState(m).pc' = "barrier"
      /\ MemberState(m).identity' = MemberState(m).queue[1].identity
      /\ MemberState(m).queue[1].identity \in Identities
  BY <1>t, MemberTypes DEF MemberSound, HasCommand
<1>2. Unreleased(c) /\ ~Took(m, c) /\ Owns(c) /\ barrier[c].size = 3 /\ barrier[c].arrived \in Nat
  BY <1>t, CallTypes DEF MemberSound, Unreleased, Owns
<1>3. /\ barrier'[c].arrived = barrier[c].arrived + 1 /\ barrier'[c].size = barrier[c].size
      /\ \A d \in Callers : d # c => barrier'[d] = barrier[d]
  BY <1>t DEF IdentityTypes
<1>4. \A d \in Callers : /\ (Active(d)' <=> Active(d)) /\ (Owns(d)' <=> Owns(d))
                         /\ d # c => (Unreleased(d)' <=> Unreleased(d))
  BY <1>3 DEF Active, Owns, Unreleased
<1>5. Unreleased(c)' <=> barrier[c].arrived + 1 < 3
  BY <1>2, <1>3, <1>4 DEF Unreleased
<1>6. /\ \A d \in Callers : (Took(m, d)' <=> d = c) /\ ~HasCommand(m, d)'
      /\ \A d \in Callers : (Took(n, d)' <=> Took(n, d)) /\ (HasCommand(n, d)' <=> HasCommand(n, d))
      /\ MemberState(n)' = MemberState(n)
  BY <1>0, <1>1 DEF Took, HasCommand
<1>7. \A d \in Callers : Owns(d) => d = c
  BY <1>2 DEF IdentityInv, CallsSerialised
<1>8. \A d \in Callers : Unreleased(d) => d = c
  BY <1>7 DEF Unreleased
<1>9. barrier[c].arrived <= (IF call[c].pc = "pausing" THEN 0 ELSE 1) + Arrived(n, c)
  <2>1. barrier[c].arrived <= (IF call[c].pc = "pausing" THEN 0 ELSE 1) + Arrived(m, c) + Arrived(n, c)
    BY <1>0, <1>2 DEF IdentityInv, BarrierCounts
  <2>2. QED BY <1>2, <2>1 DEF Arrived
<1>10. CallsSerialised'
  BY <1>2, <1>3, <1>4 DEF IdentityInv, CallsSerialised, Active
<1>11. MemberSound(m)'
  <2>1. \A d \in Callers : Took(m, d)' => barrier'[d].size = 3
    BY <1>2, <1>3, <1>6
  <2>2. \A d \in Callers : call'[d].pc = "pausing" /\ m \in call'[d].todo => ~Took(m, d)'
    BY <1>t, <1>6 DEF MemberSound
  <2>3. Len(<<>>) <= 1
    OBVIOUS
  <2>4. QED BY <1>1, <1>6, <2>1, <2>2, <2>3 DEF MemberSound
<1>12. MemberSound(n)'
  <2>1. HasCommand(n, c) => Unreleased(c)'
    BY <1>t, <1>2, <1>5, <1>9 DEF MemberSound, Arrived
  <2>2. \A d \in Callers : HasCommand(n, d) => d = c
    BY <1>t, <1>8 DEF MemberSound
  <2>3. \A d \in Callers : Took(n, d)' => barrier'[d].size = 3
    BY <1>t, <1>2, <1>3, <1>6 DEF MemberSound
  <2>4. QED BY <1>t, <1>6, <2>1, <2>2, <2>3 DEF MemberSound
<1>13. BarrierCounts'
  <2>1. Arrived(m, c)' = 1 /\ Arrived(n, c)' = Arrived(n, c) /\ Arrived(n, c) \in {0, 1}
    BY <1>6 DEF Arrived
  <2>2. barrier'[c].arrived <= (IF call'[c].pc = "pausing" THEN 0 ELSE 1) + Arrived(m, c)' + Arrived(n, c)'
    BY <1>2, <1>3, <1>9, <2>1
  <2>3. \A k, l \in Members : k # l =>
          barrier'[c].arrived <= (IF call'[c].pc = "pausing" THEN 0 ELSE 1) + Arrived(k, c)' + Arrived(l, c)'
    <3>1. Arrived(m, c)' + Arrived(n, c)' = Arrived(n, c)' + Arrived(m, c)'
      BY <2>1
    <3>2. QED BY <1>0, <2>1, <2>2, <3>1
  <2>4. call[c].pc = "pausing" => Unreleased(c)'
    BY <1>2, <1>5, <1>9, <2>1
  <2>5. \A d \in Callers : (Unreleased(d)' \/ Owns(d)') => d = c
    BY <1>4, <1>7, <1>8
  <2>6. QED BY <2>3, <2>4, <2>5 DEF BarrierCounts
<1>14. \A k \in Members, id \in Identities : Assigned(k, c, id)' => Assigned(k, c, id)
  <2>1. \A id \in Identities : Assigned(m, c, id)' => Assigned(m, c, id)
    BY <1>1, <1>6 DEF Assigned
  <2>2. \A id \in Identities : Assigned(n, c, id)' => Assigned(n, c, id)
    BY <1>6 DEF Assigned
  <2>3. QED BY <1>0, <2>1, <2>2
<1>15. OneAssigned'
  BY <1>2, <1>4, <1>8, <1>14 DEF IdentityInv, OneAssigned
<1>16. ASSUME ~Unreleased(c)'
       PROVE  /\ MemberState(m).identity' = MemberState(n).identity'
              /\ Active(c) => /\ MemberState(m).identity' = call[c].identity
                              /\ MemberState(n).identity' = call[c].identity
  <2>1. Took(n, c)
    BY <1>2, <1>5, <1>9, <1>16 DEF Arrived
  <2>2. Assigned(n, c, MemberState(n).identity) /\ MemberState(n).identity \in Identities
    BY <1>t, <2>1, MemberTypes DEF Assigned
  <2>3. Assigned(m, c, MemberState(m).queue[1].identity)
    BY DEF Assigned
  <2>4. QED BY <1>1, <1>2, <1>6, <2>2, <2>3 DEF IdentityInv, OneAssigned
<1>17. MembersAgree'
  <2>1. CASE Unreleased(c)'
    BY <1>6, <2>1 DEF MembersAgree
  <2>2. CASE ~Unreleased(c)'
    BY <1>0, <1>16, <2>2 DEF MembersAgree
  <2>3. QED BY <2>1, <2>2
<1>18. GroupAgrees'
  <2>1. ASSUME NEW k \in Members, Active(c), Unreleased(c)'
        PROVE  Took(k, c)' \/ MemberState(k).identity' = group'.identity
    BY <1>0, <1>2, <1>6, <2>1 DEF IdentityInv, GroupAgrees
  <2>2. ASSUME NEW k \in Members, Active(c), ~Unreleased(c)'
        PROVE  MemberState(k).identity' = call'[c].identity
    BY <1>0, <1>16, <2>2
  <2>3. QED BY <1>2, <1>4, <1>7, <2>1, <2>2 DEF GroupAgrees
<1>19. QED BY <1>0, <1>10, <1>11, <1>12, <1>13, <1>15, <1>17, <1>18 DEF IdentityInv

LEMMA ResumeKeepsIdentity ==
  ASSUME IdentityInv, IdentityTypes', NEW m \in Members,
         Leaves(MemberState(m)), UNCHANGED <<group, call, barrier>>,
         MemberState(m)' = Resumed(MemberState(m)),
         \A k \in Members : k # m => MemberState(k)' = MemberState(k)
  PROVE  IdentityInv'
<1>t. IdentityTypes /\ MemberState(m) \in Member
  BY MemberTypes DEF IdentityInv
<1>1. /\ MemberState(m).queue' = MemberState(m).queue /\ MemberState(m).at' = {}
      /\ MemberState(m).identity' = MemberState(m).identity
  BY <1>t DEF Resumed, Member
<1>2. \A c \in Callers : /\ (Active(c)' <=> Active(c)) /\ (Owns(c)' <=> Owns(c))
                         /\ (Unreleased(c)' <=> Unreleased(c))
  BY DEF Active, Owns, Unreleased
<1>3. /\ \A c \in Callers, k \in Members : (Took(k, c)' => Took(k, c)) /\ (HasCommand(k, c)' <=> HasCommand(k, c))
      /\ \A k \in Members : MemberState(k).identity' = MemberState(k).identity
      /\ \A c \in Callers, k \in Members : k # m => (Took(k, c)' <=> Took(k, c))
  BY <1>1 DEF Took, HasCommand
<1>4. \A c \in Callers : Took(m, c) => ~Unreleased(c)
  <2>1. ASSUME NEW c \in Callers, Took(m, c) PROVE ~Unreleased(c)
    <3>1. Released(c)
      BY <2>1 DEF Leaves, Took
    <3>2. barrier[c].size = 3 /\ barrier[c].arrived \in Nat
      BY <1>t, <2>1, CallTypes DEF IdentityInv, MemberSound
    <3>3. QED BY <3>1, <3>2 DEF Released, Unreleased
  <2>2. QED BY <2>1
<1>5. \A c \in Callers, k \in Members : Unreleased(c) => (Took(k, c)' <=> Took(k, c))
  BY <1>3, <1>4
<1>6. CallsSerialised'
  BY <1>2 DEF IdentityInv, CallsSerialised, Active
<1>7. ASSUME NEW k \in Members PROVE MemberSound(k)'
  <2>1. MemberSound(k)
    BY DEF IdentityInv
  <2>2. CASE k = m
    BY <1>1, <1>2, <1>3, <2>1, <2>2 DEF MemberSound
  <2>3. CASE k # m
    BY <1>2, <1>3, <2>1, <2>3 DEF MemberSound
  <2>4. QED BY <2>2, <2>3
<1>8. BarrierCounts'
  BY <1>2, <1>5 DEF IdentityInv, BarrierCounts, Arrived
<1>9. \A c \in Callers, k \in Members, id \in Identities : Assigned(k, c, id)' => Assigned(k, c, id)
  <2>1. \A k \in Members : MemberState(k).queue' = MemberState(k).queue
    BY <1>1
  <2>2. QED BY <1>3, <2>1 DEF Assigned
<1>10. OneAssigned'
  BY <1>2, <1>9 DEF IdentityInv, OneAssigned
<1>11. MembersAgree'
  BY <1>2, <1>3, <1>5 DEF IdentityInv, MembersAgree
<1>12. GroupAgrees'
  BY <1>2, <1>3, <1>5 DEF IdentityInv, GroupAgrees
<1>13. QED BY <1>6, <1>7, <1>8, <1>10, <1>11, <1>12 DEF IdentityInv

LEMMA CallKeepsIdentity ==
  ASSUME IdentityInv, IdentityTypes', NEW c \in Callers, call[c].pc = "idle",
         \A d \in Callers : d # c => call'[d] = call[d], call'[c].pc \in {"lock", "done"},
         UNCHANGED <<group, barrier, gateway, listener>>
  PROVE  IdentityInv'
<1>1. ~Active(c) /\ ~Active(c)' /\ barrier[c].size = 0 /\ barrier[c].arrived = 0
  BY DEF IdentityInv, CallsSerialised, Active
<1>2. /\ \A d \in Callers : /\ (Active(d)' <=> Active(d)) /\ (Owns(d)' <=> Owns(d))
                            /\ (Unreleased(d)' <=> Unreleased(d))
      /\ ~Owns(c) /\ ~Unreleased(c)
  BY <1>1 DEF Active, Owns, Unreleased
<1>3. /\ \A d \in Callers, m \in Members : (Took(m, d)' <=> Took(m, d)) /\ (HasCommand(m, d)' <=> HasCommand(m, d))
      /\ \A m \in Members : MemberState(m)' = MemberState(m)
  BY DEF Took, HasCommand, MemberState
<1>4. CallsSerialised'
  BY <1>1, <1>2 DEF IdentityInv, CallsSerialised
<1>5. ASSUME NEW m \in Members PROVE MemberSound(m)'
  BY <1>1, <1>2, <1>3 DEF IdentityInv, MemberSound
<1>6. BarrierCounts'
  BY <1>1, <1>2, <1>3 DEF IdentityInv, BarrierCounts, Arrived
<1>7. \A d \in Callers, m \in Members, id \in Identities : Assigned(m, d, id)' => Assigned(m, d, id)
  BY <1>3 DEF Assigned
<1>8. OneAssigned'
  BY <1>2, <1>7 DEF IdentityInv, OneAssigned
<1>9. MembersAgree' /\ GroupAgrees'
  BY <1>2, <1>3 DEF IdentityInv, MembersAgree, GroupAgrees
<1>10. QED BY <1>4, <1>5, <1>6, <1>8, <1>9 DEF IdentityInv

LEMMA AcquireKeepsIdentity ==
  ASSUME IdentityInv, IdentityTypes', NEW c \in Callers, Acquire(c)
  PROVE  IdentityInv'
<1>t. IdentityTypes
  BY DEF IdentityInv
<1>1. /\ call[c].pc = "lock" /\ barrier[c].size = 0 /\ barrier[c].arrived = 0 /\ group.lock = {}
      /\ \A d \in Callers : ~Active(d)
  BY DEF IdentityInv, CallsSerialised, Acquire, Active
<1>2. /\ \A d \in Callers : d # c => call'[d] = call[d] /\ barrier'[d] = barrier[d]
      /\ call'[c].pc = "pausing" /\ call'[c].taken = group.members /\ call'[c].todo = group.members
      /\ call'[c].identity = call[c].identity
      /\ barrier'[c].size = BarrierSize(group.members) /\ barrier'[c].arrived = barrier[c].arrived
      /\ group'.lock = {c} /\ group'.members = {} /\ group'.identity = group.identity
      /\ group'.watcher = group.watcher
  BY <1>t DEF Acquire, IdentityTypes
<1>3. /\ group.members \in {{}, Members}
      /\ group.members = {} => barrier'[c].size = 1
      /\ group.members = Members => barrier'[c].size = 3
  BY <1>t, <1>2, BarrierSizes DEF IdentityTypes
<1>4. /\ \A d \in Callers : (Active(d)' <=> d = c)
      /\ \A d \in Callers : d # c => (Owns(d)' <=> Owns(d)) /\ (Unreleased(d)' <=> Unreleased(d))
      /\ ~Owns(c) /\ ~Unreleased(c)
      /\ Owns(c)' <=> group.members = Members
      /\ Unreleased(c)' <=> group.members = Members
  <2>1. /\ \A d \in Callers : (Active(d)' <=> d = c)
        /\ \A d \in Callers : d # c => (Owns(d)' <=> Owns(d)) /\ (Unreleased(d)' <=> Unreleased(d))
        /\ ~Owns(c) /\ ~Unreleased(c)
    BY <1>1, <1>2 DEF Active, Owns, Unreleased
  <2>2. Owns(c)' <=> barrier'[c].size = 3
    BY <1>2 DEF Active, Owns
  <2>3. Unreleased(c)' <=> Owns(c)'
    BY <1>1, <1>2 DEF Unreleased
  <2>4. barrier'[c].size = 3 <=> group.members = Members
    <3>1. Members # {}
      BY MembersExist
    <3>2. QED BY <1>3, <3>1
  <2>5. QED BY <2>1, <2>2, <2>3, <2>4
<1>5. /\ \A d \in Callers, m \in Members : (Took(m, d)' <=> Took(m, d)) /\ (HasCommand(m, d)' <=> HasCommand(m, d))
      /\ \A m \in Members : MemberState(m)' = MemberState(m)
  BY DEF Acquire, callFrame, Took, HasCommand, MemberState
<1>6. \A m \in Members : ~Took(m, c) /\ ~HasCommand(m, c)
  BY <1>1, <1>4 DEF IdentityInv, MemberSound
<1>7. group.members = Members => \A d \in Callers : ~Owns(d) /\ ~Unreleased(d)
  BY MembersExist DEF IdentityInv, CallsSerialised, Unreleased
<1>8. CallsSerialised'
  <2>1. group'.watcher = group'.identity
    BY <1>2 DEF IdentityInv, CallsSerialised
  <2>2. ASSUME NEW d \in Callers
        PROVE  /\ Active(d)' <=> group'.lock = {d}
               /\ call'[d].pc \in {"idle", "lock"} => barrier'[d].size = 0 /\ barrier'[d].arrived = 0
               /\ Active(d)' => \/ call'[d].taken = Members /\ barrier'[d].size = 3
                                \/ call'[d].taken = {} /\ barrier'[d].size = 1
               /\ Active(d)' /\ call'[d].taken = {} => group'.members = {} /\ call'[d].todo = {}
               /\ Owns(d)' => group'.members = {}
    BY <1>2, <1>3, <1>4 DEF IdentityInv, CallsSerialised
  <2>3. \A d, e \in Callers : Owns(d)' /\ Owns(e)' => d = e
    BY <1>4, <1>7 DEF IdentityInv, CallsSerialised
  <2>4. \E d \in Callers : Owns(d)'
    BY <1>3, <1>4 DEF IdentityInv, CallsSerialised
  <2>5. QED BY <2>1, <2>2, <2>3, <2>4 DEF CallsSerialised
<1>9. ASSUME NEW m \in Members PROVE MemberSound(m)'
  <2>1. \A d \in Callers : Took(m, d)' => barrier'[d].size = 3
    BY <1>2, <1>5, <1>6 DEF IdentityInv, MemberSound
  <2>2. \A d \in Callers : HasCommand(m, d)' =>
          Unreleased(d)' /\ ~Took(m, d)' /\ (call'[d].pc = "pausing" => m \notin call'[d].todo)
    BY <1>2, <1>4, <1>5, <1>6 DEF IdentityInv, MemberSound
  <2>3. \A d \in Callers : call'[d].pc = "pausing" /\ m \in call'[d].todo => ~Took(m, d)'
    BY <1>2, <1>5, <1>6 DEF IdentityInv, MemberSound
  <2>4. QED BY <1>5, <2>1, <2>2, <2>3 DEF IdentityInv, MemberSound
<1>10. BarrierCounts'
  <2>1. ASSUME NEW d \in Callers, Unreleased(d)', NEW m \in Members, NEW n \in Members, m # n
        PROVE  barrier'[d].arrived <= (IF call'[d].pc = "pausing" THEN 0 ELSE 1) + Arrived(m, d)' + Arrived(n, d)'
    <3>1. CASE d = c
      BY <1>1, <1>2, <3>1 DEF Arrived
    <3>2. CASE d # c
      BY <1>2, <1>4, <1>5, <2>1, <3>2 DEF IdentityInv, BarrierCounts, Arrived
    <3>3. QED BY <3>1, <3>2
  <2>2. \A d \in Callers : call'[d].pc = "pausing" /\ Owns(d)' => Unreleased(d)'
    BY <1>2, <1>4 DEF IdentityInv, BarrierCounts
  <2>3. QED BY <2>1, <2>2 DEF BarrierCounts
<1>11. \A d \in Callers, m \in Members, id \in Identities : Assigned(m, d, id)' => Assigned(m, d, id) /\ d # c
  BY <1>5, <1>6 DEF Assigned
<1>12. OneAssigned'
  BY <1>1, <1>4, <1>11 DEF IdentityInv, OneAssigned
<1>13. MembersAgree'
  BY <1>4, <1>5, <1>6 DEF IdentityInv, MembersAgree
<1>14. GroupAgrees'
  BY <1>2, <1>3, <1>4, <1>5, <1>7 DEF IdentityInv, GroupAgrees
<1>15. QED BY <1>8, <1>9, <1>10, <1>12, <1>13, <1>14 DEF IdentityInv

LEMMA LossKeepsIdentity ==
  ASSUME IdentityInv, IdentityTypes', NEW c \in Callers, call[c].pc \in {"lock", "pausing", "waiting"},
         CallLost(c), UNCHANGED <<barrier, gateway, listener>>
  PROVE  IdentityInv'
<1>t. IdentityTypes
  BY DEF IdentityInv
<1>1. /\ \A d \in Callers : d # c => call'[d] = call[d]
      /\ call'[c].pc = "lost" /\ call'[c].taken = {} /\ call'[c].todo = {}
      /\ group'.lock = group.lock \ {c} /\ group'.members = group.members
      /\ group'.identity = group.identity /\ group'.watcher = group.watcher
  BY <1>t DEF CallLost, Frame, IdentityTypes
<1>2. Active(c) \/ (barrier[c].size = 0 /\ barrier[c].arrived = 0)
  BY DEF IdentityInv, CallsSerialised, Active
<1>3. /\ \A d \in Callers : /\ (Active(d)' <=> Active(d) /\ d # c) /\ (Owns(d)' <=> Owns(d))
                            /\ (Unreleased(d)' <=> Unreleased(d))
  BY <1>1, <1>2 DEF Active, Owns, Unreleased
<1>4. /\ \A d \in Callers, m \in Members : (Took(m, d)' <=> Took(m, d)) /\ (HasCommand(m, d)' <=> HasCommand(m, d))
      /\ \A m \in Members : MemberState(m)' = MemberState(m)
  BY DEF Took, HasCommand, MemberState
<1>5. CallsSerialised'
  <2>1. ASSUME NEW d \in Callers PROVE Active(d)' <=> group'.lock = {d}
    <3>1. group.lock \in Holder /\ (Active(d) <=> group.lock = {d}) /\ (Active(c) <=> group.lock = {c})
      BY <1>t DEF IdentityTypes, IdentityInv, CallsSerialised
    <3>2. group.lock = {} \/ \E e \in Callers : group.lock = {e}
      BY <3>1 DEF Holder
    <3>3. QED BY <1>1, <1>3, <3>1, <3>2
  <2>2. QED BY <1>1, <1>3, <2>1 DEF IdentityInv, CallsSerialised
<1>6. ASSUME NEW m \in Members PROVE MemberSound(m)'
  BY <1>1, <1>3, <1>4 DEF IdentityInv, MemberSound
<1>7. BarrierCounts'
  <2>1. ASSUME NEW d \in Callers, Unreleased(d), NEW m \in Members, NEW n \in Members, m # n
        PROVE  barrier'[d].arrived <= (IF call'[d].pc = "pausing" THEN 0 ELSE 1) + Arrived(m, d)' + Arrived(n, d)'
    <3>1. barrier[d].arrived <= (IF call[d].pc = "pausing" THEN 0 ELSE 1) + Arrived(m, d) + Arrived(n, d)
      BY <2>1 DEF IdentityInv, BarrierCounts
    <3>2. barrier[d].arrived \in Nat /\ Arrived(m, d)' = Arrived(m, d) /\ Arrived(n, d)' = Arrived(n, d)
          /\ Arrived(m, d) \in Nat /\ Arrived(n, d) \in Nat
      BY <1>t, <1>4, CallTypes DEF Arrived
    <3>3. QED BY <1>1, <3>1, <3>2
  <2>2. \A d \in Callers : call'[d].pc = "pausing" /\ Owns(d)' => Unreleased(d)'
    BY <1>1, <1>3 DEF IdentityInv, BarrierCounts
  <2>3. QED BY <1>3, <2>1, <2>2 DEF BarrierCounts
<1>8. \A d \in Callers, m \in Members, id \in Identities : Assigned(m, d, id)' => Assigned(m, d, id)
  BY <1>4 DEF Assigned
<1>9. OneAssigned'
  BY <1>1, <1>3, <1>8 DEF IdentityInv, OneAssigned
<1>10. MembersAgree' /\ GroupAgrees'
  BY <1>1, <1>3, <1>4 DEF IdentityInv, MembersAgree, GroupAgrees
<1>11. QED BY <1>5, <1>6, <1>7, <1>9, <1>10 DEF IdentityInv

LEMMA PauseKeepsIdentity ==
  ASSUME IdentityInv, IdentityTypes', NEW c \in Callers, NEW m \in Members,
         call[c].pc = "pausing", m \in call[c].todo,
         call' = [call EXCEPT ![c].todo = @ \ {m}],
         MemberState(m)' = Received(MemberState(m), c),
         \A k \in Members : k # m => MemberState(k)' = MemberState(k),
         UNCHANGED <<group, barrier>>
  PROVE  IdentityInv'
<1>t. IdentityTypes /\ MemberState(m) \in Member /\ MemberState(m).queue \in Seq(Command)
  BY MemberTypes DEF IdentityInv
<1>1. /\ \A d \in Callers : d # c => call'[d] = call[d]
      /\ call'[c].pc = "pausing" /\ call'[c].taken = call[c].taken /\ call'[c].todo = call[c].todo \ {m}
      /\ call'[c].identity = call[c].identity
  BY <1>t DEF IdentityTypes
<1>2. \A d \in Callers : /\ (Active(d)' <=> Active(d)) /\ (Owns(d)' <=> Owns(d))
                         /\ (Unreleased(d)' <=> Unreleased(d))
  BY <1>1 DEF Active, Owns, Unreleased
<1>3. Active(c) /\ Owns(c) /\ Unreleased(c)
  <2>1. Active(c)
    BY DEF Active
  <2>2. Owns(c)
    BY <2>1 DEF IdentityInv, CallsSerialised, Owns
  <2>3. QED BY <2>1, <2>2 DEF IdentityInv, BarrierCounts
<1>4. \A d \in Callers : Owns(d) \/ Unreleased(d) => d = c
  BY <1>3 DEF IdentityInv, CallsSerialised, Unreleased
<1>5. MemberSound(m) /\ ~Took(m, c)
  BY DEF IdentityInv, MemberSound
<1>6. MemberState(m).queue = <<>>
  <2>1. ASSUME MemberState(m).queue # <<>> PROVE FALSE
    <3>1. PICK d \in Callers : HasCommand(m, d)
      BY <1>t, <2>1, MemberTypes DEF HasCommand
    <3>2. QED BY <1>4, <1>5, <3>1 DEF MemberSound
  <2>2. QED BY <2>1
<1>7. PICK command : command = [identity |-> call[c].identity, at |-> c]
  OBVIOUS
<1>8. /\ MemberState(m).queue' = <<command>>
      /\ MemberState(m).at' = MemberState(m).at /\ MemberState(m).pc' = MemberState(m).pc
      /\ MemberState(m).identity' = MemberState(m).identity
  <2>1. Append(<<>>, command) = <<command>>
    OBVIOUS
  <2>2. QED BY <1>t, <1>6, <1>7, <2>1 DEF Received, Member
<1>9. /\ \A d \in Callers, k \in Members : Took(k, d)' <=> Took(k, d)
      /\ \A d \in Callers : HasCommand(m, d)' <=> d = c
      /\ \A d \in Callers, k \in Members : k # m => (HasCommand(k, d)' <=> HasCommand(k, d))
      /\ \A k \in Members : MemberState(k).identity' = MemberState(k).identity
  BY <1>7, <1>8 DEF Took, HasCommand
<1>10. CallsSerialised'
  BY <1>1, <1>2, <1>3 DEF IdentityInv, CallsSerialised
<1>11. MemberSound(m)'
  <2>1. Len(<<command>>) <= 1
    OBVIOUS
  <2>2. \A d \in Callers : HasCommand(m, d)' =>
          Unreleased(d)' /\ ~Took(m, d)' /\ (call'[d].pc = "pausing" => m \notin call'[d].todo)
    BY <1>1, <1>2, <1>3, <1>5, <1>9
  <2>3. \A d \in Callers : call'[d].pc = "pausing" /\ m \in call'[d].todo => ~Took(m, d)'
    BY <1>1, <1>5, <1>9 DEF MemberSound
  <2>4. QED BY <1>5, <1>8, <1>9, <2>1, <2>2, <2>3 DEF MemberSound
<1>12. ASSUME NEW k \in Members, k # m PROVE MemberSound(k)'
  BY <1>1, <1>2, <1>9, <1>12 DEF IdentityInv, MemberSound
<1>13. BarrierCounts'
  BY <1>1, <1>2, <1>9 DEF IdentityInv, BarrierCounts, Arrived
<1>14. OneAssigned'
  <2>1. \A k \in Members, id \in Identities : Assigned(k, c, id)' => id = call[c].identity
    <3>1. ASSUME NEW k \in Members, NEW id \in Identities, Assigned(k, c, id)' PROVE id = call[c].identity
      <4>1. CASE k = m
        BY <1>5, <1>7, <1>8, <1>9, <3>1, <4>1 DEF Assigned
      <4>2. CASE k # m
        <5>1. Assigned(k, c, id)
          BY <1>9, <3>1, <4>2 DEF Assigned
        <5>2. QED BY <1>3, <5>1 DEF IdentityInv, OneAssigned
      <4>3. QED BY <4>1, <4>2
    <3>2. QED BY <3>1
  <2>2. QED BY <1>1, <1>2, <1>4, <2>1 DEF OneAssigned
<1>15. MembersAgree' /\ GroupAgrees'
  BY <1>1, <1>2, <1>9 DEF IdentityInv, MembersAgree, GroupAgrees
<1>16. QED BY <1>10, <1>11, <1>12, <1>13, <1>14, <1>15 DEF IdentityInv

LEMMA CallerWaitsKeepsIdentity ==
  ASSUME IdentityInv, IdentityTypes', NEW c \in Callers, CallerWaits(c)
  PROVE  IdentityInv'
<1>t. IdentityTypes
  BY DEF IdentityInv
<1>1. /\ call[c].pc = "pausing" /\ call[c].todo = {} /\ UNCHANGED group
      /\ \A d \in Callers : d # c => call'[d] = call[d] /\ barrier'[d] = barrier[d]
      /\ call'[c].pc = "waiting" /\ call'[c].taken = call[c].taken /\ call'[c].todo = call[c].todo
      /\ call'[c].identity = call[c].identity
      /\ barrier'[c].size = barrier[c].size /\ barrier'[c].arrived = barrier[c].arrived + 1
      /\ barrier[c].arrived \in Nat
  BY <1>t DEF CallerWaits, Arrives, IdentityTypes
<1>2. /\ \A d \in Callers : (Active(d)' <=> Active(d)) /\ (Owns(d)' <=> Owns(d))
      /\ \A d \in Callers : d # c => (Unreleased(d)' <=> Unreleased(d))
      /\ Unreleased(c)' <=> Owns(c) /\ barrier[c].arrived + 1 < 3
      /\ Active(c)
  BY <1>1 DEF Active, Owns, Unreleased
<1>3. /\ \A d \in Callers, m \in Members : (Took(m, d)' <=> Took(m, d)) /\ (HasCommand(m, d)' <=> HasCommand(m, d))
      /\ \A m \in Members : MemberState(m)' = MemberState(m)
  BY DEF CallerWaits, callFrame, Took, HasCommand, MemberState
<1>4. \A d \in Callers : Owns(c) /\ Unreleased(d) => d = c
  BY DEF IdentityInv, CallsSerialised, Unreleased
<1>5. Owns(c) => Unreleased(c)
  BY <1>1 DEF IdentityInv, BarrierCounts
<1>6. ASSUME Owns(c), NEW m \in Members, NEW n \in Members, m # n
      PROVE  barrier[c].arrived <= Arrived(m, c) + Arrived(n, c)
  <2>1. barrier[c].arrived <= (IF call[c].pc = "pausing" THEN 0 ELSE 1) + Arrived(m, c) + Arrived(n, c)
    BY <1>5, <1>6 DEF IdentityInv, BarrierCounts
  <2>2. QED BY <1>1, <2>1 DEF Arrived
<1>7. ASSUME Owns(c), ~Unreleased(c)', NEW m \in Members PROVE Took(m, c)
  <2>1. PICK n \in Members : n # m
    BY OtherMember
  <2>2. barrier[c].arrived >= 2
    BY <1>1, <1>2, <1>7
  <2>3. QED BY <1>1, <1>6, <1>7, <2>1, <2>2 DEF Arrived
<1>8. CallsSerialised'
  BY <1>1, <1>2 DEF IdentityInv, CallsSerialised
<1>9. ASSUME NEW m \in Members PROVE MemberSound(m)'
  <2>1. \A d \in Callers : HasCommand(m, d) => Unreleased(d)'
    BY <1>2, <1>5, <1>7 DEF IdentityInv, MemberSound, Unreleased
  <2>2. \A d \in Callers : Took(m, d)' => barrier'[d].size = 3
    BY <1>1, <1>3 DEF IdentityInv, MemberSound
  <2>3. QED BY <1>1, <1>3, <2>1, <2>2 DEF IdentityInv, MemberSound
<1>10. BarrierCounts'
  <2>1. ASSUME NEW d \in Callers, Unreleased(d)', NEW m \in Members, NEW n \in Members, m # n
        PROVE  barrier'[d].arrived <= (IF call'[d].pc = "pausing" THEN 0 ELSE 1) + Arrived(m, d)' + Arrived(n, d)'
    <3>0. /\ Arrived(m, d)' = Arrived(m, d) /\ Arrived(n, d)' = Arrived(n, d)
          /\ Arrived(m, d) \in Nat /\ Arrived(n, d) \in Nat
      BY <1>3 DEF Arrived
    <3>1. CASE d = c
      <4>1. barrier[c].arrived <= Arrived(m, c) + Arrived(n, c)
        BY <1>2, <1>6, <2>1, <3>1
      <4>2. QED BY <1>1, <3>0, <3>1, <4>1
    <3>2. CASE d # c
      BY <1>1, <1>2, <2>1, <3>0, <3>2 DEF IdentityInv, BarrierCounts
    <3>3. QED BY <3>1, <3>2
  <2>2. \A d \in Callers : call'[d].pc = "pausing" /\ Owns(d)' => Unreleased(d)'
    BY <1>1, <1>2 DEF IdentityInv, BarrierCounts
  <2>3. QED BY <2>1, <2>2 DEF BarrierCounts
<1>11. \A d \in Callers, m \in Members, id \in Identities : Assigned(m, d, id)' => Assigned(m, d, id)
  BY <1>3 DEF Assigned
<1>12. OneAssigned'
  BY <1>1, <1>2, <1>5, <1>11 DEF IdentityInv, OneAssigned
<1>13. ASSUME Owns(c), ~Unreleased(c)', NEW m \in Members
       PROVE  MemberState(m).identity = call[c].identity
  <2>1. Assigned(m, c, MemberState(m).identity) /\ MemberState(m).identity \in Identities
    BY <1>t, <1>7, <1>13, MemberTypes DEF Assigned
  <2>2. QED BY <1>2, <1>5, <1>13, <2>1 DEF IdentityInv, OneAssigned
<1>14. MembersAgree'
  <2>1. CASE Owns(c) /\ ~Unreleased(c)'
    BY <1>3, <1>13, <2>1 DEF MembersAgree
  <2>2. CASE ~(Owns(c) /\ ~Unreleased(c)')
    <3>1. \A d \in Callers : Unreleased(d) => Unreleased(d)'
      BY <1>2, <2>2 DEF Unreleased
    <3>2. QED BY <1>3, <3>1 DEF IdentityInv, MembersAgree
  <2>3. QED BY <2>1, <2>2
<1>15. GroupAgrees'
  <2>1. ASSUME NEW m \in Members, NEW d \in Callers, Owns(d)', Active(d)'
        PROVE  IF Unreleased(d)' THEN Took(m, d)' \/ MemberState(m).identity' = group'.identity
                                 ELSE MemberState(m).identity' = call'[d].identity
    <3>1. CASE d = c
      BY <1>1, <1>2, <1>3, <1>5, <1>13, <2>1, <3>1 DEF IdentityInv, GroupAgrees
    <3>2. CASE d # c
      BY <1>1, <1>2, <1>3, <2>1, <3>2 DEF IdentityInv, GroupAgrees
    <3>3. QED BY <3>1, <3>2
  <2>2. ASSUME NEW m \in Members, \A d \in Callers : ~Owns(d)' PROVE MemberState(m).identity' = group'.identity
    BY <1>1, <1>2, <1>3, <2>2 DEF IdentityInv, GroupAgrees
  <2>3. QED BY <2>1, <2>2 DEF GroupAgrees
<1>16. QED BY <1>8, <1>9, <1>10, <1>12, <1>14, <1>15 DEF IdentityInv

LEMMA ReturnKeepsIdentity ==
  ASSUME IdentityInv, IdentityTypes', NEW c \in Callers, CallReturns(c)
  PROVE  IdentityInv'
<1>t. IdentityTypes
  BY DEF IdentityInv
<1>1. /\ call[c].pc = "waiting" /\ Released(c) /\ UNCHANGED barrier
      /\ \A d \in Callers : d # c => call'[d] = call[d]
      /\ call'[c].pc = "done"
      /\ group'.lock = {} /\ group'.members = call[c].taken
      /\ group'.identity = call[c].identity /\ group'.watcher = call[c].identity
  BY <1>t DEF CallReturns, Frame, IdentityTypes
<1>2. /\ \A d \in Callers : ~Active(d)' /\ (Owns(d)' <=> Owns(d) /\ d # c)
                            /\ (Unreleased(d)' <=> Unreleased(d) /\ d # c)
      /\ Active(c) /\ group.lock = {c}
  <2>1. Active(c) /\ group.lock = {c}
    BY <1>1 DEF IdentityInv, CallsSerialised, Active
  <2>2. \A d \in Callers : d # c => ~Active(d)
    BY <2>1 DEF IdentityInv, CallsSerialised
  <2>3. QED BY <1>1, <2>1, <2>2 DEF Active, Owns, Unreleased
<1>3. /\ \A d \in Callers, m \in Members : (Took(m, d)' <=> Took(m, d)) /\ (HasCommand(m, d)' <=> HasCommand(m, d))
      /\ \A m \in Members : MemberState(m)' = MemberState(m)
  BY DEF CallReturns, callFrame, Took, HasCommand, MemberState
<1>4. ~Unreleased(c)
  BY <1>t, <1>1, CallTypes DEF Released, Unreleased, Owns
<1>5. \A d \in Callers : Unreleased(d)' <=> Unreleased(d)
  BY <1>2, <1>4
<1>6. CallsSerialised'
  <2>1. CASE Owns(c)
    <3>1. Members # {}
      BY MembersExist
    <3>2. group'.members = Members /\ \A d \in Callers : ~Owns(d)'
      BY <1>1, <1>2, <2>1 DEF IdentityInv, CallsSerialised, Owns
    <3>3. group'.watcher = group'.identity /\ \A d \in Callers : ~Active(d)' /\ group'.lock # {d}
      BY <1>1, <1>2
    <3>4. \A d \in Callers : call'[d].pc \in {"idle", "lock"} => barrier'[d].size = 0 /\ barrier'[d].arrived = 0
      BY <1>1 DEF IdentityInv, CallsSerialised
    <3>5. QED BY <3>1, <3>2, <3>3, <3>4 DEF CallsSerialised
  <2>2. CASE ~Owns(c)
    <3>1. call[c].taken = {} /\ group.members = {}
      BY <1>2, <2>2 DEF IdentityInv, CallsSerialised, Owns
    <3>2. QED BY <1>1, <1>2, <2>2, <3>1 DEF IdentityInv, CallsSerialised
  <2>3. QED BY <2>1, <2>2
<1>7. ASSUME NEW m \in Members PROVE MemberSound(m)'
  BY <1>1, <1>3, <1>5 DEF IdentityInv, MemberSound
<1>8. BarrierCounts'
  BY <1>1, <1>2, <1>3, <1>4, <1>5 DEF IdentityInv, BarrierCounts, Arrived
<1>9. \A d \in Callers, m \in Members, id \in Identities : Assigned(m, d, id)' => Assigned(m, d, id)
  BY <1>3 DEF Assigned
<1>10. OneAssigned'
  BY <1>1, <1>2, <1>5, <1>9 DEF IdentityInv, OneAssigned
<1>11. MembersAgree'
  BY <1>3, <1>5 DEF IdentityInv, MembersAgree
<1>12. GroupAgrees'
  <2>1. CASE Owns(c)
    <3>1. \A m \in Members : MemberState(m).identity = call[c].identity
      BY <1>2, <1>4, <2>1 DEF IdentityInv, GroupAgrees
    <3>2. QED BY <1>1, <1>2, <1>3, <3>1 DEF GroupAgrees
  <2>2. CASE ~Owns(c)
    <3>1. \E d \in Callers : Owns(d)'
      BY <1>2, <2>2 DEF IdentityInv, CallsSerialised, Owns
    <3>2. QED BY <1>2, <3>1 DEF GroupAgrees
  <2>3. QED BY <2>1, <2>2
<1>13. QED BY <1>6, <1>7, <1>8, <1>10, <1>11, <1>12 DEF IdentityInv

\* The members end, the rest of their state stays.
LEMMA EndedMember ==
  ASSUME NEW member \in Member, NEW after, after = [member EXCEPT !.pc = "ended", !.queue = <<>>]
  PROVE  /\ after \in Member /\ after.pc = "ended" /\ after.queue = <<>>
         /\ after.identity = member.identity /\ after.at = member.at
<1>1. <<>> \in Seq(Command)
  OBVIOUS
<1>2. QED BY <1>1 DEF Member

LEMMA QuietSteps ==
  ASSUME IdentityTypes, UNCHANGED <<group, call, barrier>>,
         gateway' \in {gateway, [gateway EXCEPT !.pc = "ended", !.queue = <<>>]},
         listener' \in {listener, [listener EXCEPT !.pc = "ended", !.queue = <<>>]}
  PROVE  Quiet /\ IdentityTypes'
<1>1. /\ gateway' \in Member /\ gateway'.identity = gateway.identity /\ gateway'.at = gateway.at
      /\ gateway'.pc \in {gateway.pc, "ended"} /\ gateway'.queue \in {gateway.queue, <<>>}
  BY EndedMember DEF IdentityTypes
<1>2. /\ listener' \in Member /\ listener'.identity = listener.identity /\ listener'.at = listener.at
      /\ listener'.pc \in {listener.pc, "ended"} /\ listener'.queue \in {listener.queue, <<>>}
  BY EndedMember DEF IdentityTypes
<1>3. QED BY <1>1, <1>2 DEF Quiet, IdentityTypes, MemberState

LEMMA Holders ==
  /\ {} \in Holder /\ \A c \in Callers : {c} \in Holder
  /\ \A h \in Holder, c \in Callers : h \ {c} \in Holder
BY DEF Holder

LEMMA CallStepTypes ==
  ASSUME IdentityTypes, NEW c \in Callers, Initial \in Identities
  PROVE  /\ \A id \in Identities, reset \in BOOLEAN : Call(c, id, reset) => IdentityTypes'
         /\ Acquire(c) => IdentityTypes'
         /\ CallLost(c) /\ UNCHANGED <<barrier, gateway, listener>> => IdentityTypes'
         /\ CallerWaits(c) => IdentityTypes'
         /\ CallReturns(c) => IdentityTypes'
<1>f. \A pc \in {"idle", "lock", "pausing", "waiting", "done", "lost"} :
        Frame(pc) \in [pc : {"idle", "lock", "pausing", "waiting", "done", "lost"},
                       identity : Identities, taken : {{}, Members}, todo : SUBSET Members]
  BY DEF Frame
<1>1. ASSUME NEW id \in Identities, NEW reset \in BOOLEAN, Call(c, id, reset) PROVE IdentityTypes'
  <2>1. \/ call' = [call EXCEPT ![c] = [@ EXCEPT !.pc = "lock", !.identity = id]]
        \/ call' = [call EXCEPT ![c] = Frame("done")]
    BY <1>1 DEF Call
  <2>2. call' \in [Callers -> [pc : {"idle", "lock", "pausing", "waiting", "done", "lost"},
                               identity : Identities, taken : {{}, Members}, todo : SUBSET Members]]
    <3>1. PICK frame : /\ frame \in {[call[c] EXCEPT !.pc = "lock", !.identity = id], Frame("done")}
                       /\ call' = [call EXCEPT ![c] = frame]
      BY <2>1
    <3>2. frame \in [pc : {"idle", "lock", "pausing", "waiting", "done", "lost"},
                     identity : Identities, taken : {{}, Members}, todo : SUBSET Members]
      <4>1. CASE frame = Frame("done")
        BY <1>f, <4>1
      <4>2. CASE frame = [call[c] EXCEPT !.pc = "lock", !.identity = id]
        BY <4>2 DEF IdentityTypes
      <4>3. QED BY <3>1, <4>1, <4>2
    <3>3. QED BY <3>1, <3>2 DEF IdentityTypes
  <2>3. QED BY <1>1, <2>2 DEF IdentityTypes, Call, callFrame
<1>2. ASSUME Acquire(c) PROVE IdentityTypes'
  <2>1. {c} \in Holder /\ BarrierSize(group.members) \in Nat
    <3>1. BarrierSize({}) \in Nat /\ BarrierSize(Members) \in Nat
      BY BarrierSizes
    <3>2. QED BY <3>1, Holders DEF IdentityTypes
  <2>2. call' \in [Callers -> [pc : {"idle", "lock", "pausing", "waiting", "done", "lost"},
                               identity : Identities, taken : {{}, Members}, todo : SUBSET Members]]
    <3>1. call' = [call EXCEPT ![c].pc = "pausing", ![c].taken = group.members, ![c].todo = group.members]
      BY <1>2 DEF Acquire
    <3>2. PICK frame : frame = [call[c] EXCEPT !.pc = "pausing", !.taken = group.members, !.todo = group.members]
      OBVIOUS
    <3>3. call' = [call EXCEPT ![c] = frame]
      BY <3>1, <3>2 DEF IdentityTypes
    <3>4. group.members \in {{}, Members} /\ group.members \in SUBSET Members
      BY DEF IdentityTypes
    <3>5. frame \in [pc : {"idle", "lock", "pausing", "waiting", "done", "lost"},
                     identity : Identities, taken : {{}, Members}, todo : SUBSET Members]
      BY <3>2, <3>4 DEF IdentityTypes
    <3>6. QED BY <3>3, <3>5 DEF IdentityTypes
  <2>3. barrier' \in [Callers -> [size : Nat, arrived : Nat]]
    BY <1>2, <2>1 DEF IdentityTypes, Acquire
  <2>4. group' \in [identity : Identities, watcher : Identities, members : {{}, Members}, lock : Holder]
    BY <1>2, <2>1 DEF IdentityTypes, Acquire
  <2>5. QED BY <1>2, <2>2, <2>3, <2>4 DEF IdentityTypes, Acquire, callFrame
<1>3. ASSUME CallLost(c), UNCHANGED <<barrier, gateway, listener>> PROVE IdentityTypes'
  <2>1. group.lock \ {c} \in Holder
    BY Holders DEF IdentityTypes
  <2>2. QED BY <1>f, <1>3, <2>1 DEF IdentityTypes, CallLost
<1>4. ASSUME CallerWaits(c) PROVE IdentityTypes'
  <2>1. call' = [call EXCEPT ![c].pc = "waiting"] /\ Arrives(c) /\ UNCHANGED <<group, gateway, listener>>
    BY <1>4 DEF CallerWaits, callFrame
  <2>2. call' \in [Callers -> [pc : {"idle", "lock", "pausing", "waiting", "done", "lost"},
                               identity : Identities, taken : {{}, Members}, todo : SUBSET Members]]
    BY <2>1 DEF IdentityTypes
  <2>3. QED BY <2>1, <2>2, ArrivalTypes DEF IdentityTypes
<1>5. ASSUME CallReturns(c) PROVE IdentityTypes'
  <2>1. {} \in Holder /\ call[c].taken \in {{}, Members} /\ call[c].identity \in Identities
    BY Holders, CallTypes
  <2>2. QED BY <1>f, <1>5, <2>1 DEF IdentityTypes, CallReturns, callFrame
<1>6. QED BY <1>1, <1>2, <1>3, <1>4, <1>5

LEMMA PauseTypes ==
  ASSUME IdentityTypes, NEW c \in Callers, NEW m \in Members, PauseMember(c, m)
  PROVE  \/ CallLost(c) /\ UNCHANGED <<barrier, gateway, listener>>
         \/ /\ call' = [call EXCEPT ![c].todo = @ \ {m}]
            /\ MemberState(m)' = Received(MemberState(m), c)
            /\ \A k \in Members : k # m => MemberState(k)' = MemberState(k)
            /\ UNCHANGED <<group, barrier>> /\ IdentityTypes'
<1>1. CASE MemberState(m).pc = "ended"
  BY <1>1 DEF PauseMember, MemberState
<1>2. CASE MemberState(m).pc # "ended"
  <2>1. /\ call' = [call EXCEPT ![c].todo = @ \ {m}] /\ UNCHANGED <<group, barrier>>
        /\ gateway' = (IF m = "quic gateway" THEN Received(gateway, c) ELSE gateway)
        /\ listener' = (IF m = "quic gateway" THEN listener ELSE Received(listener, c))
    BY <1>2 DEF PauseMember, MemberState
  <2>2. /\ MemberState(m)' = Received(MemberState(m), c)
        /\ \A k \in Members : k # m => MemberState(k)' = MemberState(k)
    BY <2>1 DEF MemberState, Members
  <2>3. ASSUME NEW member \in Member PROVE Received(member, c) \in Member
    <3>1. [identity |-> call[c].identity, at |-> c] \in Command
      BY CallTypes DEF Command
    <3>2. member.queue \in Seq(Command)
      BY DEF Member
    <3>3. Append(member.queue, [identity |-> call[c].identity, at |-> c]) \in Seq(Command)
      BY <3>1, <3>2
    <3>4. QED BY <3>3 DEF Received, Member
  <2>4. IdentityTypes'
    BY <2>1, <2>3 DEF IdentityTypes
  <2>5. QED BY <2>1, <2>2, <2>4
<1>3. QED BY <1>1, <1>2

LEMMA TakeTypes ==
  ASSUME IdentityTypes, NEW m \in Members, NEW member, NEW command, member = MemberState(m),
         member.queue # <<>>, command = Head(member.queue), Arrives(command.at)
  PROVE  /\ command \in Command /\ HasCommand(m, command.at)
         /\ [identity |-> command.identity, pc |-> "barrier", at |-> {command.at},
             queue |-> Tail(member.queue)] \in Member
         /\ barrier' \in [Callers -> [size : Nat, arrived : Nat]]
<1>1. /\ command \in Command /\ command.at \in Callers /\ command.identity \in Identities
      /\ command = MemberState(m).queue[1]
      /\ Tail(member.queue) \in Seq(Command)
  BY MemberTypes
<1>2. {command.at} \in Holder
  BY <1>1, Holders
<1>3. barrier' \in [Callers -> [size : Nat, arrived : Nat]]
  BY <1>1, ArrivalTypes
<1>4. QED BY <1>1, <1>2, <1>3 DEF Member, HasCommand

\* A step of the members keeps the invariant.
LEMMA MemberStepsKeepIdentity ==
  ASSUME IdentityInv, GatewayTakes \/ GatewayResumes \/ ListenerTakes \/ ListenerResumes
  PROVE  IdentityInv'
<1>t. IdentityTypes /\ {} \in Holder
  BY Holders DEF IdentityInv
<1>m. /\ "quic gateway" \in Members /\ "jet-gateway listener" \in Members
      /\ MemberState("quic gateway") = gateway /\ MemberState("jet-gateway listener") = listener
      /\ MemberState("quic gateway")' = gateway' /\ MemberState("jet-gateway listener")' = listener'
  BY DEF Members, MemberState
<1>1. CASE GatewayTakes
  <2>1. PICK command : command = Head(gateway.queue)
    OBVIOUS
  <2>2. /\ gateway' = [identity |-> command.identity, pc |-> "barrier", at |-> {command.at},
                       queue |-> Tail(gateway.queue)]
        /\ Arrives(command.at) /\ gateway.pc = "run" /\ gateway.queue # <<>>
        /\ UNCHANGED <<group, call, listener>>
    BY <1>1, <2>1 DEF GatewayTakes
  <2>3. command \in Command /\ HasCommand("quic gateway", command.at) /\ IdentityTypes'
    <3>1. /\ command \in Command /\ HasCommand("quic gateway", command.at)
          /\ gateway' \in Member /\ barrier' \in [Callers -> [size : Nat, arrived : Nat]]
      BY <1>t, <1>m, <2>1, <2>2, TakeTypes
    <3>2. QED BY <1>t, <2>2, <3>1 DEF IdentityTypes
  <2>4. command.at \in Callers /\ command = gateway.queue[1]
    BY <1>t, <1>m, <2>1, <2>2, MemberTypes
  <2>5. \A k \in Members : k # "quic gateway" => MemberState(k)' = MemberState(k)
    BY <2>2 DEF MemberState
  <2>6. QED BY <1>m, <2>2, <2>3, <2>4, <2>5, TakeKeepsIdentity DEF Arrives
<1>2. CASE ListenerTakes
  <2>1. PICK command : command = Head(listener.queue)
    OBVIOUS
  <2>2. /\ listener' = [identity |-> command.identity, pc |-> "barrier", at |-> {command.at},
                        queue |-> Tail(listener.queue)]
        /\ Arrives(command.at) /\ listener.pc = "run" /\ listener.queue # <<>>
        /\ UNCHANGED <<group, call, gateway>>
    BY <1>2, <2>1 DEF ListenerTakes
  <2>3. command \in Command /\ HasCommand("jet-gateway listener", command.at) /\ IdentityTypes'
    <3>1. /\ command \in Command /\ HasCommand("jet-gateway listener", command.at)
          /\ listener' \in Member /\ barrier' \in [Callers -> [size : Nat, arrived : Nat]]
      BY <1>t, <1>m, <2>1, <2>2, TakeTypes
    <3>2. QED BY <1>t, <2>2, <3>1 DEF IdentityTypes
  <2>4. command.at \in Callers /\ command = listener.queue[1]
    BY <1>t, <1>m, <2>1, <2>2, MemberTypes
  <2>5. \A k \in Members : k # "jet-gateway listener" => MemberState(k)' = MemberState(k)
    BY <2>2 DEF MemberState, Members
  <2>6. QED BY <1>m, <2>2, <2>3, <2>4, <2>5, TakeKeepsIdentity DEF Arrives
<1>3. CASE GatewayResumes
  <2>1. /\ gateway' = Resumed(gateway) /\ UNCHANGED <<group, call, barrier, listener>>
        /\ Leaves(gateway)
    BY <1>3 DEF GatewayResumes
  <2>2. IdentityTypes'
    BY <1>t, <2>1 DEF IdentityTypes, Resumed, Member
  <2>3. \A k \in Members : k # "quic gateway" => MemberState(k)' = MemberState(k)
    BY <2>1 DEF MemberState
  <2>4. QED BY <1>m, <2>1, <2>2, <2>3, ResumeKeepsIdentity
<1>4. CASE ListenerResumes
  <2>1. /\ listener' = Resumed(listener) /\ UNCHANGED <<group, call, barrier, gateway>>
        /\ Leaves(listener)
    BY <1>4 DEF ListenerResumes, identityState
  <2>2. IdentityTypes'
    BY <1>t, <2>1 DEF IdentityTypes, Resumed, Member
  <2>3. \A k \in Members : k # "jet-gateway listener" => MemberState(k)' = MemberState(k)
    BY <2>1 DEF MemberState, Members
  <2>4. QED BY <1>m, <2>1, <2>2, <2>3, ResumeKeepsIdentity
<1>5. QED BY <1>1, <1>2, <1>3, <1>4

LEMMA InitIdentityInv ==
  ASSUME Init
  PROVE  IdentityInv
<1>1. /\ group = [identity |-> Initial, watcher |-> Initial, members |-> Members, lock |-> {}]
      /\ call = [c \in Callers |-> Frame("idle")]
      /\ barrier = [c \in Callers |-> [size |-> 0, arrived |-> 0]]
      /\ gateway = [identity |-> Initial, pc |-> "run", at |-> {}, queue |-> <<>>]
      /\ listener = gateway /\ Initial \in Identities
  BY ProcessAssumption DEF Init
<1>2. IdentityTypes
  <2>1. <<>> \in Seq(Command) /\ {} \in Holder
    BY Holders
  <2>2. QED BY <1>1, <2>1 DEF IdentityTypes, Frame, Member
<1>3. \A c \in Callers : /\ ~Active(c) /\ ~Owns(c) /\ ~Unreleased(c) /\ call[c].pc = "idle"
                         /\ barrier[c].size = 0 /\ barrier[c].arrived = 0
  BY <1>1 DEF Active, Owns, Unreleased, Frame
<1>4. \A m \in Members : /\ MemberState(m).at = {} /\ MemberState(m).queue = <<>>
                         /\ MemberState(m).identity = Initial
  BY <1>1 DEF MemberState
<1>5. CallsSerialised
  <2>1. Members # {}
    BY MembersExist
  <2>2. QED BY <1>1, <1>3, <2>1 DEF CallsSerialised
<1>6. \A m \in Members : MemberSound(m)
  <2>1. Len(<<>>) <= 1
    OBVIOUS
  <2>2. QED BY <1>3, <1>4, <2>1 DEF MemberSound, Took, HasCommand
<1>7. BarrierCounts /\ OneAssigned
  BY <1>3 DEF BarrierCounts, OneAssigned
<1>8. MembersAgree /\ GroupAgrees
  BY <1>1, <1>3, <1>4 DEF MembersAgree, GroupAgrees
<1>9. QED BY <1>2, <1>5, <1>6, <1>7, <1>8 DEF IdentityInv

LEMMA NextIdentityInv ==
  ASSUME IdentityInv, [Next]_vars
  PROVE  IdentityInv'
<1>t. IdentityTypes /\ Initial \in Identities
  BY ProcessAssumption DEF IdentityInv
<1>1. ASSUME NEW c \in Callers, NEW id \in Identities, NEW reset \in BOOLEAN, Call(c, id, reset)
      PROVE  IdentityInv'
  <2>1. IdentityTypes'
    BY <1>t, <1>1, CallStepTypes
  <2>2. /\ call[c].pc = "idle" /\ UNCHANGED <<group, barrier, gateway, listener>>
        /\ \A d \in Callers : d # c => call'[d] = call[d]
        /\ call'[c].pc \in {"lock", "done"}
    BY <1>t, <1>1 DEF Call, Frame, callFrame, IdentityTypes
  <2>3. QED BY <2>1, <2>2, CallKeepsIdentity
<1>2. ASSUME NEW c \in Callers, Acquire(c) \/ CallerWaits(c) \/ CallReturns(c) PROVE IdentityInv'
  BY <1>t, <1>2, CallStepTypes, AcquireKeepsIdentity, CallerWaitsKeepsIdentity, ReturnKeepsIdentity
<1>3. ASSUME NEW c \in Callers, CallDropped(c) PROVE IdentityInv'
  <2>1. /\ call[c].pc \in {"lock", "pausing", "waiting"} /\ CallLost(c)
        /\ UNCHANGED <<barrier, gateway, listener>>
    BY <1>3 DEF CallDropped
  <2>2. QED BY <1>t, <2>1, CallStepTypes, LossKeepsIdentity
<1>4. ASSUME NEW c \in Callers, NEW m \in Members, PauseMember(c, m) PROVE IdentityInv'
  <2>0. call[c].pc = "pausing" /\ m \in call[c].todo
    BY <1>4 DEF PauseMember
  <2>1. CASE CallLost(c) /\ UNCHANGED <<barrier, gateway, listener>>
    BY <1>t, <2>0, <2>1, CallStepTypes, LossKeepsIdentity
  <2>2. CASE /\ call' = [call EXCEPT ![c].todo = @ \ {m}]
             /\ MemberState(m)' = Received(MemberState(m), c)
             /\ \A k \in Members : k # m => MemberState(k)' = MemberState(k)
             /\ UNCHANGED <<group, barrier>> /\ IdentityTypes'
    BY <2>0, <2>2, PauseKeepsIdentity
  <2>3. QED BY <1>t, <1>4, <2>1, <2>2, PauseTypes
<1>5. CASE GatewayTakes \/ GatewayResumes \/ ListenerTakes \/ ListenerResumes
  BY <1>5, MemberStepsKeepIdentity
<1>6. ASSUME UNCHANGED <<group, call, barrier>>,
             gateway' \in {gateway, [gateway EXCEPT !.pc = "ended", !.queue = <<>>]},
             listener' \in {listener, [listener EXCEPT !.pc = "ended", !.queue = <<>>]}
      PROVE  IdentityInv'
  BY <1>t, <1>6, QuietSteps, QuietKeepsIdentity
<1>7. CASE UNCHANGED vars
  BY <1>6, <1>7 DEF vars
<1>8. CASE GatewayEnds \/ ListenerCancelled \/ ConnectFails \/ Exits
  BY <1>6, <1>8 DEF GatewayEnds, ListenerCancelled, ConnectFails, Exits, ListenerEnds, identityState, sessionFrame
<1>9. CASE Authenticated \/ Connected \/ CooledDown
  BY <1>6, <1>9 DEF Authenticated, Connected, CooledDown, identityState, sessionFrame
<1>10. ASSUME NEW t \in 1..MaxTxs, Receive(t) \/ Handle(t) \/ JoinTask(t) PROVE IdentityInv'
  BY <1>6, <1>10 DEF Receive, Handle, JoinTask, ListenerEnds, identityState, sessionFrame
<1>11. ASSUME NEW quickly \in BOOLEAN, StreamEnds(quickly) PROVE IdentityInv'
  BY <1>6, <1>11 DEF StreamEnds, identityState, sessionFrame
<1>12. CASE Emit \/ LewisConnects \/ LewisRecv \/ LewisFlush \/ LewisCompletes \/ LewisFails \/ LewisDrains
  <2>1. UNCHANGED <<group, call, barrier, gateway, listener>>
    BY <1>12 DEF Emit, LewisConnects, LewisRecv, LewisFlush, LewisCompletes, LewisFails, LewisDrains,
       identityState, lewisFrame
  <2>2. QED BY <1>6, <2>1
<1>13. CASE StopsProcess
  BY <1>6, <1>13 DEF StopsProcess, identityState
<1>14. QED
  BY <1>1, <1>2, <1>3, <1>4, <1>5, <1>7, <1>8, <1>9, <1>10, <1>11, <1>12, <1>13 DEF Next, Steps

\* The invariant of the identity group holds for any admin calls, however they
\* are cut short and whichever members end.
THEOREM IdentityInvariant == Spec => []IdentityInv
BY InitIdentityInv, NextIdentityInv, PTL DEF Spec

\* The gateway and the listener never run under different identities, and
\* between calls the identity reported is theirs (sync_identity).
THEOREM IdentityIsConsistent == Spec => []IdentityConsistent
<1>1. ASSUME IdentityInv PROVE IdentityConsistent
  <2>m. /\ "quic gateway" \in Members /\ "jet-gateway listener" \in Members
        /\ MemberState("quic gateway") = gateway /\ MemberState("jet-gateway listener") = listener
    BY DEF Members, MemberState
  <2>1. OneIdentity
    <3>1. SUFFICES ASSUME gateway.pc = "run", listener.pc = "run"
                   PROVE  gateway.identity = listener.identity
      BY DEF OneIdentity
    <3>2. gateway.at = {} /\ listener.at = {}
      BY <1>1, <2>m, <3>1 DEF IdentityInv, MemberSound
    <3>3. \A m \in Members, c \in Callers : ~Took(m, c)
      BY <3>2 DEF Took, MemberState
    <3>4. \A m, n \in Members : MemberState(m).identity = MemberState(n).identity
      BY <1>1, <3>3 DEF IdentityInv, MembersAgree
    <3>5. QED BY <2>m, <3>4
  <2>2. IdentityAgrees
    <3>1. SUFFICES ASSUME group.lock = {}, \A c \in Callers : call[c].pc # "lost"
                   PROVE  /\ {gateway.identity, listener.identity, group.watcher} = {group.identity}
                          /\ group.members = Members
      BY DEF IdentityAgrees
    <3>2. \A c \in Callers : ~Owns(c)
      BY <1>1, <3>1 DEF IdentityInv, CallsSerialised, Owns
    <3>3. group.members = Members
      BY <1>1, <3>2 DEF IdentityInv, CallsSerialised, IdentityTypes
    <3>4. gateway.identity = group.identity /\ listener.identity = group.identity
      BY <1>1, <2>m, <3>2 DEF IdentityInv, GroupAgrees
    <3>5. group.watcher = group.identity
      BY <1>1 DEF IdentityInv, CallsSerialised
    <3>6. QED BY <3>3, <3>4, <3>5
  <2>3. QED BY <2>1, <2>2 DEF IdentityConsistent
<1>2. QED BY <1>1, IdentityInvariant, PTL

-----------------------------------------------------------------------------
(***************************************************************************)
(* Jet-gateway session                                                     *)
(***************************************************************************)

TaskStates == {"none", "running", "finished", "panicked", "over"}

\* The part of TypeOK about the session.
SessionTypes ==
  /\ session \in Session
  /\ store \in [tokens : SUBSET Token, claimed : SUBSET Token]
  /\ tx \in [1..MaxTxs -> TaskStates]

\* Tokens are numbered in the order they are issued, so a new one is new.
TokensIssued == \A t \in store.tokens \cup store.claimed : t.n <= session.n

SessionInv == SessionTypes /\ TokensIssued /\ SessionIdentity /\ TokenSingleUse /\ WithinLimit

LEMMA Limits ==
  /\ MaxSubscribeAttempts \in Nat /\ MaxSubscribeAttempts > 0
  /\ MaxSendTransactions \in Nat /\ MaxSendTransactions > 0
  /\ MaxQuickDisconnects \in Nat /\ MaxQuickDisconnects > 0
  /\ BatchSize \in Nat /\ BatchSize > 0 /\ BufferSize \in Nat /\ BufferSize > 0
  /\ MaxReconnectAttempts \in Nat /\ MaxReconnectAttempts > 0
  /\ MaxConnects \in Nat /\ MaxTxs \in Nat /\ MaxEvents \in Nat /\ MaxFaults \in Nat
BY ProcessAssumption DEF ProcessAssumption

LEMMA SessionFields ==
  ASSUME session \in Session
  PROVE  /\ session.n \in 0..MaxConnects /\ session.pc \in {"idle", "auth", "open", "cooling"}
         /\ session.failed \in 0..(MaxSubscribeAttempts - 1)
         /\ session.quick \in 0..(MaxQuickDisconnects - 1)
         /\ session.token \in {{}} \cup {{t} : t \in Token}
         /\ \A t \in session.token : t \in Token
BY DEF Session

LEMMA NoSessionType ==
  ASSUME session \in Session
  PROVE  NoSession(session.n) \in Session
BY SessionFields, Limits DEF Session, NoSession

\* The tasks of a listener are finitely many.
LEMMA FewerTasks ==
  ASSUME WithinLimit, InTasks' \subseteq InTasks
  PROVE  WithinLimit'
<1>1. IsFiniteSet(1..MaxTxs) /\ InTasks \subseteq 1..MaxTxs
  BY Limits, FS_Interval DEF InTasks
<1>2. IsFiniteSet(InTasks)
  BY <1>1, FS_Subset
<1>3. IsFiniteSet(InTasks') /\ Cardinality(InTasks') <= Cardinality(InTasks)
  BY <1>2, FS_Subset
<1>4. Cardinality(InTasks) \in Nat /\ Cardinality(InTasks') \in Nat
  BY <1>2, <1>3, FS_CardinalityType
<1>5. QED BY <1>3, <1>4, Limits DEF WithinLimit

LEMMA SameSession ==
  ASSUME SessionInv, UNCHANGED <<session, store, tx>>, listener'.identity = listener.identity
  PROVE  SessionInv'
<1>1. InTasks' = InTasks
  BY DEF InTasks
<1>2. WithinLimit'
  BY <1>1, FewerTasks DEF SessionInv
<1>3. SessionTypes' /\ TokensIssued' /\ SessionIdentity' /\ TokenSingleUse'
  BY DEF SessionInv, SessionTypes, TokensIssued, SessionIdentity, TokenSingleUse
<1>4. QED BY <1>2, <1>3 DEF SessionInv

\* No token is issued; one that is no longer valid may have been claimed.
NoTokenIssued ==
  /\ store' \in [tokens : SUBSET Token, claimed : SUBSET Token]
  /\ store'.tokens \subseteq store.tokens
  /\ store'.claimed \subseteq store.claimed \cup (store.tokens \ store'.tokens)

LEMMA SameStore ==
  ASSUME SessionInv, UNCHANGED store
  PROVE  NoTokenIssued
BY DEF SessionInv, SessionTypes, NoTokenIssued

LEMMA FailureIssuesNoToken ==
  ASSUME SessionInv, TokenOfFailure
  PROVE  NoTokenIssued
<1>t. store \in [tokens : SUBSET Token, claimed : SUBSET Token]
  BY DEF SessionInv, SessionTypes
<1>1. CASE UNCHANGED store
  BY <1>1, SameStore
<1>2. ASSUME NEW t \in session.token, GrpcSubscribeJetGw(t)
      PROVE  NoTokenIssued
  <2>1. t \in store.tokens
    BY <1>2 DEF GrpcSubscribeJetGw
  <2>2. /\ store' = [tokens |-> store.tokens \ {t}, claimed |-> store.claimed \cup {t}]
        /\ store.tokens \in SUBSET Token /\ store.claimed \in SUBSET Token
    BY <1>t, <1>2 DEF GrpcSubscribeJetGw, Claim
  <2>3. QED BY <2>1, <2>2 DEF NoTokenIssued
<1>3. ASSUME NEW t \in session.token, store' = [store EXCEPT !.tokens = @ \ {t}]
      PROVE  NoTokenIssued
  BY <1>t, <1>3 DEF NoTokenIssued
<1>4. QED BY <1>1, <1>2, <1>3 DEF TokenOfFailure

LEMMA DropKeepsSession ==
  ASSUME SessionInv, SessionDropped, NoTokenIssued
  PROVE  SessionInv'
<1>1. session \in Session /\ session' = NoSession(session.n) /\ session' \in Session
  BY NoSessionType DEF SessionInv, SessionTypes, SessionDropped
<1>2. session'.pc = "idle" /\ session'.n = session.n
  BY <1>1 DEF NoSession
<1>3. tx' \in [1..MaxTxs -> TaskStates] /\ InTasks' \subseteq InTasks
  BY DEF SessionDropped, TaskStates, InTasks
<1>4. WithinLimit'
  BY <1>3, FewerTasks DEF SessionInv
<1>5. TokensIssued' /\ TokenSingleUse'
  BY <1>2 DEF SessionInv, TokensIssued, TokenSingleUse, NoTokenIssued
<1>6. SessionIdentity'
  BY <1>2 DEF SessionIdentity
<1>7. QED BY <1>1, <1>3, <1>4, <1>5, <1>6 DEF SessionInv, SessionTypes, NoTokenIssued

LEMMA AuthenticationKeepsSession ==
  ASSUME SessionInv, IdentityTypes, Authenticated
  PROVE  SessionInv'
<1>0. session \in Session /\ session.n \in Nat /\ session.n < MaxConnects /\ session.n + 1 \in 1..MaxConnects
  <2>1. session \in Session /\ session.n < MaxConnects
    BY DEF SessionInv, SessionTypes, Authenticated
  <2>2. session.n \in 0..MaxConnects
    BY <2>1, SessionFields
  <2>3. QED BY <2>1, <2>2, Limits
<1>1. PICK token \in VerifyAnswer(listener.identity, CreateChallenge(listener.identity),
                                 listener.identity),
           quick \in {0, session.quick} :
        /\ GenerateNew(token)
        /\ session' = [session EXCEPT !.pc = "auth", !.token = {token}, !.n = session.n + 1, !.quick = quick]
  BY DEF Authenticated, StillQuick
<1>2. token \in Token /\ token.n = session.n + 1 /\ token.pubkey = listener.identity
  <2>1. token = [pubkey |-> listener.identity, n |-> session.n + 1]
    BY <1>1 DEF VerifyAnswer
  <2>2. QED BY <1>0, <2>1 DEF Token, IdentityTypes, Member
<1>3. PICK valid \in SUBSET store.tokens : store' = [store EXCEPT !.tokens = valid \cup {token}]
  BY <1>1 DEF GenerateNew
<1>4. session' = [session EXCEPT !.pc = "auth", !.token = {token}, !.n = session.n + 1, !.quick = quick]
  BY <1>1
<1>5. /\ store' \in [tokens : SUBSET Token, claimed : SUBSET Token]
      /\ store'.tokens = valid \cup {token} /\ store'.claimed = store.claimed
  BY <1>2, <1>3 DEF SessionInv, SessionTypes
<1>6. /\ session' \in Session /\ session'.token = {token} /\ session'.n = session.n + 1
  <2>1. quick \in 0..(MaxQuickDisconnects - 1)
    BY <1>0, SessionFields, Limits
  <2>2. {token} \in {{}} \cup {{t} : t \in Token}
    BY <1>2
  <2>3. session.n + 1 \in 0..MaxConnects
    BY <1>0, Limits
  <2>4. QED BY <1>0, <1>4, <2>1, <2>2, <2>3 DEF Session
<1>7. \A t \in store.tokens \cup store.claimed : t.n \in Nat /\ t.n <= session.n
  BY DEF SessionInv, SessionTypes, TokensIssued, Token
<1>8. TokensIssued'
  BY <1>0, <1>2, <1>5, <1>6, <1>7 DEF TokensIssued
<1>9. TokenSingleUse'
  <2>1. token \notin store.claimed
    BY <1>0, <1>2, <1>7
  <2>2. store.claimed \cap store.tokens = {}
    BY DEF SessionInv, TokenSingleUse
  <2>3. QED BY <1>5, <2>1, <2>2 DEF TokenSingleUse
<1>10. SessionIdentity'
  BY <1>2, <1>6 DEF SessionIdentity, Authenticated, Subscribes
<1>11. UNCHANGED tx /\ InTasks' = InTasks
  BY DEF Authenticated, InTasks
<1>12. WithinLimit'
  BY <1>11, FewerTasks DEF SessionInv
<1>13. QED BY <1>5, <1>6, <1>8, <1>9, <1>10, <1>11, <1>12 DEF SessionInv, SessionTypes

LEMMA ClaimKeepsSession ==
  ASSUME SessionInv, Connected
  PROVE  SessionInv'
<1>1. PICK t \in session.token : t \in store.tokens /\ store' = Claim(t)
  BY DEF Connected, GrpcSubscribeJetGw
<1>2. /\ session' = [session EXCEPT !.pc = "open", !.failed = 0] /\ session.pc = "auth"
      /\ UNCHANGED <<listener, tx>> /\ session \in Session
  BY DEF Connected, SessionInv, SessionTypes
<1>3. session' \in Session /\ session'.token = session.token /\ session'.n = session.n
  <2>1. 0 \in 0..(MaxSubscribeAttempts - 1)
    BY Limits
  <2>2. QED BY <1>2, <2>1 DEF Session
<1>4. /\ store' \in [tokens : SUBSET Token, claimed : SUBSET Token]
      /\ store'.tokens = store.tokens \ {t} /\ store'.claimed = store.claimed \cup {t}
  BY <1>1 DEF SessionInv, SessionTypes, Claim
<1>5. TokensIssued' /\ TokenSingleUse'
  BY <1>1, <1>3, <1>4 DEF SessionInv, TokensIssued, TokenSingleUse
<1>6. SessionIdentity'
  BY <1>2, <1>3 DEF SessionInv, SessionIdentity
<1>7. WithinLimit'
  BY <1>2, FewerTasks DEF SessionInv, InTasks
<1>8. QED BY <1>2, <1>3, <1>4, <1>5, <1>6, <1>7 DEF SessionInv, SessionTypes

\* The session ends or is opened anew without a token.
LEMMA NoTokenKeepsSession ==
  ASSUME SessionInv, NoTokenIssued, UNCHANGED tx, session' \in Session,
         session'.pc \in {"idle", "cooling"}, session'.n \in {session.n, session.n + 1}
  PROVE  SessionInv'
<1>1. session.n \in Nat
  BY SessionFields DEF SessionInv, SessionTypes
<1>2. \A t \in store.tokens \cup store.claimed : t.n \in Nat /\ t.n <= session.n
  BY DEF SessionInv, SessionTypes, TokensIssued, Token
<1>3. TokensIssued'
  BY <1>1, <1>2 DEF TokensIssued, NoTokenIssued
<1>4. TokenSingleUse' /\ SessionIdentity'
  BY DEF SessionInv, TokenSingleUse, SessionIdentity, NoTokenIssued
<1>5. WithinLimit'
  BY FewerTasks DEF SessionInv, InTasks
<1>6. QED BY <1>3, <1>4, <1>5 DEF SessionInv, SessionTypes, NoTokenIssued

LEMMA ConnectFailsKeepsSession ==
  ASSUME SessionInv, ConnectFails
  PROVE  SessionInv'
<1>1. CASE SessionDropped
  BY <1>1, DropKeepsSession, FailureIssuesNoToken DEF ConnectFails
<1>2. CASE /\ ~TooManyFailures(session.failed + 1)
           /\ \E quick \in StillQuick :
                session' = [session EXCEPT !.pc = "idle", !.token = {}, !.failed = @ + 1, !.n = @ + 1,
                                           !.quick = quick]
           /\ UNCHANGED <<listener, tx, faults>>
  <2>0. session \in Session /\ session.n < MaxConnects /\ NoTokenIssued
    BY FailureIssuesNoToken DEF SessionInv, SessionTypes, ConnectFails
  <2>1. PICK quick \in {0, session.quick} :
          session' = [session EXCEPT !.pc = "idle", !.token = {}, !.failed = session.failed + 1,
                                     !.n = session.n + 1, !.quick = quick]
    BY <1>2 DEF StillQuick
  <2>2. /\ quick \in 0..(MaxQuickDisconnects - 1)
        /\ session.failed + 1 \in 0..(MaxSubscribeAttempts - 1)
        /\ session.n + 1 \in 0..MaxConnects
    BY <1>2, <2>0, <2>1, SessionFields, Limits DEF TooManyFailures
  <2>3. session' \in Session /\ session'.pc = "idle" /\ session'.n = session.n + 1
    BY <2>0, <2>1, <2>2 DEF Session
  <2>4. QED BY <1>2, <2>0, <2>3, NoTokenKeepsSession
<1>3. QED BY <1>1, <1>2 DEF ConnectFails

LEMMA StreamEndsKeepsSession ==
  ASSUME SessionInv, NEW quickly \in BOOLEAN, StreamEnds(quickly)
  PROVE  SessionInv'
<1>0. session \in Session /\ UNCHANGED <<store, tx>>
  BY DEF SessionInv, SessionTypes, StreamEnds
<1>1. PICK quick \in {session.quick, session.quick + 1} :
        session' = [session EXCEPT
          !.pc = IF quick >= MaxQuickDisconnects THEN "cooling" ELSE "idle",
          !.token = {}, !.quick = IF quick >= MaxQuickDisconnects THEN 0 ELSE quick]
  BY DEF StreamEnds
<1>2. PICK pc \in {"cooling", "idle"}, q \in 0..(MaxQuickDisconnects - 1) :
        session' = [session EXCEPT !.pc = pc, !.token = {}, !.quick = q]
  <2>1. CASE quick >= MaxQuickDisconnects
    <3>1. 0 \in 0..(MaxQuickDisconnects - 1)
      BY Limits
    <3>2. session' = [session EXCEPT !.pc = "cooling", !.token = {}, !.quick = 0]
      BY <1>1, <2>1
    <3>3. QED BY <3>1, <3>2
  <2>2. CASE ~(quick >= MaxQuickDisconnects)
    <3>1. quick \in 0..(MaxQuickDisconnects - 1)
      BY <1>0, <1>1, <2>2, SessionFields, Limits
    <3>2. QED BY <1>1, <2>2, <3>1
  <2>3. QED BY <2>1, <2>2
<1>3. session' \in Session /\ session'.pc = pc /\ session'.n = session.n
  BY <1>0, <1>2 DEF Session
<1>4. QED BY <1>0, <1>2, <1>3, SameStore, NoTokenKeepsSession

LEMMA TaskStepsKeepSession ==
  ASSUME SessionInv, NEW t \in 1..MaxTxs, Receive(t) \/ Handle(t) \/ JoinTask(t)
  PROVE  SessionInv'
<1>1. CASE SessionDropped
  BY <1>1, SameStore, DropKeepsSession DEF Receive, Handle, JoinTask, sessionFrame, SessionInv
<1>2. CASE ~SessionDropped
  <2>1. /\ UNCHANGED <<listener, session, store>>
        /\ \E state \in TaskStates : tx' = [tx EXCEPT ![t] = state]
    BY <1>2 DEF Receive, Handle, JoinTask, HandleVersionedTransaction, TaskStates
  <2>2. tx \in [1..MaxTxs -> TaskStates] /\ tx' \in [1..MaxTxs -> TaskStates]
    BY <2>1 DEF SessionInv, SessionTypes
  <2>3. WithinLimit'
    <3>1. CASE Receive(t)
      <4>1. tx' = [tx EXCEPT ![t] = "running"] /\ tx[t] = "none" /\ HasRoom
        BY <3>1 DEF Receive
      <4>2. InTasks' = InTasks \cup {t} /\ t \notin InTasks
        BY <2>2, <4>1 DEF InTasks
      <4>3. IsFiniteSet(1..MaxTxs) /\ InTasks \subseteq 1..MaxTxs
        BY Limits, FS_Interval DEF InTasks
      <4>4. IsFiniteSet(InTasks)
        BY <4>3, FS_Subset
      <4>5. Cardinality(InTasks') = Cardinality(InTasks) + 1
        BY <4>2, <4>4, FS_AddElement
      <4>6. Cardinality(InTasks) \in Nat
        BY <4>4, FS_CardinalityType
      <4>7. QED BY <4>1, <4>5, <4>6, Limits DEF HasRoom, WithinLimit
    <3>2. CASE Handle(t) \/ JoinTask(t)
      <4>1. tx[t] \in {"running", "finished", "panicked"}
        BY <3>2 DEF Handle, JoinTask
      <4>2. InTasks' \subseteq InTasks
        BY <2>1, <2>2, <4>1 DEF InTasks
      <4>3. QED BY <4>2, FewerTasks DEF SessionInv
    <3>3. QED BY <3>1, <3>2
  <2>4. TokensIssued' /\ SessionIdentity' /\ TokenSingleUse'
    BY <2>1 DEF SessionInv, TokensIssued, SessionIdentity, TokenSingleUse
  <2>5. QED BY <2>1, <2>2, <2>3, <2>4 DEF SessionInv, SessionTypes
<1>3. QED BY <1>1, <1>2

LEMMA InitSessionInv ==
  ASSUME Init
  PROVE  SessionInv
<1>1. /\ session = NoSession(0) /\ store = [tokens |-> {}, claimed |-> {}]
      /\ tx = [t \in 1..MaxTxs |-> "none"]
  BY DEF Init
<1>2. session \in Session
  <2>1. /\ 0 \in 0..(MaxSubscribeAttempts - 1) /\ 0 \in 0..(MaxQuickDisconnects - 1)
        /\ 0 \in 0..MaxConnects
    BY Limits
  <2>2. QED BY <1>1, <2>1 DEF NoSession, Session
<1>3. SessionTypes
  BY <1>1, <1>2 DEF SessionTypes, TaskStates
<1>4. TokensIssued /\ SessionIdentity /\ TokenSingleUse
  BY <1>1 DEF TokensIssued, SessionIdentity, TokenSingleUse, NoSession
<1>5. InTasks = {}
  BY <1>1 DEF InTasks
<1>6. WithinLimit
  BY <1>5, Limits, FS_EmptySet DEF WithinLimit
<1>7. QED BY <1>3, <1>4, <1>6 DEF SessionInv

LEMMA NextSessionInv ==
  ASSUME SessionInv, IdentityTypes, [Next]_vars
  PROVE  SessionInv'
<1>t. listener \in Member /\ session \in Session
  BY DEF IdentityTypes, SessionInv, SessionTypes
<1>1. ASSUME NEW c \in Callers, NEW id \in Identities, NEW reset \in BOOLEAN, Call(c, id, reset)
      PROVE  SessionInv'
  BY <1>1, SameSession DEF Call, callFrame, sessionState
<1>2. ASSUME NEW c \in Callers, Acquire(c) \/ CallerWaits(c) \/ CallReturns(c) \/ CallDropped(c)
      PROVE  SessionInv'
  BY <1>2, SameSession DEF Acquire, CallerWaits, CallReturns, CallDropped, callFrame, sessionState
<1>3. ASSUME NEW c \in Callers, NEW m \in Members, PauseMember(c, m) PROVE SessionInv'
  <2>1. UNCHANGED <<session, store, tx>>
    BY <1>3 DEF PauseMember, sessionState
  <2>2. listener' = listener \/ listener' = Received(listener, c)
    BY <1>3 DEF PauseMember
  <2>3. listener'.identity = listener.identity
    BY <1>t, <2>2 DEF Received, Member
  <2>4. QED BY <2>1, <2>3, SameSession
<1>4. CASE GatewayTakes \/ GatewayResumes \/ GatewayEnds
  BY <1>4, SameSession DEF GatewayTakes, GatewayResumes, GatewayEnds, sessionState
<1>5. CASE ListenerResumes
  <2>1. listener'.identity = listener.identity
    BY <1>t, <1>5 DEF ListenerResumes, Resumed, Member
  <2>2. QED BY <1>5, <2>1, SameSession DEF ListenerResumes, sessionState
<1>6. CASE ListenerTakes \/ ListenerCancelled \/ Exits
  BY <1>6, SameStore, DropKeepsSession DEF ListenerTakes, ListenerCancelled, Exits
<1>7. CASE Authenticated
  BY <1>7, AuthenticationKeepsSession
<1>8. CASE Connected
  BY <1>8, ClaimKeepsSession
<1>9. CASE ConnectFails
  BY <1>9, ConnectFailsKeepsSession
<1>10. CASE CooledDown
  <2>1. /\ session' \in Session /\ session'.pc = "idle" /\ session'.n = session.n
        /\ UNCHANGED <<store, tx>>
    BY <1>t, <1>10 DEF CooledDown, Session
  <2>2. QED BY <2>1, SameStore, NoTokenKeepsSession
<1>11. ASSUME NEW t \in 1..MaxTxs, Receive(t) \/ Handle(t) \/ JoinTask(t) PROVE SessionInv'
  BY <1>11, TaskStepsKeepSession
<1>12. ASSUME NEW quickly \in BOOLEAN, StreamEnds(quickly) PROVE SessionInv'
  BY <1>12, StreamEndsKeepsSession
<1>13. CASE Emit \/ LewisConnects \/ LewisRecv \/ LewisFlush \/ LewisCompletes \/ LewisFails \/ LewisDrains
  <2>1. UNCHANGED <<session, store, tx, listener>>
    BY <1>13 DEF Emit, LewisConnects, LewisRecv, LewisFlush, LewisCompletes, LewisFails, LewisDrains,
       lewisFrame, sessionState
  <2>2. QED BY <2>1, SameSession
<1>14. CASE StopsProcess
  BY <1>14, SameSession DEF StopsProcess, sessionState
<1>15. CASE UNCHANGED vars
  BY <1>15, SameSession DEF vars
<1>16. QED
  BY <1>1, <1>2, <1>3, <1>4, <1>5, <1>6, <1>7, <1>8, <1>9, <1>10, <1>11, <1>12, <1>13, <1>14, <1>15
     DEF Next, Steps

-----------------------------------------------------------------------------
(***************************************************************************)
(* Lewis                                                                   *)
(***************************************************************************)

Ascending(s) == \A i, j \in 1..Len(s) : i < j => s[i] < s[j]

Before(s, t) == \A i \in 1..Len(s), j \in 1..Len(t) : s[i] < t[j]

UpTo(s, n) == \A i \in 1..Len(s) : s[i] <= n

\* What was sent, what is batched and what is queued, of n events.
Ordered(sent, batch, queue, n) ==
  /\ n \in 0..MaxEvents
  /\ sent \in Seq(1..MaxEvents) /\ batch \in Seq(1..MaxEvents) /\ queue \in Seq(1..MaxEvents)
  /\ Ascending(sent) /\ Ascending(batch) /\ Ascending(queue)
  /\ Before(sent, batch) /\ Before(sent, queue) /\ Before(batch, queue)
  /\ UpTo(sent, n) /\ UpTo(batch, n) /\ UpTo(queue, n)

Client == [pc : {"connecting", "stream", "draining", "ended"}, attempt : 0..MaxReconnectAttempts,
           n : 0..MaxEvents, queue : Seq(1..MaxEvents), batch : Seq(1..MaxEvents),
           sent : Seq(1..MaxEvents)]

\* A client that may still fail has attempts left.
ClientSound(l) ==
  /\ l \in Client /\ Len(l.queue) <= BufferSize
  /\ l.pc \in {"connecting", "stream"} => l.attempt < MaxReconnectAttempts
  /\ Ordered(l.sent, l.batch, l.queue, l.n)

LewisInv == ClientSound(lewis) /\ Len(lewis.batch) < BatchSize

LEMMA JoinOrdered ==
  ASSUME NEW S, NEW s \in Seq(S), NEW t \in Seq(S)
  PROVE  /\ Len(s) \in Nat /\ Len(t) \in Nat /\ s \o t \in Seq(S) /\ Len(s \o t) = Len(s) + Len(t)
         /\ \A i \in 1..Len(s \o t) : \/ i \in 1..Len(s) /\ (s \o t)[i] = s[i]
                                      \/ /\ i > Len(s) /\ i - Len(s) \in 1..Len(t)
                                         /\ (s \o t)[i] = t[i - Len(s)]
<1>1. /\ Len(s) \in Nat /\ Len(t) \in Nat /\ s \o t \in Seq(S) /\ Len(s \o t) = Len(s) + Len(t)
      /\ \A i \in 1..Len(s) + Len(t) :
           (s \o t)[i] = IF i <= Len(s) THEN s[i] ELSE t[i - Len(s)]
  BY ConcatProperties, LenProperties
<1>2. QED BY <1>1

\* Two ascending sequences, one before the other, are one ascending sequence.
LEMMA JoinAscending ==
  ASSUME NEW s \in Seq(1..MaxEvents), NEW t \in Seq(1..MaxEvents), Ascending(s), Ascending(t), Before(s, t)
  PROVE  Ascending(s \o t)
<1> SUFFICES ASSUME NEW i \in 1..Len(s \o t), NEW j \in 1..Len(s \o t), i < j
             PROVE  (s \o t)[i] < (s \o t)[j]
  BY DEF Ascending
<1>1. Len(s) \in Nat /\ Len(t) \in Nat /\ Len(s \o t) = Len(s) + Len(t)
  BY JoinOrdered
<1>2. \/ i \in 1..Len(s) /\ (s \o t)[i] = s[i]
      \/ i > Len(s) /\ i - Len(s) \in 1..Len(t) /\ (s \o t)[i] = t[i - Len(s)]
  BY JoinOrdered
<1>3. \/ j \in 1..Len(s) /\ (s \o t)[j] = s[j]
      \/ j > Len(s) /\ j - Len(s) \in 1..Len(t) /\ (s \o t)[j] = t[j - Len(s)]
  BY JoinOrdered
<1>4. CASE j \in 1..Len(s) /\ (s \o t)[j] = s[j]
  BY <1>1, <1>2, <1>4 DEF Ascending
<1>5. CASE j > Len(s) /\ j - Len(s) \in 1..Len(t) /\ (s \o t)[j] = t[j - Len(s)]
  <2>1. CASE i \in 1..Len(s) /\ (s \o t)[i] = s[i]
    BY <1>5, <2>1 DEF Before
  <2>2. CASE i > Len(s) /\ i - Len(s) \in 1..Len(t) /\ (s \o t)[i] = t[i - Len(s)]
    <3>1. i - Len(s) < j - Len(s)
      BY <1>1
    <3>2. QED BY <1>5, <2>2, <3>1 DEF Ascending
  <2>3. QED BY <1>2, <2>1, <2>2
<1>6. QED BY <1>3, <1>4, <1>5

LEMMA JoinBefore ==
  ASSUME NEW s \in Seq(1..MaxEvents), NEW t \in Seq(1..MaxEvents), NEW u \in Seq(1..MaxEvents), NEW n
  PROVE  /\ Before(s, u) /\ Before(t, u) => Before(s \o t, u)
         /\ Before(u, s) /\ Before(u, t) => Before(u, s \o t)
         /\ UpTo(s, n) /\ UpTo(t, n) => UpTo(s \o t, n)
<1>1. \A i \in 1..Len(s \o t) :
        \/ i \in 1..Len(s) /\ (s \o t)[i] = s[i]
        \/ i > Len(s) /\ i - Len(s) \in 1..Len(t) /\ (s \o t)[i] = t[i - Len(s)]
  BY JoinOrdered
<1>2. Before(s, u) /\ Before(t, u) => Before(s \o t, u)
  BY <1>1 DEF Before
<1>3. Before(u, s) /\ Before(u, t) => Before(u, s \o t)
  BY <1>1 DEF Before
<1>4. UpTo(s, n) /\ UpTo(t, n) => UpTo(s \o t, n)
  BY <1>1 DEF UpTo
<1>5. QED BY <1>2, <1>3, <1>4

\* The three parts joined are in order.
LEMMA OrderedAscends ==
  ASSUME NEW sent, NEW batch, NEW queue, NEW n, Ordered(sent, batch, queue, n)
  PROVE  Ascending(sent \o batch \o queue)
<1>1. sent \in Seq(1..MaxEvents) /\ batch \in Seq(1..MaxEvents) /\ queue \in Seq(1..MaxEvents)
  BY DEF Ordered
<1>2. Ascending(sent \o batch) /\ sent \o batch \in Seq(1..MaxEvents)
  BY <1>1, JoinAscending, JoinOrdered DEF Ordered
<1>3. Before(sent \o batch, queue)
  BY <1>1, JoinBefore DEF Ordered
<1>4. PICK first : first = sent \o batch
  OBVIOUS
<1>5. Ascending(first \o queue)
  BY <1>1, <1>2, <1>3, <1>4, JoinAscending DEF Ordered
<1>6. QED BY <1>4, <1>5

LEMMA EmptyOrdered ==
  ASSUME NEW s, NEW n
  PROVE  /\ <<>> \in Seq(1..MaxEvents) /\ Ascending(<<>>) /\ UpTo(<<>>, n)
         /\ Before(s, <<>>) /\ Before(<<>>, s)
<1>1. Len(<<>>) = 0 /\ 1..0 = {}
  OBVIOUS
<1>2. QED BY <1>1 DEF Ascending, UpTo, Before

\* A batch or a queue that is lost leaves the rest in order.
LEMMA LossOrdered ==
  ASSUME NEW sent, NEW batch, NEW queue, NEW n, Ordered(sent, batch, queue, n)
  PROVE  Ordered(sent, <<>>, queue, n) /\ Ordered(sent, <<>>, <<>>, n)
BY EmptyOrdered DEF Ordered

\* So does the batch, or the start of it, when it is sent.
LEMMA SendOrdered ==
  ASSUME NEW sent, NEW batch, NEW queue, NEW n, Ordered(sent, batch, queue, n),
         NEW k \in 0..Len(batch)
  PROVE  Ordered(sent \o SubSeq(batch, 1, k), <<>>, queue, n)
<1>0. /\ sent \in Seq(1..MaxEvents) /\ batch \in Seq(1..MaxEvents) /\ queue \in Seq(1..MaxEvents)
      /\ Len(batch) \in Nat
  BY DEF Ordered
<1>1. PICK part : part = SubSeq(batch, 1, k)
  OBVIOUS
<1>2. /\ part \in Seq(1..MaxEvents) /\ Len(part) = k
      /\ \A i \in 1..k : part[i] = batch[i] /\ i \in 1..Len(batch)
  <2>1. \A i \in 1..k : i \in 1..Len(batch) /\ batch[i] \in 1..MaxEvents
    <3>1. ASSUME NEW i \in 1..k PROVE i \in 1..Len(batch) /\ batch[i] \in 1..MaxEvents
      <4>1. i \in 1..Len(batch)
        BY <1>0
      <4>2. QED BY <1>0, <4>1, ElementOfSeq
    <3>2. QED BY <3>1
  <2>2. /\ part \in Seq(1..MaxEvents) /\ Len(part) = (IF 1 <= k THEN k - 1 + 1 ELSE 0)
        /\ \A i \in 1..(k - 1 + 1) : part[i] = batch[1 + i - 1]
    BY <1>0, <1>1, <2>1, SubSeqProperties
  <2>3. \A i \in 1..k : part[i] = batch[i]
    <3>1. ASSUME NEW i \in 1..k PROVE part[i] = batch[i]
      <4>1. i \in 1..(k - 1 + 1) /\ 1 + i - 1 = i
        BY <1>0
      <4>2. QED BY <2>2, <4>1
    <3>2. QED BY <3>1
  <2>4. QED BY <1>0, <2>1, <2>2, <2>3
<1>3. Ascending(part) /\ Before(sent, part) /\ Before(part, queue) /\ UpTo(part, n)
  BY <1>2 DEF Ordered, Ascending, Before, UpTo
<1>4. sent \o part \in Seq(1..MaxEvents) /\ Ascending(sent \o part)
  BY <1>0, <1>2, <1>3, JoinAscending, JoinOrdered DEF Ordered
<1>5. Before(sent \o part, queue) /\ UpTo(sent \o part, n)
  BY <1>0, <1>2, <1>3, JoinBefore DEF Ordered
<1>6. QED BY <1>1, <1>4, <1>5, EmptyOrdered DEF Ordered

LEMMA SendAllOrdered ==
  ASSUME NEW sent, NEW batch, NEW queue, NEW n, Ordered(sent, batch, queue, n)
  PROVE  Ordered(sent \o batch, <<>>, queue, n)
BY JoinAscending, JoinOrdered, JoinBefore, EmptyOrdered DEF Ordered

\* The head of the queue joins the batch, or is dropped.
LEMMA RecvOrdered ==
  ASSUME NEW sent, NEW batch, NEW queue, NEW n, Ordered(sent, batch, queue, n), queue # <<>>
  PROVE  Ordered(sent, Append(batch, Head(queue)), Tail(queue), n) /\ Ordered(sent, batch, Tail(queue), n)
<1>0. /\ sent \in Seq(1..MaxEvents) /\ batch \in Seq(1..MaxEvents) /\ queue \in Seq(1..MaxEvents)
      /\ Len(batch) \in Nat /\ Len(queue) \in Nat \ {0}
  BY DEF Ordered
<1>1. PICK rest : rest = Tail(queue)
  OBVIOUS
<1>2. PICK more : more = Append(batch, Head(queue))
  OBVIOUS
<1>3. /\ rest \in Seq(1..MaxEvents) /\ Len(rest) = Len(queue) - 1
      /\ \A i \in 1..Len(rest) : rest[i] = queue[i + 1] /\ i + 1 \in 1..Len(queue) /\ i + 1 > 1
      /\ Head(queue) = queue[1] /\ 1 \in 1..Len(queue) /\ queue[1] \in 1..MaxEvents
  <2>1. /\ rest \in Seq(1..MaxEvents) /\ Len(rest) = Len(queue) - 1
        /\ \A i \in 1..Len(rest) : rest[i] = queue[i + 1]
        /\ Head(queue) \in 1..MaxEvents
    BY <1>0, <1>1, HeadTailProperties
  <2>2. Head(queue) = queue[1]
    BY <1>0
  <2>3. QED BY <1>0, <2>1, <2>2
<1>4. /\ more \in Seq(1..MaxEvents) /\ Len(more) = Len(batch) + 1
      /\ \A i \in 1..Len(batch) : more[i] = batch[i]
      /\ more[Len(batch) + 1] = queue[1]
      /\ \A i \in 1..Len(more) : i \in 1..Len(batch) \/ i = Len(batch) + 1
  BY <1>0, <1>2, <1>3
<1>5. Ascending(rest) /\ Before(sent, rest) /\ Before(batch, rest) /\ UpTo(rest, n)
  <2>1. \A i, j \in 1..Len(rest) : i < j => i + 1 < j + 1
    OBVIOUS
  <2>2. QED BY <1>3, <2>1 DEF Ordered, Ascending, Before, UpTo
<1>6. Ascending(more)
  <2>1. \A i \in 1..Len(batch) : more[i] < queue[1]
    BY <1>3, <1>4 DEF Ordered, Before
  <2>2. \A i, j \in 1..Len(more) : i < j =>
          i \in 1..Len(batch) /\ (j \in 1..Len(batch) \/ j = Len(batch) + 1)
    BY <1>0, <1>4
  <2>3. QED BY <1>4, <2>1, <2>2 DEF Ordered, Ascending
<1>7. Before(sent, more) /\ UpTo(more, n)
  BY <1>3, <1>4 DEF Ordered, Before, UpTo
<1>8. Before(more, rest)
  BY <1>3, <1>4, <1>5 DEF Ordered, Ascending, Before
<1>9. QED BY <1>1, <1>2, <1>3, <1>4, <1>5, <1>6, <1>7, <1>8 DEF Ordered

\* A new event is after all others.
LEMMA EmitOrdered ==
  ASSUME NEW sent, NEW batch, NEW queue, NEW n, Ordered(sent, batch, queue, n), n < MaxEvents
  PROVE  Ordered(sent, batch, Append(queue, n + 1), n + 1) /\ Ordered(sent, batch, queue, n + 1)
<1>0. /\ sent \in Seq(1..MaxEvents) /\ batch \in Seq(1..MaxEvents) /\ queue \in Seq(1..MaxEvents)
      /\ Len(sent) \in Nat /\ Len(batch) \in Nat /\ Len(queue) \in Nat
      /\ n \in Nat /\ n + 1 \in 1..MaxEvents /\ n + 1 \in 0..MaxEvents
  BY Limits DEF Ordered
<1>1. PICK more : more = Append(queue, n + 1)
  OBVIOUS
<1>2. /\ more \in Seq(1..MaxEvents) /\ Len(more) = Len(queue) + 1
      /\ \A i \in 1..Len(queue) : more[i] = queue[i]
      /\ more[Len(queue) + 1] = n + 1
      /\ \A i \in 1..Len(more) : i \in 1..Len(queue) \/ i = Len(queue) + 1
  BY <1>0, <1>1
<1>3. \A s \in Seq(1..MaxEvents) : UpTo(s, n) => \A i \in 1..Len(s) : s[i] < n + 1 /\ s[i] <= n + 1
  <2>1. ASSUME NEW s \in Seq(1..MaxEvents), UpTo(s, n), NEW i \in 1..Len(s) PROVE s[i] < n + 1 /\ s[i] <= n + 1
    <3>1. s[i] \in 1..MaxEvents /\ s[i] <= n
      BY <2>1, ElementOfSeq DEF UpTo
    <3>2. QED BY <1>0, <3>1
  <2>2. QED BY <2>1
<1>4. UpTo(sent, n + 1) /\ UpTo(batch, n + 1) /\ UpTo(queue, n + 1) /\ UpTo(more, n + 1)
  <2>1. UpTo(sent, n + 1) /\ UpTo(batch, n + 1) /\ UpTo(queue, n + 1)
    BY <1>0, <1>3 DEF Ordered, UpTo
  <2>2. n + 1 <= n + 1
    BY <1>0
  <2>3. UpTo(more, n + 1)
    BY <1>2, <2>1, <2>2 DEF UpTo
  <2>4. QED BY <2>1, <2>3
<1>5. Ascending(more)
  BY <1>0, <1>2, <1>3 DEF Ordered, Ascending
<1>6. Before(sent, more) /\ Before(batch, more)
  BY <1>0, <1>2, <1>3 DEF Ordered, Before
<1>7. QED BY <1>0, <1>1, <1>2, <1>4, <1>5, <1>6 DEF Ordered

LEMMA FailedClient ==
  ASSUME NEW l, ClientSound(l), l.attempt = lewis.attempt, l.attempt < MaxReconnectAttempts
  PROVE  ClientSound(StreamFailed(l)) /\ Len(StreamFailed(l).batch) < BatchSize
<1>1. PICK f : f = StreamFailed(l)
  OBVIOUS
<1>2. PICK pc \in {"draining", "connecting"} :
        /\ pc = "connecting" => l.attempt + 1 < MaxReconnectAttempts
        /\ f = [l EXCEPT !.attempt = l.attempt + 1, !.batch = <<>>, !.pc = pc]
  <2>0. l.attempt \in Nat
    BY DEF ClientSound, Client
  <2>1. CASE lewis.attempt + 1 >= MaxReconnectAttempts
    BY <1>1, <2>1 DEF StreamFailed
  <2>2. CASE ~(lewis.attempt + 1 >= MaxReconnectAttempts)
    <3>1. l.attempt + 1 < MaxReconnectAttempts
      BY <2>0, <2>2, Limits
    <3>2. QED BY <1>1, <2>2, <3>1 DEF StreamFailed
  <2>3. QED BY <2>1, <2>2
<1>3. l \in Client /\ l.attempt + 1 \in 0..MaxReconnectAttempts /\ <<>> \in Seq(1..MaxEvents)
  BY Limits, EmptyOrdered DEF ClientSound, Client
<1>4. /\ f \in Client /\ f.pc = pc /\ f.attempt = l.attempt + 1 /\ f.batch = <<>> /\ f.queue = l.queue
      /\ f.sent = l.sent /\ f.n = l.n
  BY <1>2, <1>3 DEF Client
<1>5. Len(<<>>) = 0 /\ Ordered(l.sent, <<>>, l.queue, l.n)
  BY LossOrdered DEF ClientSound
<1>6. QED BY <1>1, <1>2, <1>4, <1>5, Limits DEF ClientSound

LEMMA EndedClient ==
  ASSUME NEW l, ClientSound(l)
  PROVE  ClientSound(Ended(l)) /\ Len(Ended(l).batch) < BatchSize
<1>1. PICK e : e = Ended(l)
  OBVIOUS
<1>2. l \in Client /\ <<>> \in Seq(1..MaxEvents) /\ Len(<<>>) = 0
  BY EmptyOrdered DEF ClientSound
<1>3. /\ e \in Client /\ e.pc = "ended" /\ e.batch = <<>> /\ e.queue = <<>> /\ e.sent = l.sent /\ e.n = l.n
  BY <1>1, <1>2 DEF Ended, Client
<1>4. Ordered(l.sent, <<>>, <<>>, l.n)
  BY LossOrdered DEF ClientSound
<1>5. QED BY <1>1, <1>2, <1>3, <1>4, Limits DEF ClientSound

LEMMA SentClient ==
  ASSUME NEW l, ClientSound(l)
  PROVE  /\ ClientSound(BatchSent(l)) /\ Len(BatchSent(l).batch) < BatchSize
         /\ BatchSent(l).attempt = l.attempt
<1>1. PICK b : b = BatchSent(l)
  OBVIOUS
<1>2. l \in Client /\ <<>> \in Seq(1..MaxEvents) /\ Len(<<>>) = 0
  BY EmptyOrdered DEF ClientSound
<1>3. Ordered(l.sent \o l.batch, <<>>, l.queue, l.n) /\ l.sent \o l.batch \in Seq(1..MaxEvents)
  BY SendAllOrdered DEF ClientSound, Ordered
<1>4. /\ b \in Client /\ b.pc = l.pc /\ b.batch = <<>> /\ b.queue = l.queue /\ b.attempt = l.attempt
      /\ b.sent = l.sent \o l.batch /\ b.n = l.n
  BY <1>1, <1>2, <1>3 DEF BatchSent, Client
<1>5. QED BY <1>1, <1>2, <1>3, <1>4, Limits DEF ClientSound

\* send_batch, whether it succeeds or fails half way.
LEMMA SendKeepsClient ==
  ASSUME NEW l, ClientSound(l), l.attempt = lewis.attempt, l.attempt < MaxReconnectAttempts,
         NEW after, after \in {BatchSent(l), Ended(BatchSent(l)), StreamFailed(BatchSent(l))},
         SendBatch(l, after)
  PROVE  LewisInv'
<1>1. CASE lewis' = after
  <2>1. ClientSound(after) /\ Len(after.batch) < BatchSize
    BY SentClient, EndedClient, FailedClient
  <2>2. QED BY <1>1, <2>1 DEF LewisInv
<1>2. ASSUME NEW k \in 0..(Len(l.batch) - 1),
             lewis' = StreamFailed([l EXCEPT !.sent = @ \o SubSeq(l.batch, 1, k)])
      PROVE  LewisInv'
  <2>1. l \in Client /\ l.batch \in Seq(1..MaxEvents) /\ Len(l.batch) \in Nat
    BY DEF ClientSound, Client
  <2>2. k \in 0..Len(l.batch)
    BY <2>1
  <2>3. Ordered(l.sent \o SubSeq(l.batch, 1, k), <<>>, l.queue, l.n)
    BY <2>2, SendOrdered DEF ClientSound
  <2>4. PICK m : m = [l EXCEPT !.sent = l.sent \o SubSeq(l.batch, 1, k)]
    OBVIOUS
  <2>5. l.sent \o SubSeq(l.batch, 1, k) \in Seq(1..MaxEvents)
    BY <2>3 DEF Ordered
  <2>6. /\ m \in Client /\ m.sent = l.sent \o SubSeq(l.batch, 1, k) /\ m.queue = l.queue /\ m.n = l.n
        /\ m.batch = l.batch /\ m.attempt = l.attempt /\ m.pc = l.pc
    BY <2>1, <2>4, <2>5 DEF Client
  <2>7. PICK s : s = [m EXCEPT !.batch = <<>>]
    OBVIOUS
  <2>8. ClientSound(s) /\ s.attempt = l.attempt
    <3>1. /\ s \in Client /\ s.sent = m.sent /\ s.queue = m.queue /\ s.n = m.n
          /\ s.batch = <<>> /\ s.attempt = m.attempt /\ s.pc = m.pc
      BY <2>6, <2>7, EmptyOrdered DEF Client
    <3>2. QED BY <2>3, <2>6, <3>1 DEF ClientSound
  <2>9. StreamFailed(m) = StreamFailed(s)
    BY <2>6, <2>7 DEF StreamFailed, Client
  <2>10. QED BY <1>2, <2>4, <2>8, <2>9, FailedClient DEF LewisInv
<1>3. QED BY <1>1, <1>2 DEF SendBatch

LEMMA NextLewisInv ==
  ASSUME LewisInv, [Next]_vars
  PROVE  LewisInv'
<1>t. /\ lewis \in Client /\ lewis.queue \in Seq(1..MaxEvents) /\ lewis.batch \in Seq(1..MaxEvents)
      /\ ClientSound(lewis) /\ Len(lewis.batch) < BatchSize /\ Len(lewis.queue) <= BufferSize
      /\ lewis.pc \in {"connecting", "stream"} => lewis.attempt < MaxReconnectAttempts
      /\ Ordered(lewis.sent, lewis.batch, lewis.queue, lewis.n)
      /\ Len(lewis.queue) \in Nat /\ Len(lewis.batch) \in Nat /\ lewis.n \in Nat
  BY DEF LewisInv, ClientSound, Client
<1>1. CASE UNCHANGED lewis
  BY <1>1 DEF LewisInv
<1>2. CASE Emit
  <2>1. PICK q \in {lewis.queue, Append(lewis.queue, lewis.n + 1)} :
          /\ lewis' = [lewis EXCEPT !.n = lewis.n + 1, !.queue = q]
          /\ q = lewis.queue \/ Len(lewis.queue) < BufferSize
    BY <1>2 DEF Emit
  <2>2. lewis.n < MaxEvents /\ lewis.n + 1 \in 0..MaxEvents /\ lewis.n + 1 \in 1..MaxEvents
    BY <1>t, <1>2, Limits DEF Emit
  <2>3. Ordered(lewis.sent, lewis.batch, q, lewis.n + 1)
    BY <1>t, <2>1, <2>2, EmitOrdered
  <2>4. q \in Seq(1..MaxEvents) /\ Len(q) <= BufferSize
    <3>1. CASE q = lewis.queue
      BY <1>t, <3>1
    <3>2. CASE q = Append(lewis.queue, lewis.n + 1) /\ Len(lewis.queue) < BufferSize
      <4>1. q \in Seq(1..MaxEvents) /\ Len(q) = Len(lewis.queue) + 1
        BY <1>t, <2>2, <3>2
      <4>2. QED BY <1>t, <3>2, <4>1, Limits
    <3>3. QED BY <2>1, <3>1, <3>2
  <2>5. /\ lewis' \in Client /\ lewis'.pc = lewis.pc /\ lewis'.attempt = lewis.attempt
        /\ lewis'.sent = lewis.sent /\ lewis'.batch = lewis.batch /\ lewis'.queue = q
        /\ lewis'.n = lewis.n + 1
    BY <1>t, <2>1, <2>2, <2>4 DEF Client
  <2>6. QED BY <1>t, <2>3, <2>4, <2>5 DEF LewisInv, ClientSound
<1>3. CASE LewisConnects
  <2>1. CASE lewis' = [lewis EXCEPT !.pc = "stream"]
    <3>1. /\ lewis' \in Client /\ lewis'.pc = "stream" /\ lewis'.attempt = lewis.attempt
          /\ lewis'.sent = lewis.sent /\ lewis'.batch = lewis.batch /\ lewis'.queue = lewis.queue
          /\ lewis'.n = lewis.n
      BY <1>t, <2>1 DEF Client
    <3>2. QED BY <1>t, <1>3, <3>1 DEF LewisConnects, LewisInv, ClientSound
  <2>2. CASE lewis' = StreamFailed(lewis)
    BY <1>t, <1>3, <2>2, FailedClient DEF LewisConnects, LewisInv
  <2>3. CASE lewis' = Ended(lewis)
    BY <1>t, <2>3, EndedClient DEF LewisInv
  <2>4. QED BY <1>3, <2>1, <2>2, <2>3 DEF LewisConnects
<1>4. CASE LewisRecv
  <2>1. PICK l : l = [lewis EXCEPT !.queue = Tail(lewis.queue), !.batch = Append(lewis.batch, Head(lewis.queue))]
    OBVIOUS
  <2>2. lewis.pc = "stream" /\ lewis.queue # <<>>
    BY <1>4 DEF LewisRecv
  <2>3. Ordered(lewis.sent, Append(lewis.batch, Head(lewis.queue)), Tail(lewis.queue), lewis.n)
    BY <1>t, <2>2, RecvOrdered
  <2>4. Append(lewis.batch, Head(lewis.queue)) \in Seq(1..MaxEvents) /\ Tail(lewis.queue) \in Seq(1..MaxEvents)
    BY <2>3 DEF Ordered
  <2>5. /\ l \in Client /\ l.pc = "stream" /\ l.attempt = lewis.attempt
        /\ l.sent = lewis.sent /\ l.batch = Append(lewis.batch, Head(lewis.queue))
        /\ l.queue = Tail(lewis.queue) /\ l.n = lewis.n
    BY <1>t, <2>1, <2>2, <2>4 DEF Client
  <2>6. Len(Tail(lewis.queue)) <= BufferSize
    BY <1>t, <2>2, Limits
  <2>7. ClientSound(l)
    BY <1>t, <2>2, <2>3, <2>5, <2>6 DEF ClientSound
  <2>8. CASE Len(l.batch) >= BatchSize
    <3>1. SendBatch(l, BatchSent(l))
      BY <1>4, <2>1, <2>8 DEF LewisRecv
    <3>2. QED BY <1>t, <2>2, <2>5, <2>7, <3>1, SendKeepsClient
  <2>9. CASE ~(Len(l.batch) >= BatchSize)
    <3>1. lewis' = l
      BY <1>4, <2>1, <2>9 DEF LewisRecv
    <3>2. Len(l.batch) \in Nat
      BY <2>4, <2>5
    <3>3. Len(l.batch) < BatchSize
      BY <2>9, <3>2, Limits
    <3>4. QED BY <2>7, <3>1, <3>3 DEF LewisInv
  <2>10. QED BY <2>8, <2>9
<1>5. CASE LewisFlush
  BY <1>t, <1>5, SendKeepsClient DEF LewisFlush
<1>6. CASE LewisCompletes
  <2>1. PICK after \in {Ended(BatchSent(lewis)), StreamFailed(BatchSent(lewis))} : SendBatch(lewis, after)
    BY <1>6 DEF LewisCompletes
  <2>2. QED BY <1>t, <1>6, <2>1, SendKeepsClient DEF LewisCompletes
<1>7. CASE LewisFails
  BY <1>t, <1>7, FailedClient DEF LewisFails, LewisInv
<1>8. CASE LewisDrains
  <2>1. CASE lewis.queue # <<>> /\ lewis' = [lewis EXCEPT !.queue = Tail(@)]
    <3>1. Ordered(lewis.sent, lewis.batch, Tail(lewis.queue), lewis.n) /\ Tail(lewis.queue) \in Seq(1..MaxEvents)
      BY <1>t, <2>1, RecvOrdered DEF Ordered
    <3>2. /\ lewis' \in Client /\ lewis'.pc = lewis.pc /\ lewis'.attempt = lewis.attempt
          /\ lewis'.sent = lewis.sent /\ lewis'.batch = lewis.batch /\ lewis'.queue = Tail(lewis.queue)
          /\ lewis'.n = lewis.n
      BY <1>t, <2>1, <3>1 DEF Client
    <3>3. Len(Tail(lewis.queue)) <= BufferSize
      BY <1>t, <2>1, Limits
    <3>4. QED BY <1>t, <3>1, <3>2, <3>3 DEF LewisInv, ClientSound
  <2>2. CASE lewis' = Ended(lewis)
    BY <1>t, <2>2, EndedClient DEF LewisInv
  <2>3. QED BY <1>8, <2>1, <2>2 DEF LewisDrains
<1>9. CASE Exits
  BY <1>t, <1>9, EndedClient DEF Exits, LewisInv
<1>10. CASE UNCHANGED vars
  BY <1>1, <1>10 DEF vars
<1>11. ASSUME NEW c \in Callers,
              \/ \E id \in Identities, reset \in BOOLEAN : Call(c, id, reset)
              \/ Acquire(c) \/ CallerWaits(c) \/ CallReturns(c) \/ CallDropped(c)
              \/ \E m \in Members : PauseMember(c, m)
       PROVE  LewisInv'
  BY <1>1, <1>11 DEF Call, Acquire, CallerWaits, CallReturns, CallDropped, PauseMember, callFrame
<1>12. CASE \/ GatewayTakes \/ GatewayResumes \/ GatewayEnds
            \/ ListenerTakes \/ ListenerResumes \/ ListenerCancelled
            \/ Authenticated \/ Connected \/ ConnectFails \/ CooledDown \/ StopsProcess
  BY <1>1, <1>12 DEF GatewayTakes, GatewayResumes, GatewayEnds, ListenerTakes, ListenerResumes,
     ListenerCancelled, Authenticated, Connected, ConnectFails, CooledDown, StopsProcess, sessionFrame
<1>13. ASSUME NEW t \in 1..MaxTxs, Receive(t) \/ Handle(t) \/ JoinTask(t) PROVE LewisInv'
  BY <1>1, <1>13 DEF Receive, Handle, JoinTask, sessionFrame
<1>14. ASSUME NEW quickly \in BOOLEAN, StreamEnds(quickly) PROVE LewisInv'
  BY <1>1, <1>14 DEF StreamEnds, sessionFrame
<1>15. QED
  BY <1>2, <1>3, <1>4, <1>5, <1>6, <1>7, <1>8, <1>9, <1>10, <1>11, <1>12, <1>13, <1>14 DEF Next, Steps

LEMMA InitLewisInv ==
  ASSUME Init
  PROVE  LewisInv
<1>1. lewis = [pc |-> "connecting", attempt |-> 0, n |-> 0, queue |-> <<>>, batch |-> <<>>, sent |-> <<>>]
  BY DEF Init
<1>2. /\ 0 \in 0..MaxReconnectAttempts /\ 0 \in 0..MaxEvents /\ <<>> \in Seq(1..MaxEvents) /\ Len(<<>>) = 0
  BY Limits, EmptyOrdered
<1>3. lewis \in Client
  BY <1>1, <1>2 DEF Client
<1>4. Ordered(<<>>, <<>>, <<>>, 0)
  BY <1>2, EmptyOrdered DEF Ordered
<1>5. QED BY <1>1, <1>2, <1>3, <1>4, Limits DEF LewisInv, ClientSound

-----------------------------------------------------------------------------
ProcessTypes == process \in {"running", "stopping", "exited"} /\ faults \in 0..MaxFaults

\* Events reach Lewis in order and none of them twice, whatever batches and
\* connections are lost, for any sizes of batch, buffer and attempts.
THEOREM EventsStayInOrder == Spec => []EventsInOrder
<1>1. ASSUME LewisInv PROVE EventsInOrder
  <2>1. Ascending(lewis.sent \o lewis.batch \o lewis.queue)
    BY <1>1, OrderedAscends DEF LewisInv, ClientSound
  <2>2. QED BY <2>1 DEF EventsInOrder, Ascending
<1>2. Spec => []LewisInv
  BY InitLewisInv, NextLewisInv, PTL DEF Spec
<1>3. QED BY <1>1, <1>2, PTL

\* The state stays well-typed, no used token becomes valid again, the session is
\* that of the listener's identity and its tasks stay within the limit.
THEOREM SessionIsSound == Spec => []SessionSound
<1>1. Spec => []LewisInv
  BY InitLewisInv, NextLewisInv, PTL DEF Spec
<1>2. Spec => []SessionInv
  <2>1. IdentityInv => IdentityTypes
    BY DEF IdentityInv
  <2>2. QED BY <2>1, InitSessionInv, NextSessionInv, IdentityInvariant, PTL DEF Spec
<1>3. Spec => []ProcessTypes
  <2>1. Init => ProcessTypes
    BY Limits DEF Init, ProcessTypes
  <2>2. ASSUME ProcessTypes, [Next]_vars
        PROVE  ProcessTypes'
    <3>1. \/ UNCHANGED <<process, faults>>
          \/ FaultHappens /\ UNCHANGED process
          \/ UNCHANGED faults /\ process' \in {"stopping", "exited"}
          \/ FaultHappens /\ process' = "stopping"
      <4>1. CASE UNCHANGED vars
        BY <4>1 DEF vars
      <4>2. CASE \E c \in Callers : \/ \E id \in Identities, reset \in BOOLEAN : Call(c, id, reset)
                                    \/ Acquire(c) \/ CallerWaits(c) \/ CallReturns(c) \/ CallDropped(c)
                                    \/ \E m \in Members : PauseMember(c, m)
        BY <4>2 DEF Call, Acquire, CallerWaits, CallReturns, CallDropped, PauseMember, callFrame
      <4>3. CASE \/ GatewayTakes \/ GatewayResumes \/ GatewayEnds
                 \/ ListenerTakes \/ ListenerResumes \/ ListenerCancelled
        BY <4>3 DEF GatewayTakes, GatewayResumes, GatewayEnds, ListenerTakes, ListenerResumes, ListenerCancelled
      <4>4. CASE Authenticated \/ Connected \/ ConnectFails \/ CooledDown
        BY <4>4 DEF Authenticated, Connected, ConnectFails, CooledDown, sessionFrame
      <4>5. CASE \E t \in 1..MaxTxs : Receive(t) \/ Handle(t) \/ JoinTask(t)
        BY <4>5 DEF Receive, Handle, JoinTask, HandleVersionedTransaction, sessionFrame
      <4>6. CASE \E quickly \in BOOLEAN : StreamEnds(quickly)
        BY <4>6 DEF StreamEnds, sessionFrame
      <4>7. CASE Emit \/ LewisConnects \/ LewisRecv \/ LewisFlush \/ LewisCompletes \/ LewisFails \/ LewisDrains
        BY <4>7 DEF Emit, LewisConnects, LewisRecv, LewisFlush, LewisCompletes, LewisFails, LewisDrains, lewisFrame
      <4>8. CASE StopsProcess \/ Exits
        BY <4>8 DEF StopsProcess, Exits
      <4>9. QED BY <2>2, <4>1, <4>2, <4>3, <4>4, <4>5, <4>6, <4>7, <4>8 DEF Next, Steps
    <3>2. FaultHappens => faults' \in 0..MaxFaults
      BY <2>2, Limits DEF FaultHappens, ProcessTypes
    <3>3. QED BY <2>2, <3>1, <3>2 DEF ProcessTypes
  <2>3. QED BY <2>1, <2>2, PTL DEF Spec
<1>4. ASSUME IdentityInv, SessionInv, LewisInv, ProcessTypes
      PROVE  SessionSound
  <2>1. TypeOK
    BY <1>4 DEF TypeOK, IdentityInv, IdentityTypes, SessionInv, SessionTypes, TaskStates, LewisInv,
       ClientSound, Client, ProcessTypes
  <2>2. QED BY <1>4, <2>1 DEF SessionSound, SessionInv
<1>5. QED BY <1>1, <1>2, <1>3, <1>4, IdentityInvariant, PTL

=============================================================================
