------------------------- MODULE RootedTransactions -------------------------
(***************************************************************************)
(* GrpcRootedTxReceiver (apps/jet/src/transactions.rs) and the state       *)
(* machine it drives, RootedTxStateMachine                                 *)
(* (apps/jet/src/rooted_transaction_state.rs).                             *)
(*                                                                         *)
(* The receiver's loop reads transactions and block metadata from the gRPC *)
(* feed: transactions are buffered, and the next block metadata makes the  *)
(* state machine process the buffer and then the metadata, under one lock. *)
(* Watched signatures are notified of the commitment level of their slot.  *)
(*                                                                         *)
(* The feed is the environment: a transaction is delivered once for every  *)
(* slot that executed it, before or after the metadata of that slot; the   *)
(* metadata is what CommitmentFeed allows, which GeyserSubscriber is shown *)
(* to implement, and the slots of an abandoned fork are not confirmed.     *)
(***************************************************************************)
EXTENDS Integers, Sequences, FiniteSets, SequencesExt

CONSTANTS
  Sigs,        \* transaction signatures
  Slots,       \* slots: a set of natural numbers
  Abandoned,   \* the slots of a fork that loses
  Executed,    \* the pairs <<slot, signature>> of the transactions executed
  Height,      \* block height of each slot
  Retain,      \* MAX_RECENT_BLOCKHASHES
  MaySkip,     \* TRUE: a level of a slot may be missing from the feed
  MaxBulk      \* bound: transactions buffered between two metadata messages

Levels == 1..3
Processed == 1
Confirmed == 2
Finalized == 3
NoMeta == 0
NoSlot == -1

ASSUME FeedAssumption ==
  /\ Slots \subseteq Nat
  /\ Abandoned \subseteq Slots
  /\ Executed \subseteq Slots \X Sigs
  /\ Height \in [Slots -> Nat]
  /\ Retain \in Nat
  /\ MaySkip \in BOOLEAN
  /\ MaxBulk \in Nat

VARIABLES
  state,              \* RootedTransactionsState
  transactions_bulk,  \* transactions received since the last metadata
  effects,            \* notifications of the last metadata, not sent yet
  rx,                 \* notifications sent and not received yet
  level,              \* feed: highest level delivered for each slot
  delivered,          \* feed: the pairs of Executed delivered
  early,              \* history: watched since before a slot held them
  notified            \* history: levels sent to rx, per watched signature

rootedVars == <<state, transactions_bulk, effects, rx, level, delivered, early, notified>>

\* slots[s] holds a set of transactions and perhaps a commitment; a slot with
\* neither is absent.  transactions says in which slot a signature is.
State ==
  [txs : [Slots -> SUBSET Sigs],
   commitment : [Slots -> Levels \cup {NoMeta}],
   transactions : [Sigs -> Slots \cup {NoSlot}],
   watched_signatures : SUBSET Sigs]

Notification == [sig : Sigs, commitment : Levels]

RootedTypeOK ==
  /\ state \in State
  /\ transactions_bulk \in Seq(Executed)
  /\ effects \in Seq(Notification)
  /\ rx \in Seq(Notification)
  /\ level \in [Slots -> Levels \cup {NoMeta}]
  /\ delivered \in SUBSET Executed
  /\ early \in SUBSET Sigs
  /\ notified \in [Sigs -> SUBSET Levels]

RootedInit ==
  /\ state = [txs |-> [sl \in Slots |-> {}],
              commitment |-> [sl \in Slots |-> NoMeta],
              transactions |-> [s \in Sigs |-> NoSlot],
              watched_signatures |-> {}]
  /\ transactions_bulk = <<>>
  /\ effects = <<>>
  /\ rx = <<>>
  /\ level = [sl \in Slots |-> NoMeta]
  /\ delivered = {}
  /\ early = {}
  /\ notified = [s \in Sigs |-> {}]

-----------------------------------------------------------------------------
(***************************************************************************)
(* The state machine: process_event maps a state to a state and the        *)
(* notifications it causes, kept here as a pair.                           *)
(***************************************************************************)
Outcome(st, told) == [state |-> st, effects |-> told]

\* Mutant: a transaction that comes after its metadata notifies nobody.
NotifiesLateNever(st, sl, s) == FALSE

\* The slot's commitment is known already, and somebody watches.
NotifiesLate(st, sl, s) ==
  st.commitment[sl] # NoMeta /\ s \in st.watched_signatures

\* process_event(TransactionReceived).
TransactionReceived(out, tx) ==
  LET st == out.state
      sl == tx[1]
      s == tx[2]
  IN IF s \in st.txs[sl] THEN out
     ELSE Outcome(
       [st EXCEPT !.txs[sl] = @ \cup {s}, !.transactions[s] = sl],
       IF NotifiesLate(st, sl, s)
       THEN Append(out.effects, [sig |-> s, commitment |-> st.commitment[sl]])
       ELSE out.effects)

\* Mutant: finalized slots are kept by slot number, as the others are.
RetainsBySlot(st, sl, slot) == st.commitment[sl] = NoMeta \/ sl > slot

\* should_retain_finalized_slot, and the two other cases of the closure.
ShouldRetain(st, sl, slot) ==
  CASE st.commitment[sl] = NoMeta -> TRUE
    [] st.commitment[sl] = Finalized -> Height[sl] + Retain > Height[slot]
    [] OTHER -> sl > slot

\* cleanup_old_slots: what the dropped slots held is not looked up any more.
CleanupOldSlots(st, slot) ==
  LET dropped == {sl \in Slots : ~ShouldRetain(st, sl, slot)}
      removed == UNION {st.txs[sl] : sl \in dropped}
  IN [st EXCEPT
        !.txs = [sl \in Slots |-> IF sl \in dropped THEN {} ELSE @[sl]],
        !.commitment = [sl \in Slots |-> IF sl \in dropped THEN NoMeta ELSE @[sl]],
        !.transactions = [s \in Sigs |-> IF s \in removed THEN NoSlot ELSE @[s]]]

\* process_event(BlockMetaUpdate).  A HashSet gives its members in any order;
\* nothing depends on it.
BlockMetaUpdate(out, slot, commitment) ==
  LET st == [out.state EXCEPT !.commitment[slot] = commitment]
      told == SetToSeq({[sig |-> s, commitment |-> commitment] :
                          s \in st.txs[slot] \cap st.watched_signatures})
  IN Outcome(IF commitment = Finalized THEN CleanupOldSlots(st, slot) ELSE st,
             out.effects \o told)

\* get_transaction_commitment: NoMeta when the signature or its slot is unknown.
GetTransactionCommitment(s) ==
  IF state.transactions[s] = NoSlot THEN NoMeta
  ELSE state.commitment[state.transactions[s]]

-----------------------------------------------------------------------------
\* start_loop, GrpcUpdateMessage::Transaction: the loop is at its select!.
GrpcTransaction(tx) ==
  /\ effects = <<>>
  /\ tx \in Executed \ delivered
  /\ Len(transactions_bulk) < MaxBulk
  /\ transactions_bulk' = Append(transactions_bulk, tx)
  /\ delivered' = delivered \cup {tx}
  /\ UNCHANGED <<state, effects, rx, level, early, notified>>

Feed == INSTANCE CommitmentFeed WITH Slots <- Slots, level <- level

\* What the feed can say next about slot sl.
MayReach(sl, commitment) ==
  /\ Feed!MayEmit(sl, commitment)
  /\ MaySkip \/ commitment = level[sl] + 1
  /\ sl \in Abandoned => commitment = Processed

\* start_loop, GrpcUpdateMessage::BlockMeta: the events, under the lock.
GrpcBlockMeta(sl, commitment) ==
  /\ effects = <<>>
  /\ MayReach(sl, commitment)
  /\ LET buffered == FoldLeft(TransactionReceived, Outcome(state, <<>>), transactions_bulk)
         out == BlockMetaUpdate(buffered, sl, commitment)
     IN state' = out.state /\ effects' = out.effects
  /\ transactions_bulk' = <<>>
  /\ level' = [level EXCEPT ![sl] = commitment]
  /\ UNCHANGED <<rx, delivered, early, notified>>

\* One send of the loop over the effects, outside the lock.
NotifyWatcher ==
  /\ effects # <<>>
  /\ effects' = Tail(effects)
  /\ rx' = Append(rx, Head(effects))
  /\ notified' = [notified EXCEPT ![Head(effects).sig] = @ \cup {Head(effects).commitment}]
  /\ UNCHANGED <<state, transactions_bulk, level, delivered, early>>

Held(s) == \E sl \in Slots : s \in state.txs[sl]

\* subscribe_signature.
SubscribeSignature(s) ==
  /\ state' = [state EXCEPT !.watched_signatures = @ \cup {s}]
  /\ IF s \in state.watched_signatures THEN UNCHANGED <<early, notified>>
     ELSE /\ early' = IF Held(s) THEN early ELSE early \cup {s}
          /\ notified' = [notified EXCEPT ![s] = {}]

\* unsubscribe_signature, for a set of signatures.
UnsubscribeSignatures(S) ==
  /\ state' = [state EXCEPT !.watched_signatures = @ \ S]
  /\ early' = early \ S

\* recv, by the subscriber.
Recv ==
  /\ rx # <<>>
  /\ rx' = Tail(rx)

-----------------------------------------------------------------------------
\* The receiver alone, with a subscriber that does anything.
RootedNext ==
  \/ \E tx \in Executed : GrpcTransaction(tx)
  \/ \E sl \in Slots, commitment \in Levels : GrpcBlockMeta(sl, commitment)
  \/ NotifyWatcher
  \/ \E s \in Sigs :
       \/ /\ s \notin state.watched_signatures
          /\ SubscribeSignature(s)
          /\ UNCHANGED <<transactions_bulk, effects, rx, level, delivered>>
       \/ /\ s \in state.watched_signatures
          /\ UnsubscribeSignatures({s})
          /\ UNCHANGED <<transactions_bulk, effects, rx, level, delivered, notified>>
  \/ Recv /\ UNCHANGED <<state, transactions_bulk, effects, level, delivered, early, notified>>

RootedSpec == RootedInit /\ [][RootedNext]_rootedVars

-----------------------------------------------------------------------------
\* The notification of a level is on its way from the locked update to rx.
Unsent(s, commitment) ==
  \E i \in DOMAIN effects : effects[i] = [sig |-> s, commitment |-> commitment]

\* Whatever the order of transaction and metadata, a signature watched before
\* its transaction was processed has been told the level of every slot that
\* holds it, or the receiver's loop is just sending it, although subscriptions
\* change between the unlock and the sends (and the state is well-typed).
EveryLevelNotified ==
  /\ RootedTypeOK
  /\ \A s \in early, sl \in Slots :
       s \in state.txs[sl] /\ state.commitment[sl] # NoMeta
         => \/ state.commitment[sl] \in notified[s]
            \/ Unsent(s, state.commitment[sl])

\* The pairs the state machine has processed.
Received == delivered \ {transactions_bulk[i] : i \in DOMAIN transactions_bulk}

Reached(sl, s) == <<sl, s>> \in Received /\ level[sl] = Finalized

\* The height of the newest finalized slot is within the retention of sl.
Recent(sl) ==
  \A top \in Slots : level[top] = Finalized => Height[sl] + Retain > Height[top]

\* Another slot has delivered the same transaction.
Forked(sl, s) == \E other \in Slots \ {sl} : <<other, s>> \in Received

\* A transaction executed in a finalized slot is known as finalized while that
\* slot is among the recent ones, so a resubmission of it is recognised, unless
\* the feed has delivered it for a second slot too: transactions keeps the last
\* slot only, and the clean-up of either slot forgets the signature
\* (rooted_transaction_state.rs, process_event and cleanup_old_slots).  Even then
\* what is known is true: the level of a slot that did execute it.
FinalizedStaysKnown ==
  /\ \A s \in Sigs, sl \in Slots :
       Reached(sl, s) /\ Recent(sl) =>
         GetTransactionCommitment(s) = Finalized \/ Forked(sl, s)
  /\ \A s \in Sigs :
       GetTransactionCommitment(s) # NoMeta =>
         \E sl \in Slots : <<sl, s>> \in Received /\ level[sl] = GetTransactionCommitment(s)

=============================================================================
