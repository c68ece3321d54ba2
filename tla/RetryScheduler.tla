--------------------------- MODULE RetryScheduler ---------------------------
(***************************************************************************)
(* TransactionRetrySchedulerRuntime (apps/jet/src/transactions.rs)         *)
(* composed with the receiver that tells it which transactions landed and  *)
(* with the queue that tells it the heights of blocks.                     *)
(*                                                                         *)
(* The scheduler is one task; the receiver's loop is another one and moves *)
(* between any two accesses of the scheduler to the shared state machine.  *)
(* Time is abstract: a tick finds some prefix of insertion_order, which is *)
(* in order of time, older than retry_rate.                                *)
(***************************************************************************)
EXTENDS RootedTransactions, BlockhashQueue

CONSTANTS
  Stop,            \* stop_send_on_commitment
  MaxRetry,        \* max_retry
  MaxAge,          \* max_processing_age, in blocks
  MaxSubmissions   \* bound: submissions of each transaction

ASSUME SchedulerAssumption ==
  /\ Stop \in Levels
  /\ MaxRetry \in Nat
  /\ MaxAge \in Nat
  /\ MaxSubmissions \in Nat

VARIABLES
  last_known_block_height,
  tx_pool,                    \* signatures in the pool
  leftover_attempt,           \* per signature, meaningful in the pool
  block_height_deadline_map,  \* set of <<last valid height, signature>>
  insertion_order,            \* signatures in order of (re)insertion
  due,                        \* entries the present tick has still to pop
  adding,                     \* submission between its check and subscription
  submissions,                \* bound: submissions so far, per signature
  sent,                       \* transactions given to response_sink
  allowed                     \* history: sends the submissions asked for

schedulerVars == <<last_known_block_height, tx_pool, leftover_attempt,
                   block_height_deadline_map, insertion_order, due, adding,
                   submissions, sent, allowed>>

vars == <<rootedVars, queueVars, schedulerVars>>

NoTx == <<>>
Submission == [sig : Sigs, max_retries : 0..MaxRetry, checked : BOOLEAN, last_valid : Nat]

TypeOK ==
  /\ RootedTypeOK
  /\ QueueTypeOK
  /\ last_known_block_height \in Nat
  /\ tx_pool \in SUBSET Sigs
  /\ leftover_attempt \in [Sigs -> Nat]
  /\ block_height_deadline_map \in SUBSET (Nat \X Sigs)
  /\ insertion_order \in Seq(Sigs)
  /\ due \in 0..Len(insertion_order)
  /\ adding \in Submission \cup {NoTx}
  /\ submissions \in [Sigs -> 0..MaxSubmissions]
  /\ sent \in [Sigs -> Nat]
  /\ allowed \in [Sigs -> Nat]

Init ==
  /\ RootedInit
  /\ QueueInit
  /\ last_known_block_height = 0
  /\ tx_pool = {}
  /\ leftover_attempt = [s \in Sigs |-> 0]
  /\ block_height_deadline_map = {}
  /\ insertion_order = <<>>
  /\ due = 0
  /\ adding = NoTx
  /\ submissions = [s \in Sigs |-> 0]
  /\ sent = [s \in Sigs |-> 0]
  /\ allowed = [s \in Sigs |-> 0]

\* The scheduler task is at its select!.
Idle == due = 0 /\ adding = NoTx

SaturatingSub(a, b) == IF a > b THEN a - b ELSE 0
AtLeastOne(n) == IF n = 0 THEN 1 ELSE n

-----------------------------------------------------------------------------
\* The deadline of a transaction: the height of its blockhash, or the current
\* one when the queue does not know it, plus the age.
LastValidHeights ==
  {height + MaxAge : height \in {BlockHeight[b] : b \in KnownBlocks} \cup {last_known_block_height}}

IsLanded(s) == GetTransactionCommitment(s) >= Stop

\* add_new_transaction reads the confirmed height, which is 0 when the queue
\* holds no block of just that level.
AddReads(s, max_retries) ==
  /\ Idle
  /\ submissions[s] < MaxSubmissions
  /\ submissions' = [submissions EXCEPT ![s] = @ + 1]
  /\ last_known_block_height' = LatestHeight(Confirmed)
  /\ adding' = [sig |-> s, max_retries |-> max_retries, checked |-> FALSE, last_valid |-> 0]
  /\ UNCHANGED <<rootedVars, queueVars, tx_pool, leftover_attempt,
                 block_height_deadline_map, insertion_order, due, sent, allowed>>

\* It reads the height of the blockhash and looks the commitment up.
AddChecks(last_valid) ==
  /\ adding # NoTx /\ ~adding.checked
  /\ adding' = IF last_valid < last_known_block_height \/ IsLanded(adding.sig) THEN NoTx
               ELSE [adding EXCEPT !.checked = TRUE, !.last_valid = last_valid]
  /\ UNCHANGED <<rootedVars, queueVars, last_known_block_height, tx_pool, leftover_attempt,
                 block_height_deadline_map, insertion_order, due, submissions, sent, allowed>>

\* Mutant: the first send is not counted.
LeftoverUncounted(max_retries) == max_retries

\* -1 because the transaction is sent immediately.
Leftover(max_retries) == SaturatingSub(max_retries, 1)

\* The rest of add_new_transaction.
AddSubscribes ==
  /\ adding # NoTx /\ adding.checked
  /\ LET s == adding.sig
     IN /\ SubscribeSignature(s)
        /\ tx_pool' = tx_pool \cup {s}
        /\ leftover_attempt' = [leftover_attempt EXCEPT ![s] = Leftover(adding.max_retries)]
        /\ block_height_deadline_map' =
             block_height_deadline_map \cup {<<adding.last_valid, s>>}
        /\ sent' = [sent EXCEPT ![s] = @ + 1]
        /\ insertion_order' = Append(insertion_order, s)
        /\ allowed' = [allowed EXCEPT ![s] = @ + AtLeastOne(adding.max_retries)]
  /\ adding' = NoTx
  /\ UNCHANGED <<transactions_bulk, effects, rx, level, delivered, queueVars,
                 last_known_block_height, due, submissions>>

OutdatedHeight == SaturatingSub(last_known_block_height, MaxAge)

\* gc_deadline_map: split_off keeps the heights from OutdatedHeight on.
Expired == {entry \in block_height_deadline_map : entry[1] < OutdatedHeight}

\* Mutant: transactions leave the deadline map and stay in the pool.
PoolAfterGcKept(expired) == tx_pool

\* tx_pool.remove for every expired signature.
PoolAfterGc(expired) == tx_pool \ {entry[2] : entry \in expired}

\* interval.tick(): gc_deadline_map, then resend_non_landed_tx of k entries.
Tick(k) ==
  /\ Idle
  /\ block_height_deadline_map' = block_height_deadline_map \ Expired
  /\ tx_pool' = PoolAfterGc(Expired)
  /\ UnsubscribeSignatures({entry[2] : entry \in Expired})
  /\ due' = k
  /\ UNCHANGED <<transactions_bulk, effects, rx, level, delivered, notified, queueVars,
                 last_known_block_height, leftover_attempt, insertion_order,
                 adding, submissions, sent, allowed>>

\* Mutant: a transaction without attempts left waits for its landing.
GivesUpWaiting(s) ==
  [tx_pool |-> tx_pool,
   insertion_order |-> IF s \in tx_pool THEN Append(Tail(insertion_order), s)
                       ELSE Tail(insertion_order)]

\* ReachedMaxRetries (or the transaction has left the pool already).
GivesUp(s) ==
  [tx_pool |-> tx_pool \ {s}, insertion_order |-> Tail(insertion_order)]

\* One turn of the loop of resend_non_landed_tx.
Resend ==
  /\ due > 0
  /\ due' = due - 1
  /\ LET s == Head(insertion_order)
         again == s \in tx_pool /\ leftover_attempt[s] > 0
     IN /\ insertion_order' = IF again THEN Append(Tail(insertion_order), s)
                              ELSE GivesUp(s).insertion_order
        /\ leftover_attempt' = [leftover_attempt EXCEPT
                                  ![s] = IF again THEN SaturatingSub(@, 1) ELSE @]
        /\ sent' = [sent EXCEPT ![s] = IF again THEN @ + 1 ELSE @]
        /\ tx_pool' = IF again THEN tx_pool ELSE GivesUp(s).tx_pool
  /\ UNCHANGED <<rootedVars, queueVars, last_known_block_height,
                 block_height_deadline_map, adding, submissions, allowed>>

\* Mutant: only a level above the one asked for stops the resending.
StopsAbove(commitment) == commitment > Stop

\* commitment == self.stop_send_on_commitment.
Stops(commitment) == commitment = Stop

\* rooted_transactions.recv() and handle_tx_commitment_update.
HandleTxCommitmentUpdate ==
  /\ Idle
  /\ Recv
  /\ tx_pool' = IF Stops(Head(rx).commitment) THEN tx_pool \ {Head(rx).sig} ELSE tx_pool
  /\ UNCHANGED <<state, transactions_bulk, effects, level, delivered, early, notified,
                 queueVars, last_known_block_height, leftover_attempt,
                 block_height_deadline_map, insertion_order, due, adding,
                 submissions, sent, allowed>>

-----------------------------------------------------------------------------
ReceiverStep ==
  /\ \/ \E tx \in Executed : GrpcTransaction(tx)
     \/ \E sl \in Slots, commitment \in Levels : GrpcBlockMeta(sl, commitment)
     \/ NotifyWatcher
  /\ UNCHANGED <<queueVars, schedulerVars>>

Next ==
  \/ QueueStep /\ UNCHANGED <<rootedVars, schedulerVars>>
  \/ ReceiverStep
  \/ \E s \in Sigs, max_retries \in 0..MaxRetry : AddReads(s, max_retries)
  \/ \E last_valid \in LastValidHeights : AddChecks(last_valid)
  \/ AddSubscribes
  \/ \E k \in 0..Len(insertion_order) : Tick(k)
  \/ Resend
  \/ HandleTxCommitmentUpdate

Spec == Init /\ [][Next]_vars

\* The task runs, the interval ticks for ever and each entry is in the end
\* older than retry_rate.  Nothing is assumed of the receiver.
Fairness ==
  /\ WF_vars(AddSubscribes \/ \E last_valid \in LastValidHeights : AddChecks(last_valid))
  /\ WF_vars(Resend)
  /\ WF_vars(\E k \in 1..Len(insertion_order) : Tick(k))

FairSpec == Spec /\ Fairness

-----------------------------------------------------------------------------
\* A transaction of the pool is scheduled, has a deadline and is watched, in
\* spite of entries of former submissions of the same transaction.
PooledIsTracked ==
  \A s \in tx_pool :
    /\ \E i \in DOMAIN insertion_order : insertion_order[i] = s
    /\ \E entry \in block_height_deadline_map : entry[2] = s
    /\ s \in state.watched_signatures

\* Resubmissions and the duplicate entries they leave in insertion_order never
\* make a transaction be sent more often than its submissions asked for (and the
\* state is well-typed: no counter passes its limit).
SendsWithinRetries == TypeOK /\ \A s \in Sigs : sent[s] <= allowed[s]

\* The landing is on its way: in rx, or still with the receiver's loop.
StopPending(s) ==
  Unsent(s, Stop) \/ \E i \in DOMAIN rx : rx[i] = [sig |-> s, commitment |-> Stop]

\* A transaction whose slot is at the level asked for, and which was watched
\* before, is out of the pool as soon as the scheduler has read that it landed,
\* however landings, resubmissions and lookups interleave
\* (handle_tx_commitment_update, add_new_transaction).
LandedWhileWatchedLeaves ==
  \A s \in tx_pool \cap early : GetTransactionCommitment(s) = Stop => StopPending(s)

\* Every transaction leaves the pool: it lands, expires or runs out of retries.
PooledLeaves == \A s \in Sigs : s \in tx_pool ~> s \notin tx_pool

=============================================================================
