------------------------- MODULE TransactionFanout -------------------------
(***************************************************************************)
(* TransactionFanout (apps/jet/src/transactions.rs) between the scheduler  *)
(* that submits transactions and the QUIC gateway that answers for them,   *)
(* composed with ClusterTpuInfo, which it asks for the leaders to send to. *)
(*                                                                         *)
(* fwd_tx spawns a task for each transaction that is not in flight.  The   *)
(* task reads the current slot, then the upcoming leaders, then sends one  *)
(* copy after the other into the bounded channel of the gateway.  The loop *)
(* reads the gateway's responses meanwhile.                                *)
(***************************************************************************)
EXTENDS ClusterTpuInfo

CONSTANTS
  Sigs,
  Denied,        \* pairs <<signature, peer>> the shield policies refuse
  ExtraFwds,     \* the values extra_fwd may be configured to
  Capacity,      \* capacity of the gateway's channel
  MaxForwards    \* bound: submissions the loop accepts

ASSUME FanoutAssumption ==
  /\ Denied \subseteq Sigs \X Peers
  /\ ExtraFwds \subseteq Seq(Peers)
  /\ Capacity \in Nat \ {0}

VARIABLES
  extra_fwd,              \* configured: peers that are sent every transaction
  inflight_transactions,
  transaction_send_set,   \* tasks: task id -> task, in order of spawning
  tpu,                    \* the channel to the gateway
  gateway,                \* copies the gateway holds: <<sig, peer>> -> Nat
  responses               \* gateway_response_rx: sets of signatures

vars == <<clusterVars, extra_fwd, inflight_transactions, transaction_send_set, tpu, gateway, responses>>

Copies == Sigs \X Peers

\* fanout_count is 0 until it is read; rest: the copies still to send; sent: some
\* copy was sent.
Task == [sig : Sigs, stage : {"spawned", "counted", "sending", "done"},
         fanout_count : 0..2, rest : Seq(Peers), sent : BOOLEAN]

TypeOK ==
  /\ ClusterTypeOK
  /\ extra_fwd \in ExtraFwds
  /\ inflight_transactions \in SUBSET Sigs
  /\ transaction_send_set \in Seq(Task)
  /\ tpu \in Seq(Copies)
  /\ Len(tpu) <= Capacity
  /\ gateway \in [Copies -> Nat]
  /\ responses \in Seq(SUBSET Sigs)

Init ==
  /\ ClusterInit
  /\ extra_fwd \in ExtraFwds
  /\ inflight_transactions = {}
  /\ transaction_send_set = <<>>
  /\ tpu = <<>>
  /\ gateway = [c \in Copies |-> 0]
  /\ responses = <<>>

-----------------------------------------------------------------------------
Spawned(s) == [sig |-> s, stage |-> "spawned", fanout_count |-> 0, rest |-> <<>>, sent |-> FALSE]

\* fwd_tx of a transaction that is not in flight.
FwdTx(s) ==
  /\ Len(transaction_send_set) < MaxForwards
  /\ s \notin inflight_transactions
  /\ inflight_transactions' = inflight_transactions \cup {s}
  /\ transaction_send_set' = Append(transaction_send_set, Spawned(s))
  /\ UNCHANGED <<clusterVars, extra_fwd, tpu, gateway, responses>>

\* SmartFanout: two destinations from the middle of the leader's window on.
FanoutCount == IF slot % 4 < 2 THEN 1 ELSE 2

\* The task reads the current slot.
TaskCounts(t) ==
  /\ transaction_send_set[t].stage = "spawned"
  /\ transaction_send_set' = [transaction_send_set EXCEPT
       ![t].stage = "counted", ![t].fanout_count = FanoutCount]
  /\ UNCHANGED <<clusterVars, extra_fwd, inflight_transactions, tpu, gateway, responses>>

\* Mutant: the policies are asked of the schedule's first leader only.
AllowedAfterFirst(s, leaders) ==
  IF leaders # <<>> /\ <<s, Head(leaders)>> \in Denied THEN Tail(leaders) ELSE leaders

\* The leaders the policies allow.
Allowed(s, leaders) == Filtered(leaders, {p \in Peers : <<s, p>> \notin Denied})

\* extra_fwd without the peers that are sent a copy as leaders.
Extra(sent) == Filtered(extra_fwd, Peers \ ToSet(sent))

\* The task reads the upcoming leaders.
TaskLooksUp(t) ==
  /\ transaction_send_set[t].stage = "counted"
  /\ LET task == transaction_send_set[t]
         sent == Allowed(task.sig, LeaderTpus(task.fanout_count))
     IN transaction_send_set' = [transaction_send_set EXCEPT
          ![t].stage = "sending",
          ![t].rest = sent \o Extra(sent)]
  /\ UNCHANGED <<clusterVars, extra_fwd, inflight_transactions, tpu, gateway, responses>>

SinkHasRoom == Len(tpu) < Capacity

\* tpu_sink.send(..).await.
TaskSends(t) ==
  /\ transaction_send_set[t].stage = "sending"
  /\ transaction_send_set[t].rest # <<>>
  /\ SinkHasRoom
  /\ LET task == transaction_send_set[t]
     IN /\ tpu' = Append(tpu, <<task.sig, Head(task.rest)>>)
        /\ transaction_send_set' = [transaction_send_set EXCEPT
             ![t].rest = Tail(@), ![t].sent = TRUE]
  /\ UNCHANGED <<clusterVars, extra_fwd, inflight_transactions, gateway, responses>>

\* handle_transaction_sent_result: the task is forgotten.
TaskEnds(t) ==
  /\ transaction_send_set[t].stage = "sending"
  /\ transaction_send_set[t].rest = <<>>
  /\ transaction_send_set' = [transaction_send_set EXCEPT
       ![t].stage = "done", ![t].fanout_count = 0]
  /\ UNCHANGED <<clusterVars, extra_fwd, inflight_transactions, tpu, gateway, responses>>

\* Mutant: only a TxDrop of several transactions takes them out of flight.
AnsweredAlone(S) == IF Cardinality(S) = 1 THEN {} ELSE S

\* The signatures a TxSent, TxFailed or TxDrop response takes out of flight.
Answered(S) == S

\* handle_gateway_response.
HandleGatewayResponse ==
  /\ responses # <<>>
  /\ inflight_transactions' = inflight_transactions \ Answered(Head(responses))
  /\ responses' = Tail(responses)
  /\ UNCHANGED <<clusterVars, extra_fwd, transaction_send_set, tpu, gateway>>

(***************************************************************************)
(* The gateway, as the fanout knows it.                                    *)
(***************************************************************************)
GatewayTakes ==
  /\ tpu # <<>>
  /\ gateway' = [gateway EXCEPT ![Head(tpu)] = @ + 1]
  /\ tpu' = Tail(tpu)
  /\ UNCHANGED <<clusterVars, extra_fwd, inflight_transactions, transaction_send_set, responses>>

\* TxSent and TxFailed answer for one copy, TxDrop for what is queued for a peer.
GatewayAnswers(p, S) ==
  /\ S # {}
  /\ \A s \in S : gateway[<<s, p>>] > 0
  /\ gateway' = [c \in Copies |->
       IF c[2] = p /\ c[1] \in S THEN gateway[c] - 1 ELSE gateway[c]]
  /\ responses' = Append(responses, S)
  /\ UNCHANGED <<clusterVars, extra_fwd, inflight_transactions, transaction_send_set, tpu>>

-----------------------------------------------------------------------------
TaskStep(t) == TaskCounts(t) \/ TaskLooksUp(t) \/ TaskSends(t) \/ TaskEnds(t)

Next ==
  \/ ClusterStep /\ UNCHANGED <<extra_fwd, inflight_transactions, transaction_send_set, tpu, gateway, responses>>
  \/ \E s \in Sigs : FwdTx(s)
  \/ \E t \in DOMAIN transaction_send_set : TaskStep(t)
  \/ HandleGatewayResponse
  \/ GatewayTakes
  \/ \E p \in Peers, S \in SUBSET Sigs : GatewayAnswers(p, S)

Spec == Init /\ [][Next]_vars

\* Tasks and the loops run.  Nothing is assumed of the gateway, which may take
\* no copy and answer for none (as the drain of an identity update does), and
\* nothing of the RPC node.
Fairness ==
  /\ WF_vars(FollowStep /\ UNCHANGED <<extra_fwd, inflight_transactions, transaction_send_set, tpu,
                                       gateway, responses>>)
  /\ \A t \in 1..MaxForwards :
       WF_vars(t \in DOMAIN transaction_send_set /\ TaskStep(t))
  /\ WF_vars(HandleGatewayResponse)

FairSpec == Spec /\ Fairness

-----------------------------------------------------------------------------
InChannel(c) == Cardinality({i \in DOMAIN tpu : tpu[i] = c})

\* No copy for a peer the policies refuse is ever on its way, unless the peer
\* is configured as an extra destination: whatever leaders come, and whatever
\* slot they are looked up at (and the state is well-typed).
DeniedNotSent ==
  /\ TypeOK
  /\ \A c \in Denied : c[2] \notin ToSet(extra_fwd) => gateway[c] = 0 /\ InChannel(c) = 0

\* A copy of s is with the gateway, or on its way to it.
Awaited(s) ==
  \/ \E p \in Peers : gateway[<<s, p>>] > 0 \/ InChannel(<<s, p>>) > 0
  \/ \E t \in DOMAIN transaction_send_set :
       transaction_send_set[t].sig = s /\ transaction_send_set[t].rest # <<>>

\* The task of s found no destination: no leader is known, reachable and allowed,
\* and no extra one is configured (fwd_tx takes nothing back then).
SentToNobody(s) ==
  \E t \in DOMAIN transaction_send_set :
    LET task == transaction_send_set[t]
    IN task.sig = s /\ task.stage = "done" /\ ~task.sent

\* A transaction leaves the in-flight set, so that it can be forwarded again:
\* the first response for any of its copies takes it out, however tasks, full
\* channel and responses interleave.  It stays only while the gateway owes an
\* answer for ever, or if it was sent to nobody.
InflightEnds ==
  \A s \in Sigs :
    s \in inflight_transactions ~>
      s \notin inflight_transactions \/ SentToNobody(s) \/ []Awaited(s)

=============================================================================
