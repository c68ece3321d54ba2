----------------------------- MODULE TxDelivery -----------------------------
(***************************************************************************)
(* What a submitter may rely on when it hands transactions to a sender,    *)
(* whatever connections, queues, retries and rescues lie behind it: a      *)
(* transaction is held by the sender until it is answered, once; it is     *)
(* never answered and kept, never kept twice.  The sender may end an epoch *)
(* (an identity, a worker that dies, the session): only what it holds at   *)
(* that moment may be abandoned to be drained, and only what is abandoned  *)
(* may disappear without an answer.                                        *)
(*                                                                         *)
(* QuicGateway and TpuDriver implement it.                                 *)
(***************************************************************************)
CONSTANT Txs

VARIABLES
  status,   \* of each transaction
  epoch     \* changes when the sender gives something up

\* The steps a transaction may take in any epoch.
Moves == {<<"new", "held">>, <<"new", "answered">>, <<"held", "answered">>,
          <<"abandoned", "answered">>, <<"abandoned", "discarded">>}

\* The steps it may take when an epoch ends.
Losses == {<<"held", "abandoned">>, <<"held", "discarded">>}

Init == status = [t \in Txs |-> "new"]

\* Any number of transactions move on, for instance a whole queue that is
\* answered at once.
Next ==
  LET before == status
      after == status'
  IN \A t \in Txs :
       \/ after[t] = before[t]
       \/ <<before[t], after[t]>> \in Moves
       \/ epoch' # epoch /\ <<before[t], after[t]>> \in Losses

Spec == Init /\ [][Next]_<<status, epoch>>
=============================================================================
