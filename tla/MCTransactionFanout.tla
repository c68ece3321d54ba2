------------------------ MODULE MCTransactionFanout ------------------------
(***************************************************************************)
(* Constant values for the TLC run of TransactionFanout.                   *)
(***************************************************************************)
EXTENDS TransactionFanout

CONSTANTS s1, s2, p1, p2, p3

\* Two epochs of two windows each; p1 and p2 lead.
MCLeader == [w \in 0..3 |-> IF w \in {0, 3} THEN p1 ELSE p2]

\* p2 is refused for s1, and p1 for s2.
SomeDenied == {<<s1, p2>>, <<s2, p1>>}

\* With an extra destination, and without.
MCExtraFwds == {<<>>, <<p3>>}

\* The key of p2 may fail to parse.
MCNamed == {{p1, p2, p3}, {p1, p3}}

\* The cluster is followed through MaxUpdates updates as long as nothing is
\* forwarded, and through two of them around transactions.
Apart == transaction_send_set = <<>> \/ cluster.updates <= 2

MCSpec == Init /\ [][Next /\ Apart']_vars /\ Fairness

MCNodeSets == {{p1}, {p1, p2}}

=============================================================================
