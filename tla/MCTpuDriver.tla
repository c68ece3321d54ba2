---------------------------- MODULE MCTpuDriver ----------------------------
(***************************************************************************)
(* Constant values for the TLC runs of TpuDriver.                          *)
(***************************************************************************)
EXTENDS TpuDriver

CONSTANTS p1, p2, a1, a2, t1, t2, t3

\* The two peers share an address at the start, and part ways when one moves.
Shared == [p \in Peers |-> a1]

\* t1 and t2 compete for the queues of p1, t3 is for p2.
TwoForP1 == [t \in Txs |-> IF t = t3 THEN p2 ELSE p1]

MCStake == [p \in Peers |-> IF p = p1 THEN 2 ELSE 1]
=============================================================================
