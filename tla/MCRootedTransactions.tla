------------------------ MODULE MCRootedTransactions ------------------------
(***************************************************************************)
(* Constant values for the TLC runs of RootedTransactions.                 *)
(***************************************************************************)
EXTENDS RootedTransactions

CONSTANTS s1, s2

MCSlots == 1..3
MCHeight == [sl \in MCSlots |-> 10 + sl]

\* s2 is executed in the slot that is abandoned and again in the next one.
TwoForks == {<<1, s1>>, <<2, s2>>, <<3, s2>>}

=============================================================================
