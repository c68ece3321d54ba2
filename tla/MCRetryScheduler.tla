-------------------------- MODULE MCRetryScheduler --------------------------
(***************************************************************************)
(* Constant values for the TLC runs of RetryScheduler.                     *)
(***************************************************************************)
EXTENDS RetryScheduler

CONSTANT s1

MCSlots == 1..1
MCHeight == [sl \in MCSlots |-> 10 + sl]

\* Slots are skipped: heights grow more slowly.
MCBlocks == {4, 9}
MCBlockHeight == [b \in MCBlocks |-> IF b = 4 THEN 2 ELSE 5]

\* s1 is executed in the only slot.
OnlyS1 == {<<1, s1>>}

=============================================================================
