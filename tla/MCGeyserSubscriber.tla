------------------------- MODULE MCGeyserSubscriber -------------------------
(***************************************************************************)
(* Constant values for the TLC runs of GeyserSubscriber.                   *)
(***************************************************************************)
EXTENDS GeyserSubscriber

MCSlots == 1..2

=============================================================================
