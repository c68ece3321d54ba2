--------------------------- MODULE MCAddrWatcher ---------------------------
(***************************************************************************)
(* Constant values for the TLC runs of AddrWatcher.                        *)
(***************************************************************************)
EXTENDS AddrWatcher

CONSTANTS p1, p2

=============================================================================
