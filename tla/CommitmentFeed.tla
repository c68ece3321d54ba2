--------------------------- MODULE CommitmentFeed ---------------------------
(***************************************************************************)
(* What the consumers of block metadata rely on: for each slot the feed    *)
(* reports commitment levels that only increase, each at most once, and    *)
(* says nothing of a slot below one it has reported as finalized.  A level *)
(* or a whole slot may be missing.                                         *)
(***************************************************************************)
EXTENDS Naturals

CONSTANT Slots

VARIABLE level   \* highest level reported for each slot, 0 for none

Levels == 1..3
Finalized == 3

Init == level = [sl \in Slots |-> 0]

MayEmit(sl, commitment) ==
  /\ commitment > level[sl]
  /\ \A higher \in Slots : higher > sl => level[higher] # Finalized

Emit(sl, commitment) ==
  /\ MayEmit(sl, commitment)
  /\ level' = [level EXCEPT ![sl] = commitment]

Next == \E sl \in Slots, commitment \in Levels : Emit(sl, commitment)

Spec == Init /\ [][Next]_level

=============================================================================
