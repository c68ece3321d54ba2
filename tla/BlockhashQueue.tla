--------------------------- MODULE BlockhashQueue ---------------------------
(***************************************************************************)
(* BlockhashQueue (apps/jet/src/blockhash_queue.rs): the heights of recent *)
(* blocks, by blockhash, and of the latest block of a commitment level.    *)
(*                                                                         *)
(* A block is named by its slot.  The queue's task reads the metadata of   *)
(* the geyser subscriber (CommitmentFeed) from a broadcast channel and     *)
(* ends when it lags behind.                                               *)
(***************************************************************************)
EXTENDS Naturals, FiniteSets

CONSTANTS
  Blocks,       \* slots of the blocks the feed may report
  BlockHeight,  \* the height of each of them
  MaxRecent,    \* MAX_RECENT_BLOCKHASHES
  MayLag        \* TRUE: the task may lag behind the feed

ASSUME QueueAssumption ==
  /\ Blocks \subseteq Nat
  /\ BlockHeight \in [Blocks -> Nat]
  /\ MaxRecent \in Nat
  /\ MayLag \in BOOLEAN

VARIABLES
  reported,       \* the feed: highest level reported for each block
  blockmeta_map,  \* commitment of each block in the queue, or 0
  queue_ended     \* the task has ended

queueVars == <<reported, blockmeta_map, queue_ended>>

BlockFeed == INSTANCE CommitmentFeed WITH Slots <- Blocks, level <- reported

QueueTypeOK ==
  /\ reported \in [Blocks -> {0} \cup BlockFeed!Levels]
  /\ blockmeta_map \in [Blocks -> {0} \cup BlockFeed!Levels]
  /\ queue_ended \in BOOLEAN

QueueInit == BlockFeed!Init /\ blockmeta_map = reported /\ queue_ended = FALSE

\* Mutant: finalized blocks are kept by slot, as the others are.
RetainedBySlot(map, b, finalized) == b > finalized

\* The closure of retain: finalized blocks by height, the others by slot.
Retained(map, b, finalized) ==
  IF map[b] = BlockFeed!Finalized
  THEN BlockHeight[b] + MaxRecent > BlockHeight[finalized] ELSE b > finalized

\* A block comes at a level: it is inserted, and a finalized one cleans up.
BlockMeta(b, commitment) ==
  /\ ~queue_ended
  /\ BlockFeed!Emit(b, commitment)
  /\ LET map == [blockmeta_map EXCEPT ![b] = commitment]
     IN blockmeta_map' = IF commitment = BlockFeed!Finalized
          THEN [c \in Blocks |-> IF Retained(map, c, b) THEN map[c] ELSE 0]
          ELSE map
  /\ UNCHANGED queue_ended

QueueLagged ==
  /\ MayLag /\ ~queue_ended
  /\ queue_ended' = TRUE
  /\ UNCHANGED <<reported, blockmeta_map>>

QueueStep == QueueLagged \/ \E b \in Blocks, commitment \in BlockFeed!Levels : BlockMeta(b, commitment)

\* get_block_height: the blocks that have one.
KnownBlocks == {b \in Blocks : blockmeta_map[b] # 0}

\* get_block_height_latest: the greatest height of exactly that level, 0 if none.
LatestHeight(commitment) ==
  LET heights == {BlockHeight[b] : b \in {c \in Blocks : blockmeta_map[c] = commitment}}
  IN IF heights = {} THEN 0 ELSE CHOOSE h \in heights : \A g \in heights : g <= h

-----------------------------------------------------------------------------
\* The queue knows the height of every finalized block that is recent, and of
\* every block reported in a slot after the last finalized one, although slots
\* and heights grow apart: transactions get their deadline from their own
\* blockhash.
RecentBlockKnown ==
  \A b \in Blocks :
    /\ reported[b] # 0
    /\ \A c \in Blocks : reported[c] = BlockFeed!Finalized =>
         \/ c < b
         \/ reported[b] = BlockFeed!Finalized /\ BlockHeight[b] + MaxRecent > BlockHeight[c]
    => b \in KnownBlocks
=============================================================================
