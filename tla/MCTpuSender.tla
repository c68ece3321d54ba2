----------------------------- MODULE MCTpuSender -----------------------------
(* Epochs of eight slots, four groups of leaders in two of them: a window    *)
(* that crosses an epoch, a leader without address, two that share one.      *)
EXTENDS TpuSender

CONSTANTS a, b, c, none, addr1, addr2

MCLeaderOf == [g \in 0..38 |-> CASE g = 1 -> a [] g = 2 -> b [] g = 3 -> c [] g = 4 -> b [] OTHER -> none]

MCTopologies ==
  {[l \in {a, b, c} |-> IF l = c THEN addr2 ELSE addr1], [l \in {a, c} |-> addr2]}
=============================================================================
