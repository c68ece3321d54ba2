--------------------------- MODULE MCQuicGateway ---------------------------
(***************************************************************************)
(* Constant values for the TLC runs of QuicGateway.                        *)
(***************************************************************************)
EXTENDS QuicGateway, TLC

CONSTANTS p1, p2, p3, t1, t2, t3

\* One transaction for each of three peers.
ThreePeers == (t1 :> p1) @@ (t2 :> p2) @@ (t3 :> p3)

\* One transaction for each of two peers.
OneEach == (t1 :> p1) @@ (t2 :> p2)

\* p1 has the lowest stake: it is the first to be evicted.
Stake2 == (p1 :> 1) @@ (p2 :> 2)
Stake3 == (p1 :> 1) @@ (p2 :> 2) @@ (p3 :> 3)

AnyOutcome == {"ok", "connection_error", "other_error", "join_error"}

\* Connection attempts do not panic.
NoTaskPanic == {"ok", "connection_error", "other_error"}

\* Attempts succeed or find the peer gone.
ConnectsOrNot == {"ok", "other_error"}

AlwaysConnects == {"ok"}

=============================================================================
