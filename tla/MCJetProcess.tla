---------------------------- MODULE MCJetProcess ----------------------------
\* Two admin calls, two identities one of which is expected, a listener that
\* has room for one task and a Lewis client with batches of two.  The Lewis
\* client shares nothing with the rest but the end of its task, so it runs
\* while the listener is not yet connected and no admin call is made.
EXTENDS JetProcess, TLC

CONSTANTS c1, c2, i1, i2

MCCallers == {c1, c2}
MCIdentities == {i1, i2}
MCExpected == {i1}

LewisApart ==
  \/ process = "exited"
  \/ lewis.pc = "connecting" /\ lewis.n = 0 /\ lewis.attempt = 0
  \/ session.n = 0 /\ \A c \in Callers : call[c].pc = "idle"

MCSpec == Init /\ [][Next /\ LewisApart']_vars /\ Fairness
=============================================================================
