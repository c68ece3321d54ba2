SPECIFICATION FairSpec
CONSTANTS
  p1 = p1
  p2 = p2
  Peers = {p1, p2}
  MaxAddr = 2
  MaxCommands = 1
INVARIANTS
  ChangesAnnounced
  WatchedOrReported
PROPERTIES
  StaleConnectionEnds
