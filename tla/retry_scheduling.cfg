SPECIFICATION FairSpec
CONSTANTS
  s1 = s1
  Sigs = {s1}
  Slots <- MCSlots
  Abandoned = {}
  Executed <- OnlyS1
  Height <- MCHeight
  Retain = 2
  MaySkip = TRUE
  MaxBulk = 1
  Stop = 2
  MaxRetry = 2
  MaxAge = 1
  Blocks <- MCBlocks
  BlockHeight <- MCBlockHeight
  MaxRecent = 4
  MayLag = TRUE
  MaxSubmissions = 2
INVARIANTS
  RecentBlockKnown
  PooledIsTracked
  SendsWithinRetries
  LandedWhileWatchedLeaves
PROPERTIES
  PooledLeaves
