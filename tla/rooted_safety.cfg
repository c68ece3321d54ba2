SPECIFICATION RootedSpec
CONSTANTS
  s1 = s1
  s2 = s2
  Sigs = {s1, s2}
  Slots <- MCSlots
  Abandoned = {2}
  Executed <- TwoForks
  Height <- MCHeight
  Retain = 2
  MaySkip = TRUE
  MaxBulk = 2
INVARIANTS
  EveryLevelNotified
  FinalizedStaysKnown
CHECK_DEADLOCK FALSE
