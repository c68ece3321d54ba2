SPECIFICATION Spec
CONSTANTS
  Slots <- MCSlots
  MaxStreams = 3
INVARIANTS
  BothReadIsEmitted
  EmittedIsReal
PROPERTIES
  ImplementsFeed
CHECK_DEADLOCK FALSE
