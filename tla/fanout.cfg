SPECIFICATION MCSpec
CONSTANTS
  s1 = s1
  s2 = s2
  p1 = p1
  p2 = p2
  p3 = p3
  Sigs = {s1, s2}
  Peers = {p1, p2, p3}
  Leader <- MCLeader
  EpochSlots = 8
  Retention = 4
  UpdateCapacity = 2
  Heard = {6, 9}
  NodeSets <- MCNodeSets
  Named <- MCNamed
  MaxUpdates = 4
  MaxNodeChanges = 1
  Denied <- SomeDenied
  ExtraFwds <- MCExtraFwds
  Capacity = 1
  MaxForwards = 2
INVARIANTS
  ScheduleFollowsSlot
  DeniedNotSent
PROPERTIES
  SlotFollowed
  InflightEnds
CHECK_DEADLOCK FALSE
