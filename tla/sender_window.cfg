SPECIFICATION Spec
CONSTANTS
  a = a
  b = b
  c = c
  none = none
  addr1 = addr1
  addr2 = addr2
  Senders = {s1}
  Leaders = {a, b, c, none}
  Default = none
  LeaderOf <- MCLeaderOf
  Produced = {7, 16}
  SlotsPerEpoch = 8
  FanoutSlots = 6
  Lookahead = 2
  Topologies <- MCTopologies
  Capacity = 1
  RpcMayLag = TRUE
  MaxSends = 2
  MaxFaults = 1
INVARIANTS
  SendsToEachLeader
CHECK_DEADLOCK FALSE
