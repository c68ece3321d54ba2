SPECIFICATION Spec
CONSTANTS
  p1 = p1
  p2 = p2
  p3 = p3
  t1 = t1
  t2 = t2
  t3 = t3
  Peers = {p1, p2}
  Txs = {t1, t2}
  RemotePeer <- OneEach
  Stake <- Stake2
  MaxConcurrentConnections = 1
  MaxConnectionAttempts = 2
  MaxSendAttempt = 2
  ChannelCapacity = 1
  Predictable = {p2}
  ConnectOutcomes <- AnyOutcome
  MaxIdentity = 1
INVARIANTS
  TypeOK
  DialOrWorker
  AttemptsUseCurrentIdentity
  WaiterIsListed
  EvictionIsSignalled
PROPERTIES
  ImplementsDelivery
  QueueStaysServed
