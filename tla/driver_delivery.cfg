SPECIFICATION FairSpec
CONSTANTS
  p1 = p1  p2 = p2  a1 = a1  a2 = a2  t1 = t1  t2 = t2  t3 = t3
  NoAddr = NoAddr
  Peers = {p1, p2}
  Addrs = {a1, a2}
  InitAddr <- Shared
  Txs = {t1, t2, t3}
  RemotePeer <- TwoForP1
  Oversized = {}
  Stake <- MCStake
  MaxConcurrentConnection = 1
  MaxConnectionAttempts = 1
  MaxSendAttempt = 1
  ChannelCapacity = 1
  Predictable = {}
  WorkersMayPanic = FALSE
  MaxIdentity = 0
  MaxVersion = 2
  MaxFaults = 1
PROPERTIES ImplementsDelivery UnusedConnectionsClose
