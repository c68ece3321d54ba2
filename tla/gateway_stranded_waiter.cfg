SPECIFICATION FairSpec
CONSTANTS
  p1 = p1
  p2 = p2
  p3 = p3
  t1 = t1
  t2 = t2
  t3 = t3
  Peers = {p1, p2, p3}
  Txs = {t1, t2, t3}
  RemotePeer <- ThreePeers
  Stake <- Stake3
  MaxConcurrentConnections = 1
  MaxConnectionAttempts = 1
  MaxSendAttempt = 1
  ChannelCapacity = 1
  Predictable = {}
  ConnectOutcomes <- ConnectsOrNot
  MaxIdentity = 0
PROPERTIES EveryTxAnswered
