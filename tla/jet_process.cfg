CONSTANTS
  c1 = c1
  c2 = c2
  i1 = i1
  i2 = i2
  Callers <- MCCallers
  Identities <- MCIdentities
  Initial = i1
  Expected <- MCExpected
  MaxSubscribeAttempts = 2
  MaxSendTransactions = 1
  MaxQuickDisconnects = 2
  BatchSize = 2
  BufferSize = 2
  MaxReconnectAttempts = 2
  MaxConnects = 2
  MaxTxs = 2
  MaxEvents = 4
  MaxFaults = 1
SPECIFICATION MCSpec
INVARIANTS IdentityConsistent SessionSound EventsInOrder
PROPERTY PausedResumes
CHECK_DEADLOCK FALSE
