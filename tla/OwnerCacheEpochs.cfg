SPECIFICATION FairSpec
CONSTANTS
  t1 = t1
  t2 = t2
  t3 = t3
  k1 = k1
  s1 = s1
  s2 = s2
  s3 = s3
  Threads <- TwoThreads
  Keys <- OneKey
  StateIds <- States2
  Clustered = TRUE
  HasGetter = TRUE
  Calls = {"get", "set", "del"}
  MayClose = FALSE
  MaxEpoch = 2
  MaxMut = 1
  NoThread = NoThread
  NoResult = NoResult
  NoState = NoState
  NoEntry = NoEntry
  ErrSource = ErrSource
  ErrTopologyChanged = ErrTopologyChanged
  ErrCacheMiss = ErrCacheMiss
INVARIANTS
  OldEntriesNeverServed
PROPERTY OperationsReturn
