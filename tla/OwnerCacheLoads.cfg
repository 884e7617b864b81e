SPECIFICATION Spec
CONSTANTS
  t1 = t1
  t2 = t2
  t3 = t3
  k1 = k1
  s1 = s1
  s2 = s2
  s3 = s3
  Threads <- ThreeThreads
  Keys <- OneKey
  StateIds <- States3
  Clustered = FALSE
  HasGetter = TRUE
  Calls = {"get", "set", "inv"}
  MayClose = TRUE
  MaxEpoch = 1
  MaxMut = 1
  NoThread = NoThread
  NoResult = NoResult
  NoState = NoState
  NoEntry = NoEntry
  ErrSource = ErrSource
  ErrTopologyChanged = ErrTopologyChanged
  ErrCacheMiss = ErrCacheMiss
SYMMETRY Symmetry3
INVARIANTS
  NoStaleFill
  KeyStatesExact
  ReadsSeeEarlierMutations
  OneSourceLoadPerKey
