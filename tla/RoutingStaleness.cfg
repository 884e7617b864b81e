SPECIFICATION Spec
CONSTANTS
  t1 = t1
  t2 = t2
  N = 3
  Threads <- TwoCallers
  Home <- OnNodes23
  Topologies <- Stable3
  Attempts = 4
  Near = TRUE
  NearTTL = 1
  RpcTimeout = 1
  MaxVal = 1
  MaxTime = 3
  MaxOrphans = 1
  Calls <- OneSetsOneDeletes
  ReadThrough = FALSE
  MayFail = TRUE
  MayClosePicker = FALSE
  None = None
INVARIANTS
  BoundedStaleness
PROPERTY InvalidationSparesOwner
