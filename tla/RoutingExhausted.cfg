SPECIFICATION Spec
CONSTANTS
  t1 = t1
  t2 = t2
  N = 2
  Threads <- OneCaller
  Home <- OnNode2
  Topologies <- Flaps
  Attempts = 4
  Near = FALSE
  NearTTL = 1
  RpcTimeout = 1
  MaxVal = 1
  MaxTime = 0
  MaxOrphans = 1
  Calls <- SetsOnly
  ReadThrough = FALSE
  MayFail = FALSE
  MayClosePicker = FALSE
  None = None
INVARIANT SetReachesAnOwner
CHECK_DEADLOCK FALSE
