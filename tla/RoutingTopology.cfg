SPECIFICATION FairSpec
CONSTANTS
  t1 = t1
  t2 = t2
  N = 3
  Threads <- OneCaller
  Home <- OnNode3
  Topologies <- Moves
  Attempts = 3
  Near = TRUE
  NearTTL = 1
  RpcTimeout = 1
  MaxVal = 1
  MaxTime = 0
  MaxOrphans = 1
  Calls <- AllOps
  ReadThrough = TRUE
  MayFail = TRUE
  MayClosePicker = TRUE
  None = None
INVARIANTS
  SuccessIsTheOwners
  AnswersAreCurrent
  NearHitsAreOfTheEpoch
PROPERTY OperationsReturn
CHECK_DEADLOCK FALSE
