SPECIFICATION Spec
CONSTANTS
  t1 = t1
  t2 = t2
  t3 = t3
  k1 = k1
  k2 = k2
  Threads <- MCThreads
  Keys <- MCKeys
  Results <- MCResults
  NoThread = NoThread
  NoResult = NoResult
INVARIANTS
  OneExecutionPerKey
  NoOrphanWaiter
  NoFinishedCallInMap
PROPERTY WaitersReturn
