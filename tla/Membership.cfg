SPECIFICATION FairSpec
CONSTANTS
  self = self
  a = a
  b = b
  Self = self
  Others <- MCOthers
  Dialable <- MCDialable
  MaxRev = 4
INVARIANTS
  ViewIsARevision
  ConnectionsMatch
PROPERTIES
  EpochNamesMembership
  ViewMovesForward
  ViewConverges
CHECK_DEADLOCK FALSE
