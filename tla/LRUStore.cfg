SPECIFICATION FairSpec
CONSTANTS
  k1 = k1
  k2 = k2
  k3 = k3
  Keys <- ThreeKeys
  KeyLen <- MCKeyLen
  Lengths = {0, 1, 3}
  MaxBytes = 3
  TTLs = {0, 1}
  MaxTime = 2
  NoValue = NoValue
  Miss = Miss
  Forever = Forever
INVARIANTS
  Accounting
  WithinBudget
PROPERTIES
  EvictsLeastRecentlyUsed
  ImplementsLossyStore
  ExpiredEntriesGo
