SPECIFICATION Spec
CHECK_DEADLOCK FALSE
CONSTANTS
  g1 = g1
  g2 = g2
  n1 = n1
  k1 = k1
  k2 = k2
  Groups = {g1, g2}
  Names = {n1}
  NameOf <- MCNameOf
  Goroutines = {t1, t2}
  Callers = {t1}
  None = None
  Watched = g1
  Keys = {k1, k2}
  Hash <- MCHash
  BitAnd <- MCAnd
  ShardCount = 3
  MaxBytes = 3000
  Counts = {0, 1, 2, 3, 4, 5, 16, 17}
  Sizes = {1, 1023, 1024, 2047, 2048, 2049, 3000, 4095, 4096, 16383, 16385, 40000}
INVARIANTS
  OpenGroupsFindable
  BudgetIsSplit
  ClearRemovesEarlier
  LenIsPlausible
PROPERTIES
  ClosedGroupsLeave
  TickerServesEveryShard
