SPECIFICATION RingSpec
CONSTANTS
  N = 3
  Replicas = 2
  MaxHash = 3
  MaxArgs = 2
INVARIANTS
  RingIsCanonical
  OwnerIsNearest
PROPERTY MinimalRemap
