SPECIFICATION ServerSpec
CHECK_DEADLOCK FALSE
CONSTANTS
  Requests = {r1, r2}
  MayFail = TRUE
  MayCrash = TRUE
INVARIANTS
  ServingIsAdvertised
  StopDeregistersFirst
PROPERTIES
  SuccessorKeepsKey
  AddressLeavesEtcd
  ShutdownCompletes
