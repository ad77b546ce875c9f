SPECIFICATION ElevatorSpec
CONSTANTS
  Threads = {t1, t2}
  Loads <- MCLoads
  Failing = TRUE
  Removable = TRUE
  InitCabins = 1
  MaxCabins = 2
  CabinCapacity = 2
  MaxStorage = 3
  InitUnits = 2
  MaxBreaks = 2
  Word = 16
CHECK_DEADLOCK FALSE
INVARIANT
  ElevatorTypeOK
PROPERTIES
  GoodsLostOnlyWithoutCabin
  TransfersEnd
