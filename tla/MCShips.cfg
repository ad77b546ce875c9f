SPECIFICATION Spec
CONSTANTS
  p1 = p1
  p2 = p2
  s1 = s1
  s2 = s2
  Players = {p1, p2}
  Stations = {s1, s2}
  Owner <- MCOwner
  a1 = a1
  a2 = a2
  a3 = a3
  ShipIds = {a1, a2, a3}
  Routes <- MCRoutes
  Cargoes = {1}
  Threads = {t1, t2}
  Deletable = {p1}
  Removable = {s1}
  DockingBays = 1
  MaxStorage = 2
  BaseFee = 1
  FeePerUnit = 1
  InitCredits = 2
  InitStock = 1
  InitShips <- MCShips
  MaxBreaks = 1
  NoShip = NoShip
  NoPlayer = NoPlayer
  NoStation = NoStation
CHECK_DEADLOCK FALSE
INVARIANTS
  TypeOK
  BayOverrunBounded
  StorageOverrunBounded
  TimersRun
PROPERTIES
  ShipFollowsSequence
  GoodsMultiplyOnlyByStaleWrite
  GoodsLostOnlyWithoutBay
  NoShipStranded
