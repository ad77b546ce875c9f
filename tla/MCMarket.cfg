SPECIFICATION Spec
CONSTANTS
  p1 = p1
  p2 = p2
  s1 = s1
  s2 = s2
  Players = {p1, p2}
  Stations = {s1, s2}
  Owner <- MCOwner
  Threads = {t1, t2}
  Prices = {1, 2}
  Quantities = {1, 2}
  MarketPrices = {2}
  NoPrice = NoPrice
  NoRequest = NoRequest
  NoThread = NoThread
  Nobody = Nobody
  NoStation = NoStation
  Removable = {}
  Deletable = {}
  MaxRestarts = 0
  InitCredits = 4
  InitStock = 2
  MaxOrders = 3
SYMMETRY Symmetry
INVARIANTS
  MarketInv
  TradesWithinLimits
PROPERTIES
  PriceTimePriority
  ImplementsLedger
