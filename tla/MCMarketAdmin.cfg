SPECIFICATION Spec
CONSTANTS
  p1 = p1
  p2 = p2
  s1 = s1
  s2 = s2
  Players = {p1, p2}
  Stations = {s1, s2}
  Owner <- MCOwner
  Threads = {t1}
  Prices = {1, 2}
  Quantities = {1, 2}
  MarketPrices <- MCMarketPrices
  NoPrice = NoPrice
  NoRequest = NoRequest
  NoThread = NoThread
  Nobody = Nobody
  NoStation = NoStation
  Removable = {s2}
  Deletable = {p1}
  MaxRestarts = 1
  InitCredits = 3
  InitStock = 2
  MaxOrders = 2
INVARIANT
  MarketInv
PROPERTIES
  CreditsKept
  GoodsKept
