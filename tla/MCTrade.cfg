SPECIFICATION Spec
CONSTANTS
  RequestIds = {r1, r2}
  Orders <- MCThreeOrders
  Grain = 2
  PriceUnit = 2
  Prices = {1, 3}
  Demands = {1}
  Outputs = {1}
  InitCredits = 1
  InitWares = 3
  InitStock = 3
  MaxDemand = 12
  MaxDone = 6
  MaxTicks = 2
  MaxLoads = 0
  Loading = {}
  Removable = FALSE
  NoRequest = NoRequest
  NoCopy = NoCopy
  NoSave = NoSave
CHECK_DEADLOCK FALSE
SYMMETRY Symmetry
INVARIANT
  TradeInv
PROPERTY
  EndedStaysEnded
