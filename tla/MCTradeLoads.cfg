SPECIFICATION Spec
CONSTANTS
  RequestIds = {r1}
  Orders <- MCOneOrder
  Grain = 2
  PriceUnit = 2
  Prices = {3}
  Demands = {0, 1}
  Outputs = {0}
  InitCredits = 1
  InitWares = 3
  InitStock = 3
  MaxDemand = 12
  MaxDone = 6
  MaxTicks = 1
  MaxLoads = 1
  Loading = {"restart", "reload"}
  Removable = TRUE
  NoRequest = NoRequest
  NoCopy = NoCopy
  NoSave = NoSave
CHECK_DEADLOCK FALSE
INVARIANT
  TotalRespected
PROPERTY
  TotalsEnd
