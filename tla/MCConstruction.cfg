SPECIFICATION Spec
CONSTANTS
  p1 = p1
  p2 = p2
  h1 = h1
  h2 = h2
  settled = settled
  wild = wild
  Planets = {h1, h2, settled}
  Players = {p1, p2}
  Nobody = Nobody
  InitStatus <- MCInitStatus
  InitOwner <- MCInitOwner
  Facilities = {"docking_bays", "elevator_cabins"}
  Cabins = {"elevator_cabins"}
  ProjectIds = {a, b}
  Threads = {t1, t2}
  Extras = {0}
  Fee = 1
  Goods = 1
  InitCredits <- MCInitCredits
  InitStock = 2
  Fields = {"docking_bays"}
  MaxEdits = 1
  Editable = {h1, settled}
  Deletable = {p2}
  Removable = {}
  MaxLoads = 0
  Loading = {}
  NoProject = NoProject
  NoSave = NoSave
CHECK_DEADLOCK FALSE
SYMMETRY Symmetry
INVARIANT
  ConstructionInv
PROPERTIES
  StationsKept
  FeeLostOnlyForGoods
