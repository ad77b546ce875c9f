SPECIFICATION Spec
CONSTANTS
  p1 = p1
  p2 = p2
  h1 = h1
  h2 = h2
  settled = settled
  wild = wild
  Planets = {h1, wild}
  Players = {p1}
  Nobody = Nobody
  InitStatus <- MCSmallStatus
  InitOwner <- MCSmallOwner
  Facilities = {"docking_bays"}
  Cabins = {}
  ProjectIds = {a, b}
  Threads = {t1}
  Extras = {1}
  Fee = 1
  Goods = 1
  InitCredits <- MCSmallCredits
  InitStock = 2
  Fields = {"docking_bays"}
  MaxEdits = 0
  Editable = {}
  Deletable = {}
  Removable = {wild}
  MaxLoads = 1
  Loading = {"restart", "reload"}
  NoProject = NoProject
  NoSave = NoSave
CHECK_DEADLOCK FALSE
INVARIANT
  UpgradesNeverLost
PROPERTIES
  LifecycleForward
  ProjectsComplete
