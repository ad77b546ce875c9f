SPECIFICATION Spec
CONSTANTS
  ore = ore
  metal = metal
  power = power
  mine = mine
  smelter = smelter
  plant = plant
  infra = infra
  Goods = {ore, metal, power}
  Transient = {power}
  Factories = {mine, smelter, plant}
  Extractors = {mine}
  Input <- MCInput
  Output <- MCOutput
  Builders = {mine, infra}
  BuildCost <- MCBuildCost
  Capacity <- MCCapacity
  MaxExtraction <- MCMaxExtraction
  Regeneration <- MCRegeneration
  InitStock = 3
  Potentials <- MCPotentials
  Wants <- MCWants
  Plans <- MCPlans
  Trades <- MCTrades
  Names = {"A", "B"}
  MaxTicks = 2
  MaxTrades = 2
  MaxEdits = 2
  MaxRestarts = 1
  NoEconomy = NoEconomy
  NoCopy = NoCopy
CHECK_DEADLOCK FALSE
INVARIANT
  EconomyInv
PROPERTIES
  BooksBalance
  TradesKept
  FoundedStaysEmpty
