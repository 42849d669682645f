CONSTANTS
  MaxRoute = 40
  MaxDistance = 40
  RepairCrossover = 2
  CorralCap = 6
  PocketBoxes = 8
  PocketNodes = 20
  Depth = 60
  Boards <- MCBoards
  Policies = {TRUE, FALSE}
  PairPops = 30
  KickSlack = 4
  MinNodes = 8
  MinQueue = 8
  NodeCost = 2
  Seeds <- MCSeeds
  Asks <- MCAsks
  Runs = 3
  KickWork = 16
  Doublings = 11
SPECIFICATION PolishSpec
INVARIANTS SidesExact PushesReal EstimateSound PrunesSound PolishedReal JobExact
PROPERTIES RaceFair PolishEnds
CHECK_DEADLOCK FALSE
