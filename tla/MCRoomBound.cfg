CONSTANTS
  MaxRoute = 9
  MaxDistance = 40
  RepairCrossover = 2
  CorralCap = 6
  PocketBoxes = 8
  PocketNodes = 20
  Depth = 60
  MaxRoom = 5
  MaxPool = 20
  MaxCuts = 60
  MaxSteps = 800
  TripleCuts = 40
  TripleSteps = 400
  TripleCombos = 60
  WideCuts = 20
  WideSteps = 300
  WideCombos = 20
  WideSpan = 2
  KeyBits = 12
  ScanSize = 8
  MaxValue = 5
  StatesPerNode = 4
  MinCap = 6
  MaxCap = 200
  WorkPerCap = 4
  WideWorkPerCap = 1
  WideDoors = 4
  EnclosedShare = 3
  KeptShare = 6
  Boards <- MCBoards
  Searches <- MCSearches
SPECIFICATION Spec
INVARIANTS CandidatesSealed TablesExact MemoryKept BoundSound
PROPERTIES SumNeverFalls
CHECK_DEADLOCK FALSE
