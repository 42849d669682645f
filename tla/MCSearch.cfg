CONSTANTS
  States <- MCStates
  Chunk = 4
  FirstTable = 4
  MaxLimit = 8
  FinalTable <- MCFinalTable
  Boards <- MCBoards
  Start = "s"
  Goals = {"g"}
  Inf = 1000
  Caps <- MCCaps
  MaxRises = 2
  MaxBans = 2
  StageWork = 3
  StageChecks = 6
  Backtracks = 1
  Grant <- Grants
  Modes = {"exact", "fast", "fast_then_quality_restart"}
  Limits = {1, 2, 3, 4, 5, 6, 8}
  PartialFill = 60
  StageAt = 2
  MinStates = 2
  Declines = TRUE
  EpisodeFloor = 1
  WalkAt = 2
  BuildMin = 3
SPECIFICATION Spec
INVARIANTS RouteReal GrowthAhead PrunesSound LowerBoundSound ProofSound
  FrontierComplete
PROPERTIES Termination KeepsPromise
