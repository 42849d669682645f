CONSTANTS
  States <- MCStates
  Chunk = 4
  FirstTable = 4
  MaxLimit = 8
  FinalTable <- MCFinalTable
  Boards <- Named
  Start = "s"
  Goals = {"g"}
  Inf = 1000
  Caps <- MCCaps
  MaxRises = 2
  MaxBans = 2
  StageWork = 3
  StageChecks = 6
  Backtracks = 1
  Grant <- Granted
  Modes = {"fast_then_quality_restart"}
  Limits = {2, 4, 5, 8}
  PartialFill = 60
  StageAt = 8
  MinStates = 8
  Declines = FALSE
  EpisodeFloor = 1
  WalkAt = 2
  BuildMin = 3
SPECIFICATION Spec
INVARIANTS QualityBoundSound
