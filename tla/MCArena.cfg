CONSTANTS
  States = {s1, s2, s3, s4}
  Chunk = 4
  FirstTable = 4
  MaxLimit = 4
  MaxStored = 4
  FinalTable <- MCFinalTable
  Limits = {1, 3, 4}
  Gs = {0, 1, 2}
  Estimate <- MCEstimate
  Hs = {1}
  Weights = {1, 2}
SPECIFICATION Spec
INVARIANTS BoundIsLive OneLivePerState ProbesEnd RoomAhead
SYMMETRY Positions
