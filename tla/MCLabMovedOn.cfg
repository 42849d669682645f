CONSTANTS
  MaxRoute = 3
  Catalog <- MCBoards
  Logs <- NoLogs
  Found <- MCFound
  Posts = 1
  Engines = {"browser", "native"}
  Modes = {"optimal"}
  Searches = 1
  Patient = FALSE
SPECIFICATION LabSpec
INVARIANTS RoomRecordsTrue
CHECK_DEADLOCK FALSE
