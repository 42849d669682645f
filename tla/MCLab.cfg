CONSTANTS
  MaxRoute = 3
  Catalog <- MCBoards
  Logs <- MCLogs
  Found <- MCFound
  Posts = 1
  Engines = {"browser", "native"}
  Modes = {"optimal"}
  Searches = 2
  Patient = TRUE
SPECIFICATION LabSpec
INVARIANTS RoomRecordsTrue
CHECK_DEADLOCK FALSE
