CONSTANTS
  Boards <- MCBoards
  Routes <- MCRoutes
  MaxRoute = 3
  Found <- MCFound
  Posts = 1
  Modes = {"optimal"}
  Searches = 2
  UndoRun = 2
SPECIFICATION PageSpec
INVARIANTS GameIsReplay AnswersFit CertificatesTrue
CHECK_DEADLOCK FALSE
