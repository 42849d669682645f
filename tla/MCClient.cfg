CONSTANTS
  MaxRoute = 5
  Found <- MCFound
  Asks <- MCAsks
  Posts = 1
  Searches = 2
  Engines = {"browser", "native"}
  Modes = {"fast", "optimal"}
  Rogue <- MCRogue
SPECIFICATION ClientSpec
INVARIANTS NothingLeaks HonestTaken RouteSolves ProofFits
PROPERTIES LateIgnored SearchEnds
CHECK_DEADLOCK FALSE
