SPECIFICATION FairSpec
CONSTANTS
  Ids = {i1}
  Worktrees = {w1}
  Home = w1
  NoId = NoId
  NoWorktree = NoWorktree
  Session = 2
  PerLane = 2
  Execution = TRUE
  MaxCalls = 2
  MaxConns = 2
  LaneQueue = 1
  MaxLanes = 1
  Fresh = FALSE
  Shutdown = FALSE
  Sends = {"call"}
  MaxRootsFailures = 1
INVARIANTS
  NobodyStranded
PROPERTIES
  EveryCallSettles
CHECK_DEADLOCK FALSE
