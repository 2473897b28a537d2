SPECIFICATION Spec
CONSTANTS
  Ids = {i1, i2}
  Worktrees = {w1, w2}
  Home = w1
  NoId = NoId
  NoWorktree = NoWorktree
  Session = 2
  PerLane = 1
  Execution = TRUE
  MaxCalls = 2
  MaxConns = 2
  LaneQueue = 1
  MaxLanes = 2
  Fresh = FALSE
  Shutdown = TRUE
  Sends = {"call"}
  MaxRootsFailures = 0
INVARIANTS
  TalliesExact ClosedIsEmpty
PROPERTIES
  ContractKept
SYMMETRY SymmetricIds
CHECK_DEADLOCK FALSE
