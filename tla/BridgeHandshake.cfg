SPECIFICATION Spec
CONSTANTS
  Ids = {i1, i2}
  Worktrees = {w1}
  Home = w1
  NoId = NoId
  NoWorktree = NoWorktree
  Session = 2
  PerLane = 2
  Execution = FALSE
  MaxCalls = 3
  MaxConns = 2
  LaneQueue = 1
  MaxLanes = 1
  Fresh = TRUE
  Shutdown = FALSE
  Sends = {"initialize", "call", "notification"}
  MaxRootsFailures = 0
SYMMETRY SymmetricIds
INVARIANTS
  InitializedOnce
CHECK_DEADLOCK FALSE
