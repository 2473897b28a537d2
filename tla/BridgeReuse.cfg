SPECIFICATION Spec
CONSTANTS
  Ids = {i1}
  Worktrees = {w1}
  Home = w1
  NoId = NoId
  NoWorktree = NoWorktree
  Session = 2
  PerLane = 2
  Execution = TRUE
  MaxCalls = 3
  MaxConns = 2
  LaneQueue = 2
  MaxLanes = 1
  Fresh = FALSE
  Shutdown = FALSE
  Sends = {"call"}
  MaxRootsFailures = 0
CHECK_DEADLOCK FALSE
INVARIANTS TypeOK OwedOrAnsweredOnce ResultsMatch ChargedIffWorking AbandonedIffDisowned
    NoBystanderCancelled
