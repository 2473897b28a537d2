SPECIFICATION Spec
CONSTANTS
  Managers = {m1, m2}
  Worktrees = {w1}
  Pids = {p1, p2}
  NumPorts = 1
  SharedServers = 1
  NoManager = NoManager
  NoWorktree = NoWorktree
  MaxStarts = 2
  MaxUses = 1
  MaxCrashes = 1
  Base <- SameBase
SYMMETRY Interchangeable
CHECK_DEADLOCK FALSE
INVARIANTS SignalsSound NoOrphan OneServer
PROPERTIES SignalledCondemned NeverForgetsLive MarkIsFinal
