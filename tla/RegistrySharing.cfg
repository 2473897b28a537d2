SPECIFICATION Spec
CONSTANTS
  Managers = {m1, m2}
  Worktrees = {w1, w2, w3}
  Pids = {p1, p2}
  NumPorts = 2
  SharedServers = 2
  NoManager = NoManager
  NoWorktree = NoWorktree
  MaxStarts = 2
  MaxUses = 0
  MaxCrashes = 0
  Base <- SameBase
SYMMETRY Interchangeable
CHECK_DEADLOCK FALSE
INVARIANTS RegistryConsistent PortsBelong
