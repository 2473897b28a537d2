SPECIFICATION MCSpec
CONSTANTS
    Names = {n1}
    Docs = Docs
    MaxServers = 2
    Legacies <- MCLegacies
    MaxConns = 2
    MaxAsks = 2
    MaxChanges = 1
    Managers = {d1, d2}
    Sweepers = {d1}
    Callers = {d2}
    Calls = {c1, c2}
    pendingFresh = 1
    MaxClock = 2
    MaxCrashes = 1
    MaxFailures = 1
    RecordLists <- MCInputs
    OpenFiles = {0, 1, 2}
    Budgets = {2}
    evictionWindow = 1
    Dirs <- MCDirs
    Segments = {"a", "b"}
    Stars = "**"
    Patterns <- MCPatterns
    MaxRules = 2
    Ignores <- MCIgnores
    MaxIgnores = 1
    MaxGrowth = 1
CHECK_DEADLOCK FALSE
INVARIANTS  PendingProtects EvictionSound  NoticedIffUncovered
PROPERTIES CondemnsOwnMiss 
