SPECIFICATION Spec
CONSTANTS
    p1 = p1
    p2 = p2
    PathNames = {p1, p2}
    Dirs = {d1, d2}
    Trees = {t1, t2}
    Home = t1
    None = None
    Clients <- MCClients
    ColdQueue = 1
    MaxEpochs = 2
    MaxMoves = 1
CHECK_DEADLOCK FALSE
INVARIANTS MemosSound UnnamedFollowsNamed SpellingFollowsRoute
PROPERTIES EveryCallSettles
