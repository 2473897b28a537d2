SPECIFICATION MCSpec
CONSTANTS
    Calls = {c1, c2}
    Nobody = Nobody
    Sessions = {1, 2}
    Bodies = 2
    Leavers = {c1}
    LaneQueue = 1
    OutQueue = 1
    Requests = {r1, r2, r3, r4}
    ErrQueue = 2
    Interrupts = TRUE
    Metrics = TRUE
CHECK_DEADLOCK FALSE
INVARIANTS CallersTracked  RepliesKept
PROPERTIES CallersReturn FailureEndsSession
