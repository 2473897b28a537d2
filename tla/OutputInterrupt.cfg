SPECIFICATION Spec
CONSTANTS
    Requests = {r1, r2}
    OutQueue = 1
    ErrQueue = 2
    LaneQueue = 1
    Interrupts = TRUE
    Metrics = FALSE
PROPERTY CancellationEndsSession
CHECK_DEADLOCK FALSE
