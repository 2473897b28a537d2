SPECIFICATION MCSpec
CONSTANTS
    Streams = {s1, s2}
    MaxBytes = 5
    Limit = 9
    SmallestBuffer = 3
    MaxPart = 2
    EventFrames <- MCEventFrames
    Inputs <- MCInputs
    ValueBytes = 3
    MaxChunk = 3
CHECK_DEADLOCK FALSE
INVARIANTS BudgetKept ParsedInPlace ReadsInOrder
PROPERTIES ClosedReadersEnd
