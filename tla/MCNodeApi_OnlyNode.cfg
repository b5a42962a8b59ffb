CONSTANTS
    MaxAttempts = 2
    IsFirst = FALSE
    FixedPort = FALSE
    Frames <- MCFrames
    WellFormed <- MCWellFormed
    ConnCap = 1
    MaxHandled = 1
SPECIFICATION Spec
INVARIANT ReturnedNodeIsTheOnlyNode
CHECK_DEADLOCK FALSE
