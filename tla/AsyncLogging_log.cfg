CONSTANTS
    NoBuffer = NoBuffer
    DropAt = 2
    MaxFit = 2
    MaxLines = 6
    EarlyTest = FALSE
SPECIFICATION Spec
INVARIANT TypeOK
INVARIANT RefillPossible
INVARIANT NothingLost
INVARIANT StopFlushes
INVARIANT NullOnlyAtStop
PROPERTY ImplementsLogQueue
PROPERTY LineIsWritten
CHECK_DEADLOCK FALSE
