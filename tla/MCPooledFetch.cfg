SPECIFICATION FairSpec
CONSTANTS
    N = 4
    Workers = {0, 2}
    None = None
    MaxAttempts = 2
    MaxPages = 2
    BackoffCap = 1
    RetryAfterCap = 3
    RetryAfters <- MCRetryAfters
INVARIANTS
    TypeOK
    NothingRunsAfterReturn
PROPERTIES
    ImplementsSerialMap
    HelperReturns
CHECK_DEADLOCK FALSE
