SPECIFICATION Spec
CONSTANTS
    Apps = {1, 2}
    Bad <- MCBad
    CacheLimit = 1
    WorkerQueueLimit = 1
    Positive = 1
    Negative = 1
    StateLimit = 1
    Refresh = 2
    QueueLimit = 2
    FlushLimit = 2
    RetryMin = 1
    RetryMax = 2
    RateLimit = 2
    RateWindow = 2
    UserLimit = 2
    Updated = {1}
    MaxNow = 2
    MaxIcon = 2
    MaxFaults = 1
CHECK_DEADLOCK FALSE
INVARIANTS IconsKept LoadsOwned
PROPERTIES WaitsItsTurn
