SPECIFICATION FairSpec
CONSTANTS
    s1 = s1
    s2 = s2
    w1 = w1
    w2 = w2
    a = a
    b = b
    Servers = {s1}
    Workers = {w1, w2}
    Home <- MCOneHome
    MayStall = {}
    Sites = {a, b}
    QueueLimit = 2
    UserPendingLimit = 2
    RateLimit = 1
    Window = 2
    DatabaseBudget = 1
    FetchBudget = 1
    ClaimLease = 4
    TransientRetry = 2
    Year = 3
    RowLimit = 1
    MaxTime = 3
    MaxViews = 3
    MaxMishaps = 1
INVARIANTS SlotsAccounted RateKept
PROPERTY CloseReturns
CHECK_DEADLOCK FALSE
