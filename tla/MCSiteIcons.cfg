SPECIFICATION Spec
CONSTANTS
    s1 = s1
    s2 = s2
    w1 = w1
    w2 = w2
    a = a
    b = b
    Servers = {s1, s2}
    Workers = {w1, w2}
    Home <- MCHome
    MayStall = {w1}
    Sites = {a, b}
    QueueLimit = 2
    UserPendingLimit = 2
    RateLimit = 1
    Window = 3
    DatabaseBudget = 1
    FetchBudget = 1
    ClaimLease = 4
    TransientRetry = 3
    Year = 5
    RowLimit = 1
    MaxTime = 5
    MaxViews = 2
    MaxMishaps = 2
INVARIANTS TypeOK OneFetch
PROPERTY OldFetchesFenced
SYMMETRY MCSymmetry
CHECK_DEADLOCK FALSE
