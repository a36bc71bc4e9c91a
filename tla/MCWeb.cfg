SPECIFICATION Spec
CONSTANTS
    Second = 2
    AppKeys <- MCAppKeys
    Hour = 2
    Day = 12
    DaysPerWeek = 3
    MinChartWindow = 8
    MinBarParts = 6
    SessionMax = 2
    Accounts <- MCAccounts
    Devices = {1, 2}
    Names = {n1, n2, n3}
    Requests = {q1, q2}
    Visitors = {v1, v2}
    CategoryUserLimit = 2
    RecordLimit = 2
    WorkLimit = 1
    PageLimit = 1
    KnownLimit = 5
    Views <- MCViews
    AttemptLimit = 2
    AttemptWindow = 2
    MaxNow = 5
INVARIANTS CountedOnce TimelineHonest CategorySplit ChartTrue DetailTrue PeriodsTile PagesComplete LimitKept AttemptsBounded
SYMMETRY MCSymmetry
CHECK_DEADLOCK FALSE
