SPECIFICATION Spec
CONSTANTS
    Windows = {w1, w2}
    NoWindow = NoWindow
    PollInterval = 1
    PollDelay = 0
    IdleThreshold = 3
    suspendGapThreshold = 2
    MaxTime = 5
    MaxSlept = 2
INVARIANTS Disjoint NapsCutRecords IdleBounded InputCredited
CHECK_DEADLOCK FALSE
SYMMETRY MCSymmetry
