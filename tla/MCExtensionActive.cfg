CONSTANTS
    x = x
    y = y
    Pages <- MCPages
    Rules <- MCRules
    MIN_DURATION = 1
    IDLE_INTERVAL = 1
    QUEUE_LIMIT = 2
    MaxTime = 2
    MaxChain = 1
    MaxSegments = 2
SYMMETRY MCSymmetry
SPECIFICATION Spec
INVARIANT NeverOverwritten
CHECK_DEADLOCK FALSE
