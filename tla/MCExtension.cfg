CONSTANTS
    x = x
    y = y
    Pages <- MCPages
    Rules <- MCRules
    MIN_DURATION = 1
    IDLE_INTERVAL = 1
    QUEUE_LIMIT = 1
    MaxTime = 2
    MaxChain = 2
    MaxSegments = 2
SYMMETRY MCSymmetry
SPECIFICATION Spec
INVARIANTS
    NothingLost
    OneStory
    RulesKept
    PollRuns
    RightPage
CHECK_DEADLOCK FALSE
