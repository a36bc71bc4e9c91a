SPECIFICATION Spec
CONSTANTS
    Paths = {1, 2}
    PerSecond = 2
    Threshold = 3
    Cap = 4
    MaxPipe = 2
INVARIANTS IdleTrue
PROPERTIES RightWindow Recovers
CHECK_DEADLOCK FALSE
