SPECIFICATION DaemonFairSpec
CONSTANTS
    saved = saved
    native = native
    browser = browser
    tracker = tracker
    h1 = h1
    Segments <- MCSegments
    Unidentified = {}
    Backwards = {}
    Replayed <- MCReplayed
    OldPending <- MCOldPending
    Tracker = tracker
    Handlers <- MCHandlers
    Producers <- MCProducers
    FlushSize = 1
    MaxHeld = 1
    MaxOrphans = 0
INVARIANT AckedSurvive
PROPERTIES KeepsReporterContract ShutdownCompletes
