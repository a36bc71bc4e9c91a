SPECIFICATION DaemonSpec
CONSTANTS
    saved = saved
    native = native
    browser = browser
    tracker = tracker
    h1 = h1
    Segments <- MCSegments
    Unidentified = {}
    Backwards = {}
    Replayed <- MCReplayed
    OldPending <- MCOldPending
    Tracker = tracker
    Handlers <- MCHandlers
    Producers <- MCProducers
    FlushSize = 2
    MaxHeld = 2
    MaxOrphans = 0
INVARIANT ServeWaits
