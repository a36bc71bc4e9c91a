SPECIFICATION Spec
CONSTANTS
    backwards = backwards
    native = native
    browser = browser
    Segments <- MCSegments
    Unidentified <- MCUnidentified
    Backwards <- MCBackwards
    Replayed <- MCReplayed
    OldPending <- MCOldPending
    Producers = {p1}
    FlushSize = 2
    MaxHeld = 2
    MaxOrphans = 1
INVARIANT PersistedSurvive
