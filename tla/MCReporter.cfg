SPECIFICATION FairSpec
CONSTANTS
    backwards = backwards
    native = native
    browser = browser
    Segments <- MCSegments
    Unidentified <- MCUnidentified
    Backwards <- MCBackwards
    Replayed <- MCReplayed
    OldPending <- MCOldPending
    Producers = {p1}
    FlushSize = 1
    MaxHeld = 2
    MaxOrphans = 1
INVARIANTS TypeOK NoLoss StoredOnce NoLostWakeup
PROPERTIES FIFO ImplementsDelivery EventuallySettled
