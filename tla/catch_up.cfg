SPECIFICATION Spec
CONSTANTS
    InitialMessages = 1
    LatestLimit = 1
    SyncLimit = 1
    OlderLimit = 1
    MaxMessages = 4
    MaxOwn = 0
    MaxRevision = 0
    MaxInFlight = 0
    OtherTabs = FALSE
    MaxLost = 0
    MaxDrops = 2
    MaxErrors = 1
    MaxReopens = 0
CHECK_DEADLOCK FALSE
INVARIANTS
    ReadyIsCaughtUp
