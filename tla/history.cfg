SPECIFICATION Spec
CONSTANTS
    InitialMessages = 2
    LatestLimit = 1
    SyncLimit = 1
    OlderLimit = 1
    MaxMessages = 4
    MaxOwn = 1
    MaxRevision = 1
    MaxInFlight = 1
    OtherTabs = TRUE
    MaxLost = 0
    MaxDrops = 1
    MaxErrors = 0
    MaxReopens = 1
INVARIANTS
    IInv
    AcceptedNeverLost
PROPERTIES
    ContentNeverRegresses
    ImplementsStreamView
    ServerIsStreamLog
CHECK_DEADLOCK FALSE
