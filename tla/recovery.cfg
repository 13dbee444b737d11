SPECIFICATION FairSpec
CONSTANTS
    InitialMessages = 0
    LatestLimit = 1
    SyncLimit = 1
    OlderLimit = 1
    MaxMessages = 2
    MaxOwn = 1
    MaxRevision = 0
    MaxInFlight = 0
    OtherTabs = TRUE
    MaxLost = 1
    MaxDrops = 2
    MaxErrors = 1
    MaxReopens = 0
INVARIANTS
    NoSkippedMessage
    RequestsAreValid
    AnchoredReadyMissesNothing
    WaitersHaveARun
PROPERTIES
    ReadyClosesGaps
    RecoveryEnds
CHECK_DEADLOCK FALSE
