SPECIFICATION LimiterSpec
CONSTANTS
    Actors = {a1, a2}
    Syncers = {a3}
    Addresses = {ip}
    ActorCapacity = 1
    AddressCapacity = 2
    SyncCapacity = 1
    Window = 3
    Horizon = 6
SYMMETRY Symmetry
INVARIANTS
    BucketsAreSound
    RetryIsExact
CHECK_DEADLOCK FALSE
