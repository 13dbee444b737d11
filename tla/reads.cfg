SPECIFICATION FairSpec
CONSTANTS
    Sizes = {1, 5}
    Limit = 12
    Overhead = 1
    LatestCount = 2
    PageLimits = {2}
    MaxLog = 3
    MaxChanges = 1
    MaxFailures = 1
INVARIANTS
    ReadsAreSound
    ChainsAreSound
PROPERTIES
    ReadsAreAtomic
    ChainsEnd
CHECK_DEADLOCK FALSE
