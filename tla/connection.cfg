SPECIFICATION FairSpec
CONSTANTS
    Requests = {r1}
    Channels = {c1}
    Threads = {t1}
    MaxRetries = 1
    MaxSockets = 3
INVARIANTS
    ConnectionIsSound
    
PROPERTIES
    LinkSpec
    AttemptsEnd
