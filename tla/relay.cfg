SPECIFICATION RelayFairSpec
CONSTANTS
    Sessions = {s1}
    Targets = {channel, thread}
    Requests = {r1, r2, r3}
INVARIANTS
    RelayIsSound
PROPERTIES
    RequestsKeepApart
    RequestsEnd
CHECK_DEADLOCK FALSE
