SPECIFICATION FairSpec
CONSTANTS
    Requests = {r1, r2}
    RouteNames = {"issue", "consume", "send", "edit", "delete", "latest"}
    MaxConnections = 1
INVARIANTS
    AnswersAreSound
PROPERTIES
    RequestsEnd
CHECK_DEADLOCK FALSE
