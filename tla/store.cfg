SPECIFICATION ChannelSpec
CONSTANTS
    Requests = {r1, r2, r3}
    Keys = {k1, k2, k3}
    Channel = channel
    NoKey = noKey
INVARIANTS
    TablesAreSound
    AnswersAgree
PROPERTIES
    ThreadsBeginUnderLiveRoots
    ImplementsStreamLog
    RequestsEnd
CHECK_DEADLOCK FALSE
