SPECIFICATION JoinedSpec
CONSTANTS
    Tickets = {t1, t2}
    Actors = {u1}
    Gateways = {g1}
    Ttl = 1
    MaxTime = 0
    Self = g1
    Sockets = {s1, s2}
    Elsewhere = {}
    Channels = {general}
    Calls = {c1, c2}
    Keys = {k1}
    MaxEarly = 1
PROPERTIES
    NothingHangs
INVARIANTS
    WireIsSound
CHECK_DEADLOCK FALSE
