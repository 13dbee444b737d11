SPECIFICATION Spec
CONSTANTS
    Tickets = {t1}
    Actors = {u1}
    Gateways = {g1, g2}
    Ttl = 2
    MaxTime = 2
    Self = g1
    Sockets = {s1, s2}
    Elsewhere = {e1}
    Channels = {general}
    Calls = {}
    Keys = {}
    MaxEarly = 0
SYMMETRY Symmetry
INVARIANTS
    TicketsAreSound
    FirstComerAdmitted
    SessionsAreSound
PROPERTIES
    NoSessionOnceClosing
CHECK_DEADLOCK FALSE
