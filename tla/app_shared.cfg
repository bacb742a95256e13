SPECIFICATION Spec

CONSTANTS
    s1 = s1
    s2 = s2
    p1 = p1
    p2 = p2
    None = None
    Sessions = {s1, s2}
    Ports = {p1, p2}
    Users <- SharedPorts
    MaxRequests = 4
    MaxKeys = 3
    MaxSignals = 1
    Ops <- OpNames
    Faults <- Departures
    ExclusiveReset = TRUE

SYMMETRY Symmetry

INVARIANTS
    ResponseHasId
    PendingIsInFlight
    NoStrayListener

PROPERTIES
    DisconnectSilences
    ResetSilences
