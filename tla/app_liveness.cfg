SPECIFICATION FairSpec

CONSTANTS
    s1 = s1
    s2 = s2
    p1 = p1
    p2 = p2
    None = None
    Sessions = {s1, s2}
    Ports = {p1}
    Users <- SharedPorts
    MaxRequests = 3
    MaxKeys = 2
    MaxSignals = 0
    Ops <- OpNames
    Faults <- Deaths
    ExclusiveReset = FALSE

INVARIANTS
    FailedCallFreed

PROPERTIES
    EveryRequestReturns
    CallAnswered
