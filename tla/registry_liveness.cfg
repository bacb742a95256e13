SPECIFICATION FairSpec

CONSTANTS
    c1 = c1
    c2 = c2
    alice = alice
    bob = bob
    None = None
    Clients = {c1, c2}
    Ids = {alice}
    MaxPids = 3
    FirstPort = 2
    PortSpace = 16
    MaxRequests = 4
    Ops <- Lifecycle
    Faults <- NoFaults
    LairShim = FALSE
    ExclusiveReset = FALSE

PROPERTIES
    EveryRequestAnswered
