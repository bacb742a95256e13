SPECIFICATION Spec

CONSTANTS
    c1 = c1
    c2 = c2
    alice = alice
    bob = bob
    None = None
    Clients = {c1, c2}
    Ids = {alice}
    MaxPids = 6
    FirstPort = 14
    PortSpace = 16
    MaxRequests = 5
    Ops <- AllOps
    Faults <- FaultNames
    LairShim = TRUE
    ExclusiveReset = FALSE

SYMMETRY Symmetry

INVARIANTS
    TypeOK
    NoOrphanConductor
    SignalsOwnChildren
