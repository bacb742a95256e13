SPECIFICATION Spec

CONSTANTS
    c1 = c1
    c2 = c2
    alice = alice
    bob = bob
    None = None
    Clients = {c1, c2}
    Ids = {alice, bob}
    MaxPids = 6
    FirstPort = 2
    PortSpace = 16
    MaxRequests = 6
    Ops <- AllOps
    Faults <- Crashes
    LairShim = FALSE
    ExclusiveReset = TRUE

SYMMETRY Symmetry

INVARIANTS
    UniqueAdminPorts
    ConfigMatchesRegistry
    OneConductorPerPlayer

PROPERTIES
    AdminCallReachesOwnConductor
    ResetStopsConductors
    ShutdownStopsConductor
