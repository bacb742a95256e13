SPECIFICATION FairSpec

CONSTANTS
    ann = ann
    bob = bob
    None = None
    Batches <- TwoCalls
    range_lo = 1
    range_hi = 4
    Ephemeral <- Chosen
    MaxReleases = 2

INVARIANTS
    TypeOK
    UniquePorts

PROPERTIES
    PortGiven
