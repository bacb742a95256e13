SPECIFICATION FairSpec

CONSTANTS
    first = first
    second = second
    alice = alice
    bob = bob
    None = None
    Registered <- Two
    Players <- AliceBob

INVARIANTS
    NothingLeft
    HonestReport


    

CHECK_DEADLOCK FALSE
