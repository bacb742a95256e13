SPECIFICATION FairSpec

CONSTANTS
    first = first
    second = second
    alice = alice
    bob = bob
    None = None
    Registered <- One
    Players <- Alice

PROPERTIES
    TestsComplete

CHECK_DEADLOCK FALSE
