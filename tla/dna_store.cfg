SPECIFICATION Spec

CONSTANTS
    c1 = c1
    c2 = c2
    chat = chat
    test = test
    None = None
    Sessions = {c1, c2}
    Sources <- Distinct
    Length <- Lengths
    MaxRequests = 4
    Faults <- AllFaults

SYMMETRY Symmetry

INVARIANTS
    TypeOK
    FilesHoldTheirDna

PROPERTIES
    StoredStaysStored
    SaveOkMeansStored
