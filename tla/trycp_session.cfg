SPECIFICATION FairSpec

CONSTANTS
    t1 = t1
    t2 = t2
    dna1 = dna1
    p1 = p1
    None = None
    Tasks = {t1, t2}
    Dnas = {dna1}
    Ports = {p1}
    Tunnels = {"app"}
    MaxCalls = 2
    MaxInbox = 1
    MaxOthers = 1
    OtherAnswers = {"ok"}

INVARIANTS
    TypeOK
    UploadOnce

PROPERTIES
    ImplementsRpc
    EveryCallReturns
    CloseSessionReturns

CHECK_DEADLOCK FALSE
