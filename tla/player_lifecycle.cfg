SPECIFICATION FairSpec

CONSTANTS
    scenario = scenario
    timer = timer
    helper = helper
    None = None
    Scripts = {scenario}
    Helpers = {helper}
    Timers = {timer}
    MaxSpawns = 2

INVARIANTS
    TypeOK
    NoForgottenConductor
    SubscribedIffWanted
    OneConductorPerInstall

PROPERTIES
    ShutdownStops
    ShutdownReturns

CHECK_DEADLOCK FALSE
