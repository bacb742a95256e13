SPECIFICATION Spec

CONSTANTS
    scenario = scenario
    timer = timer
    helper = helper
    None = None
    Scripts = {scenario}
    Helpers = {}
    Timers = {timer}
    MaxSpawns = 2

INVARIANTS
    HandlerKept

CHECK_DEADLOCK FALSE
