CONSTANTS
    Hosts = {h1, h2}
    SendId = send
    StopIds = {stop1}
    SteerIds = {}
    HumanTurns = {}
    OneProcess = TRUE
SPECIFICATION Spec
INVARIANT StopExecutedOnce
CHECK_DEADLOCK FALSE
