CONSTANTS
    Hosts = {h1}
    SendId = send
    StopIds = {}
    SteerIds = {steer1}
    HumanTurns = {}
    OneProcess = TRUE
SPECIFICATION FairSpec
PROPERTY WitnessedSteerSettles
CHECK_DEADLOCK FALSE
