CONSTANTS
    Hosts = {h1, h2}
    SendId = send
    StopIds = {stop1}
    SteerIds = {steer1, steer2}
    HumanTurns = {human}
    OneProcess = TRUE
SYMMETRY Symmetry
SPECIFICATION Spec
INVARIANTS TypeOK SteersAreFenced OneUnresolvedSteer AnswerIsCurrent StopReportsAreTrue UnreadableOnlyByMiscredit
CHECK_DEADLOCK FALSE
