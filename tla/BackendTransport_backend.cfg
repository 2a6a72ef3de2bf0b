SPECIFICATION FairSpec
CONSTANTS
  Ids = {A, B}
  Control = Control
  Foreign = Foreign
  Greetings = {"ready", "single-flight", "unknown_command", "rejected", "error"}
  MaxInFlight = 2
  WriteQueueLimit = 2
  TombstoneLimit = 1
  ServerMaxInFlight = 1
  ReuseAtOnce = FALSE
  MaxCalls = 2
  MaxEvents = 1
  MaxStrays = 1
INVARIANTS TypeOK OwnAnswers NoDuplicate AdmissionsAccount NoInheritedWrite
PROPERTIES EveryCallSettles
CHECK_DEADLOCK FALSE
