SPECIFICATION FairSpec
CONSTANTS
  Ids = {A, B}
  Control = Control
  Foreign = Foreign
  Greetings = {"ready", "single-flight", "unknown_command", "rejected", "error"}
  MaxInFlight = 2
  WriteQueueLimit = 2
  TombstoneLimit = 1
  ServerMaxInFlight = 1
  ReuseAtOnce = TRUE
  MaxCalls = 2
  MaxEvents = 1
  MaxStrays = 1
INVARIANTS ExactRoutes
CHECK_DEADLOCK FALSE
