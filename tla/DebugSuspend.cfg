SPECIFICATION Spec
CONSTANTS
  N = 2
  MaxTries = 2
  ClientOps = {"SuspendThread", "ResumeThread", "StartDebug", "StopDebug"}
  Mortal = {2}
  CanKill = TRUE
  Garbage <- MCGarbage
  MaxTraps = 1
  MaxRequests = 5
PROPERTIES SuspendedStays
CHECK_DEADLOCK FALSE
