SPECIFICATION FairSpec
CONSTANTS
  N = 3
  MaxTries = 2
  ClientOps = {"StartDebug", "StopDebug"}
  Mortal = {2}
  CanKill = FALSE
  Garbage <- MCGarbage
  MaxTraps = 4
  MaxRequests = 3
INVARIANTS CurrentIsStopped
PROPERTIES StopsResume StopDebugReturns
CHECK_DEADLOCK FALSE
