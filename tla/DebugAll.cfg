SPECIFICATION Spec
CONSTANTS
  N = 2
  MaxTries = 2
  ClientOps = {"SetBreakpoint", "RemoveBreakpoint", "GetThreadContext", "SetThreadContext", "ReadProcessMemoryDebug", "WriteProcessMemoryDebug", "SuspendThread", "ResumeThread", "StopDebug"}
  Mortal = {2}
  CanKill = TRUE
  Garbage <- MCGarbage
  MaxTraps = 2
  MaxRequests = 3
INVARIANTS TypeOK NoStopForgotten NothingLeftTraced
PROPERTIES TrapWaitsForClient
CHECK_DEADLOCK FALSE
