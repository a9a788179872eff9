SPECIFICATION FairSpec
CONSTANTS
  Conn = {c1, c2}
  NoOne = NoOne
  MaxSock = 3
  MaxFd = 2
  MaxCalls = 3
  MaxStarts = 1
INVARIANTS TypeOK OwnAnswer Reachable 
PROPERTIES InjectsAbsent Released
CHECK_DEADLOCK FALSE
