\* The command that DispatchCommand has no case for.
CONSTANTS
  Conn = {c1, c2}
  Proc = {p1}
  NoOne = NoOne
  Kinds = {"CMD_PTRACE_MMAP"}
  Debuggers = {c1}
  Callers = {c2}
  MaxPairs = 1
  MaxPosts = 1
SPECIFICATION FairSpec
PROPERTIES KeepsPromise
CHECK_DEADLOCK FALSE
