CONSTANTS
  Conn = {c1, c2, c3}
  Proc = {p1}
  NoOne = NoOne
  Kinds = {"CMD_READPROCESSMEMORY", "CMD_SETBREAKPOINT"}
  Debuggers = {c1, c2}
  Callers = {c2, c3}
  MaxPairs = 2
  MaxPosts = 1
SPECIFICATION FairSpec
INVARIANTS TypeOK AnswerIsOwn Drained
PROPERTIES KeepsPromise Answered
CHECK_DEADLOCK FALSE
