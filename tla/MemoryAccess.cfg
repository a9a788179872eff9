CONSTANTS
  Conn = {c1, c2}
  Proc = {p1, p2}
  NoOne = NoOne
  NT = 1
  Options <- MCOptions
  Debuggers = {c1}
  Debuggees = {p1}
  Mortal = {p1}
  Ops = {"read", "write", "context"}
SPECIFICATION FairSpec
INVARIANTS TypeOK NoAttachBusy WaitsForOwn NothingLeft OwnAddress
PROPERTIES MutexReleased
CHECK_DEADLOCK FALSE
