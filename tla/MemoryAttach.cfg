\* Two clients that write to two processes, with the options the server starts
\* with.
CONSTANTS
  Conn = {c1, c2}
  Proc = {p1, p2}
  NoOne = NoOne
  NT = 1
  Options <- OnlyDefault
  Debuggers = {}
  Debuggees = {}
  Mortal = {}
  Ops = {"write"}
SPECIFICATION Spec
INVARIANTS AttachedOwn
CHECK_DEADLOCK FALSE
