\* Two connections that hold one handle each; OpenProcess has one more handle and
\* two objects under way.
CONSTANTS
  Conn = {c1, c2}
  Pid = {p1, p2}
  Ptr = {a, b, c, d}
  NULL = NULL
  Spots = 4
  MaxHeld = 1
  MaxCalls = 5
  MaxRaces = 1
SPECIFICATION Spec
SYMMETRY MCSymmetry
INVARIANTS TypeOK NoFault OneProcessData HeldIsOwn CountsBalance
CHECK_DEADLOCK FALSE
