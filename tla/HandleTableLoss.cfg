\* A table of one spot, asked whether growing keeps the handles.
CONSTANTS
  Pid = {p1}
  Ptr = {a, b, c, d}
  NULL = NULL
  InitialMax = 2
  MaxMax = 4
  MaxRefs = 2
  MaxEntries = 1
  MaxConn = 1
SPECIFICATION Spec
PROPERTIES HandlesSurvive
