\* Three spots for the objects of four heap cells: the fourth handle meets a full
\* table, which may double once.
CONSTANTS
  Pid = {p1, p2}
  Ptr = {a, b, c, d}
  NULL = NULL
  InitialMax = 4
  MaxMax = 4
  MaxRefs = 2
  MaxEntries = 1
  MaxConn = 2
SPECIFICATION Spec
SYMMETRY PtrSymmetry
INVARIANTS TypeOK NoDangling NoAlias RefCountExact NoOrphan
PROPERTIES HandlesKept
