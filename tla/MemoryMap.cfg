CONSTANTS
  N = 4
  Top = 3
  Contents <- MCContents
  Unmapped = Unmapped
  Flags <- MCFlags
  Chunk = 2
  InitialMax = 1
  MaxChanges = 2
SPECIFICATION FairSpec
INVARIANTS TypeOK WalkExact FullExact
PROPERTIES QueryEnds
CHECK_DEADLOCK FALSE
