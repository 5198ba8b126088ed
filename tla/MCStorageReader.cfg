CONSTANTS
  r1 = r1
  r2 = r2
  r3 = r3
  Reader = {r1, r2, r3}
  Permits = 1
  ReadAhead = 2
  Ring = 4
  Blocks <- MCBlocks
  MaxUnits = 1
  Shrinking = {r2}
SPECIFICATION FairSpec
INVARIANTS
  BuffersConserved
  BlocksInOrder
  PermitsConserved
PROPERTIES
  ReadsEnd
CHECK_DEADLOCK FALSE
