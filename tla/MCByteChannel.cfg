CONSTANTS
  Low = 1
  High = 4
  MaxRead = 2
  MaxCount = 4
  Total = 12
SPECIFICATION FairSpec
INVARIANTS
  BufferBound
  NoStall
PROPERTIES
  ReadReturns
CHECK_DEADLOCK FALSE
