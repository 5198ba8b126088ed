CONSTANTS
  Low = 1
  High = 4
  MaxRead = 2
  MaxCount = 5
  Total = 12
SPECIFICATION FairSpec
PROPERTIES
  ResumesOnceDrained
CHECK_DEADLOCK FALSE
