CONSTANTS
  Low = 0
  High = 2
  MaxInputs = 2
  MaxCount = 2
  FailingWrites = {"ok"}
SPECIFICATION FairSpec
PROPERTIES
  TornDownIsFreed
CHECK_DEADLOCK FALSE
