CONSTANTS
  Low = 0
  High = 2
  MaxInputs = 5
  MaxCount = 2
  FailingWrites = {"reject", "outbox", "record", "http", "download"}
SPECIFICATION FairSpec
INVARIANTS
  NothingOutlives
PROPERTIES
  TornDownIsFreed
  PeerGoneIsFreed
CHECK_DEADLOCK FALSE
