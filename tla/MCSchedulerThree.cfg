CONSTANTS
  N = 3
  QueueCap = 1
  Busy = 1
  SizeMod = 16
  Threshold = 3
  ChunkSize = 2
  Entries <- FlatEntries
  RuleLists <- NoRules
  Roots = 1
  Sizes <- EmptyFiles
SPECIFICATION Spec
INVARIANTS
  NoHealthyWorkers
CHECK_DEADLOCK FALSE
