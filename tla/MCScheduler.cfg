CONSTANTS
  N = 2
  QueueCap = 2
  Busy = 1
  SizeMod = 16
  Threshold = 3
  ChunkSize = 2
  Entries <- MCEntries
  RuleLists <- MCRuleLists
  Roots = 2
  Sizes <- MCSizes
SPECIFICATION FairSpec
INVARIANTS
  FilesTiled
  NoHealthyWorkers
  WalkFollowsRules
PROPERTIES
  WalkEnds
CHECK_DEADLOCK FALSE
