CONSTANTS
  Session = {s1, s2}
  MaxPieces = 5
SYMMETRY Symmetry
SPECIFICATION LogSpec
INVARIANTS
  NoDuplicates
  RecordedListed
  ListedHadDirectory
CHECK_DEADLOCK FALSE
