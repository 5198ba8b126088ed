CONSTANTS
  Conn = {c1, c2}
  NoConn = NoConn
  Small <- MCSmall
  Big <- MCBig
  MaxParts = 4
  Order <- MCOrder
  Size = 3
  Chunk = 2
  Block = 2
  Buf = 2
  RawTarget = 3
  OctalLimit = 512
SYMMETRY Symmetry
SPECIFICATION ArchiveSpec
INVARIANTS
  ReceivedOnDisk
  OneDescriptor
  ArchiveReadable
  UntouchedExact
  PathsConfined
CHECK_DEADLOCK FALSE
