CONSTANTS
  Units = 3
  Length = 2
  Window = 2
  MayReject = {1, 2, 3}
SPECIFICATION FairSpec
INVARIANTS
  RejectedNeverWritten
  NoMisrouting
  FrameExpected
  OkMeansComplete
  VerdictsAgree
PROPERTIES
  BothEnd
  AllSettled
CHECK_DEADLOCK FALSE
