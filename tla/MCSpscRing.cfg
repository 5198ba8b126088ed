CONSTANTS
  Cap = 2
  Value = {a, b}
  NoValue = NoValue
  MaxItems = 3
SPECIFICATION FairSpec
INVARIANTS
  NoSlotRace
  FifoDelivery
  NoLostWakeup
PROPERTIES
  ImplementsFifo
  AllDelivered
  CloseUnblocks
