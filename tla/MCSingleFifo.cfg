SPECIFICATION FairSpec
CONSTANTS
  FIFO_SIZE = 3
  Values = {v1, v2}
  NoValue = NoValue
INVARIANTS
  TypeOK
  NoLostWakeup
  IInv
PROPERTIES
  IsQueue
  CallsComplete
