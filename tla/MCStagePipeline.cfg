SPECIFICATION MCSpec
CONSTANTS
  NumStages = 3
  NumInstrs = 3
  Blocks <- MCBlocks
  BlockOf <- MCBlockOf
  Trace <- MCTrace
  FIFO_SIZE = 2
INVARIANTS
  TypeOK
  ChannelHoldsTheDifference
  NoDeadlock
  ReturnsClean
PROPERTIES
  RightRound
  TopReturns
  ActsAsDataflow
