SPECIFICATION MCSpec
CONSTANTS
  NumStages = 3
  NumInstrs = 3
  Blocks <- MCBlocks
  BlockOf <- MCBlockOf
  Trace <- MCTrace
  CallEnds <- MCCallEnds
  SRC_DEPTH = 1
  DST_DEPTH = 1
INVARIANTS
  TypeOK
  HoldsTheDifference
  NoDeadlock
  ReturnsClean
PROPERTIES
  RightRound
  AllReturn
  ActsAsDataflow
