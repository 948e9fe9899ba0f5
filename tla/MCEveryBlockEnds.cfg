SPECIFICATION Spec
CONSTANTS
  Programs <- OnlyTwoStores
  CfDup = {TRUE}
INVARIANT EveryBlockEnds
CHECK_DEADLOCK FALSE
