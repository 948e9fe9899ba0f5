SPECIFICATION Spec
CONSTANTS
  Programs <- OnlyGuardedCopy
  CfDup = {TRUE}
INVARIANT StartsWhenReached
CHECK_DEADLOCK FALSE
