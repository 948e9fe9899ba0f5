SPECIFICATION Spec
CONSTANTS
  Programs <- OnlySwitchStore
  CfDup = {TRUE}
INVARIANT SendBlocksLead
CHECK_DEADLOCK FALSE
