SPECIFICATION Spec
CONSTANTS
  Programs <- Asserted
  CfDup = {TRUE, FALSE}
INVARIANT AssertionsHold
CHECK_DEADLOCK FALSE
