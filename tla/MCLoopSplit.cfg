SPECIFICATION FairSpec
CONSTANT MaxInt = 15
INVARIANT RangesMeet
PROPERTIES
  SameIterations
  Terminates
CHECK_DEADLOCK FALSE
