SPECIFICATION MCSpec
CONSTANTS
  IntBits = 3
  LongBits = 4
  Programs <- MCLessAsInt
INVARIANT CastsConvert
