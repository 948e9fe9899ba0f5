SPECIFICATION MCSpec
CONSTANTS
  IntBits = 3
  LongBits = 4
  Programs <- MCPrograms
INVARIANTS
  TypeOK
  SamePath
  SameResult
  VariablesAgree
