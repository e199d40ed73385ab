SPECIFICATION MCSpec
CONSTANTS
  WordMod = 32
  MemorySize = 16
  StackMax = 4
  Programs <- RunPrograms
INVARIANT TypeOK StackSafe
PROPERTY ImplementsPigletMachine
CHECK_DEADLOCK FALSE
