SPECIFICATION MCSpec
CONSTANTS
  WordMod = 32
  MemorySize = 16
  StackMax = 4
  MaxTraceLen = 4
  Programs <- RunPrograms
INVARIANT TypeOK
PROPERTY ImplementsPigletVM ImplementsPigletTrace
CHECK_DEADLOCK FALSE
