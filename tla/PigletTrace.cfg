SPECIFICATION MCFairSpec
CONSTANTS
  WordMod = 32
  MemorySize = 16
  StackMax = 4
  MaxTraceLen = 4
  Programs <- RunPrograms
INVARIANT TypeOK RowsClosed
PROPERTY ImplementsPigletMachine ForwardStops
CHECK_DEADLOCK FALSE
