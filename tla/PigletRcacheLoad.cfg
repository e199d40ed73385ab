SPECIFICATION MCSpec
CONSTANTS
  WordMod = 32
  MemorySize = 16
  StackMax = 4
  MaxTraceLen = 4
  Programs <- WrappedLoad
INVARIANT LoadsAgree
CHECK_DEADLOCK FALSE
