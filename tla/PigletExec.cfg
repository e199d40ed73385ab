SPECIFICATION FairSpec
CONSTANTS
  WordMod = 32
  MemorySize = 16
  StackMax = 4
  MaxTraceLen = 4
  MaxIterations = 2
  Files <- AsmFiles
INVARIANT EnginesAgree ReportsOwn ExitStatusTells
PROPERTY RunEnds
CHECK_DEADLOCK FALSE
