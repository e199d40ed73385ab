SPECIFICATION DriverSpec
CONSTANTS
  MaxThreadNum = 256
  Programs <- Bytecodes
  Patterns <- WidePatterns
  FileLines <- WideNames
  Events <- EventWords
  MaxEvents = 2
INVARIANT NothingMissed
CHECK_DEADLOCK FALSE
