SPECIFICATION DriverSpec
CONSTANTS
  MaxThreadNum = 256
  Programs <- Bytecodes
  Patterns <- MultiplyingPatterns
  FileLines <- TwoNames
  Events <- EventWords
  MaxEvents = 7
INVARIANT NothingMissed
CHECK_DEADLOCK FALSE
