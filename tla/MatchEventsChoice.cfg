SPECIFICATION DriverSpec
CONSTANTS
  MaxThreadNum = 256
  Programs <- Bytecodes
  Patterns <- ChoicePatterns
  FileLines <- EventFile
  Events <- EventWords
  MaxEvents = 4
INVARIANT NothingInvented
CHECK_DEADLOCK FALSE
