SPECIFICATION DriverSpec
CONSTANTS
  MaxThreadNum = 256
  Programs <- Bytecodes
  Patterns <- AllPatterns
  FileLines <- EventFile
  Events <- EventWords
  MaxEvents = 4
INVARIANT NothingMissedUnlessLost
INVARIANT ExactWithoutChoice
CHECK_DEADLOCK FALSE
