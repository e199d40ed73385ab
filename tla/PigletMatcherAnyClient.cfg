SPECIFICATION FairSpec
CONSTANTS
  MaxThreadNum = 6
  Programs <- AllPrograms
  Events <- SmallEvents
INVARIANT TypeOK
PROPERTY AcceptTerminates
