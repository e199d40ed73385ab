SPECIFICATION MCHistorySpec
CONSTANTS
  MaxThreadNum = 10
  MaxSeen = 4
  Programs <- AllPrograms
  Events <- SmallEvents
INVARIANT OldestFirst LinearNeverLoses VerdictsExact
PROPERTY ImplementsEventMatcher
