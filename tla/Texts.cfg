SPECIFICATION Spec
CONSTANTS
  MaxLines = 4
  MaxTokens = 6
INVARIANT RoundTrip
INVARIANT BranchesLandOnLabels
INVARIANT ListingReassembles
INVARIANT LoadsWellFormed
INVARIANT BranchesLandOnInstructions
INVARIANT GrammarFaithful
CHECK_DEADLOCK FALSE
