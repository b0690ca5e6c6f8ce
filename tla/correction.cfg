SPECIFICATION FairSpec
CONSTANTS
  Cases <- AllCases
  Strategies <- AllStrategies
  MaxCandidates = 2
  Executables <- Everything
  Destructive <- Removes
  Wrappers <- NoWrapper
CHECK_DEADLOCK FALSE
INVARIANTS OneWordChanged BestOffered
PROPERTIES CorrectReturns
