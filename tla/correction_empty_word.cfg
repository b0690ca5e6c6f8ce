SPECIFICATION Spec
CONSTANTS
  Cases <- EmptyWord
  Strategies <- AllStrategies
  MaxCandidates = 2
  Executables <- Everything
  Destructive <- Removes
  Wrappers <- NoWrapper
CHECK_DEADLOCK FALSE
INVARIANTS FailedWordIsKnown
