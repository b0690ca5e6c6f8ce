SPECIFICATION FairSpec
CONSTANTS
  Sessions = {s1, s2, s3}
  Importers = {s1, s2}
  None = None
  MaxLearned = 1
  MaxImported = 1
CHECK_DEADLOCK FALSE
INVARIANTS LearnedOnce FinalIsComplete ImportsNotSummed FailureKeepsLearned NoTempLeft
PROPERTIES CloseReturns
