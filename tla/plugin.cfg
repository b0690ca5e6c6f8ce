SPECIFICATION FairSpec
CONSTANTS
  Starts = {i1, i2, i3}
  Closes = {c1, c2}
  None = None
CHECK_DEADLOCK FALSE
INVARIANTS ShutdownIsFinal NewestEngineServes ErrorsReportedOnce
PROPERTIES CloseReturns SupersededCloses
