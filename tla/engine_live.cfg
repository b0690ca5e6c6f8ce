SPECIFICATION FairSpec
CONSTANTS
  Sessions = {s1}
  Readers = {r1}
  Lines = {a, b}
  Nil = Nil
  MaxPending = 2
  MaxObservations = 4
  MaxContention = 2
  MaxFaults = 1
  MaxOpens = 2
CHECK_DEADLOCK FALSE
PROPERTIES QueuedWritesDrain CloseReturns
