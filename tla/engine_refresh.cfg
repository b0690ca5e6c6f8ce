SPECIFICATION Spec
CONSTANTS
  Sessions = {s1, s2}
  Readers = {r1, r2}
  Lines = {a, b}
  Nil = Nil
  MaxPending = 1
  MaxObservations = 4
  MaxContention = 0
  MaxFaults = 0
  MaxOpens = 2
CHECK_DEADLOCK FALSE
SYMMETRY Symmetry
INVARIANTS UpdatesVisible
PROPERTIES CacheMonotone
