SPECIFICATION Spec
CONSTANTS
  Sessions = {s1, s2}
  Readers = {r1}
  Lines = {a}
  Nil = Nil
  MaxPending = 1
  MaxObservations = 4
  MaxContention = 1
  MaxFaults = 0
  MaxOpens = 2
CHECK_DEADLOCK FALSE
SYMMETRY Symmetry
INVARIANTS UpdatesVisible
