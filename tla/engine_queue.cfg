SPECIFICATION Spec
CONSTANTS
  Sessions = {s1, s2}
  Readers = {r1}
  Lines = {a}
  Nil = Nil
  MaxPending = 2
  MaxObservations = 4
  MaxContention = 2
  MaxFaults = 1
  MaxOpens = 2
CHECK_DEADLOCK FALSE
SYMMETRY Symmetry
INVARIANTS TypeOK QueuedOnceInOrder CacheNeverAhead
PROPERTIES LastUsedNeverRegresses ImplementsLedger
