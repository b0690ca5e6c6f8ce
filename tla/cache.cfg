SPECIFICATION FairSpec
CONSTANTS
  i1 = i1
  i2 = i2
  i3 = i3
  p1 = p1
  p2 = p2
  None = None
  Inits = {i1, i2, i3}
  Procs = {p1, p2}
  Stops = {p1}
  ProcOf <- TwoProcesses
  Shells = {fifo}
  Pipes = {fifo}
CHECK_DEADLOCK FALSE
INVARIANTS NoTempLeft PublishedComplete ReplacedIsOver CachesConverge
PROPERTIES HandlersReturn
