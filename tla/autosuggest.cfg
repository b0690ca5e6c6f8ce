SPECIFICATION FairSpec
CONSTANTS
  good = good
  better = better
  broken = broken
  other = other
  Lines = {good, better, broken, other}
  Matching = {good, better, broken}
  Valid = {good, better}
  Cwd = Cwd
  Everywhere = Everywhere
  Answers <- FewEntries
  Imports <- TwoShells
  Block = 2
  None = None
CHECK_DEADLOCK FALSE
INVARIANTS AnswerIsRanked NoAnswerAfterCancel ScanStopsPromptly
PROPERTIES CanceledEnds
