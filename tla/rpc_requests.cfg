SPECIFICATION FairSpec
CONSTANTS
  Requests = {r1, r2}
  Calls = {c1}
  Parent <- OneParent
  Nothing = Nothing
  QueueCap = 1
  MaxResponses = 2
CHECK_DEADLOCK FALSE
INVARIANTS TypeOK AnsweredOnce CancelNotMissed ReaderNeverBlocks
PROPERTIES CallReturns
