SPECIFICATION Spec
CONSTANTS
  Requests = {r1}
  Calls = {c1, c2}
  Parent <- OneParent
  Nothing = Nothing
  QueueCap = 2
  MaxResponses = 1
CHECK_DEADLOCK FALSE
SYMMETRY CallSymmetry
INVARIANTS CancelFollowsCall CanceledIsAnnounced NoCallAfterReply
