SPECIFICATION FairSpec
CONSTANTS
  Ask = {q1, q2}
  Reply = {p1, p2}
  NoId = none
  ClosedLimit = 1
INVARIANTS TypeOK OneReplyAdmitted NoCrossWiring NothingLeftBehind ClosedBounded
PROPERTIES LateReplyHarmless EveryoneReturns
CHECK_DEADLOCK FALSE
