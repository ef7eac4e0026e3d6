SPECIFICATION Spec
CONSTANTS
  Ask = {q1, q2}
  Reply = {p1, p2}
  NoId = none
  ClosedLimit = 1
INVARIANT LateReplyRejected
CHECK_DEADLOCK FALSE
