SPECIFICATION Spec
CONSTANTS
  n1 = n1
  n2 = n2
  n3 = n3
  None = None
  Node = {n1, n2, n3}
  Eligible = {n1, n2, n3}
  Hash <- MCHash
  ChanCap = 4
  Faults <- NoFaults
  MaxTerm = 4
  MaxEvents = 10
  MaxInst = 2
INVARIANT AtMostOne
CHECK_DEADLOCK FALSE
