SPECIFICATION Spec
CONSTANTS
  n1 = n1
  n2 = n2
  n3 = n3
  None = None
  Node = {n1, n2, n3}
  Eligible = {n1, n2}
  Hash <- MCHash
  ChanCap = 2
  Faults <- AllFaults
  MaxTerm = 4
  MaxEvents = 6
  MaxInst = 3
INVARIANTS
  
  
  StateHandedOnce
PROPERTY
  Sticky
CHECK_DEADLOCK FALSE
