SPECIFICATION Spec
CONSTANTS
  a1 = a1
  n1 = n1
  x = x
  y = y
  c1 = c1
  c2 = c2
  ActorId = {a1}
  Namespace = {x, y}
  Name = {n1}
  Client = {c1, c2}
  MaxInstance = 2
  MaxGeneration = 2
  MaxCalls = 2
SYMMETRY Symmetry
INVARIANTS NamesAgree PidCurrent
PROPERTY RestartKeepsName
CHECK_DEADLOCK FALSE
