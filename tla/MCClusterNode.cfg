SPECIFICATION Spec
CONSTANTS
  n0 = n0
  p1 = p1
  p2 = p2
  p3 = p3
  p4 = p4
  None = None
  Node <- MCNode
  Self = n0
  Settled = {p2, p3, p4}
  Volatile = {p1, p2}
  Pos <- MCPos
  Rank <- MCRank
  Registered <- MCRegistered
  Space = 8
  Fanout = 1
  Threshold = 2
  EventCap = 2
  Name = {"a", "b"}
  Daemon = {"plain", "shared"}
  Replicated = {"shared"}
  Placed = {"shared"}
  MaxChanges <- MCChanges
  MaxCommands <- MCCommands
INVARIANTS
  ViewFollowsProvider
  
  ServicesFollowView
PROPERTIES
  ForwardShrinksArc
  
CHECK_DEADLOCK FALSE
