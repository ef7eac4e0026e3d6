SPECIFICATION Spec
CONSTANTS
  ActorId = {a}
  Instance = {i1, i2}
  Client = {c1, c2}
  Ref = {r1}
  NoInstance = none
  Capacity = 2
  MaxBatch = 2
  MaxRestarts = 1
  MaxSends = 3
  MaxStops = 1
  MaxCaptures = 0
  MaxRemoves = 1
SYMMETRY Symmetry
INVARIANTS TypeOK AcceptanceOrder TerminalStatus MonitorsReported
PROPERTY StopIsFinal
CHECK_DEADLOCK FALSE
