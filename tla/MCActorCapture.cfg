SPECIFICATION Spec
CONSTANTS
  ActorId = {a}
  Instance = {i1}
  Client = {c1, c2}
  Ref = {r1}
  NoInstance = none
  Capacity = 2
  MaxBatch = 2
  MaxRestarts = 1
  MaxSends = 2
  MaxStops = 1
  MaxCaptures = 1
  MaxRemoves = 1
INVARIANT CapturedIsFinal
CHECK_DEADLOCK FALSE
