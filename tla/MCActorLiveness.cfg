SPECIFICATION FairSpec
CONSTANTS
  ActorId = {a}
  Instance = {i1}
  Client = {c1, c2}
  Ref = {}
  NoInstance = none
  Capacity = 2
  MaxBatch = 2
  MaxRestarts = 1
  MaxSends = 2
  MaxStops = 2
  MaxCaptures = 1
  MaxRemoves = 0
PROPERTIES CancelledEnds AcceptedHandled
CHECK_DEADLOCK FALSE
