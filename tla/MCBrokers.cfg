SPECIFICATION Spec
CONSTANTS
  n1 = n1
  n2 = n2
  s1 = s1
  s2 = s2
  Node <- MCNode
  Subscriber <- MCSubscriber
  Home <- MCHome
  Pattern <- MCPattern
  Topic <- MCTopic
  Publication <- MCPublication
  MaxGeneration = 2
  MaxPending = 1
  Fanout = 1
  MaxJobs = 3
  MaxHandoffs = 1
  MaxDowns = 2
  MaxTimers = 1
  WorkerList <- MCWorkerList
  Message <- MCMessage
  MaxRoutes = 3
  MaxStates = 3
  MaxCommands <- MCCommands
INVARIANTS
  
  PublishedOnce
  RoutesExact
  JobsIndexed
  
  OneLateTick
  TimersTracked
  
PROPERTY
  RulesDecide
SYMMETRY Symmetry
CHECK_DEADLOCK FALSE
