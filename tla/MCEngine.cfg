SPECIFICATION Spec
CONSTANTS
  w1 = w1
  w2 = w2
  Workers <- MCWorkers
  Handles <- MCHandles
  Graphs <- AllGraphs
  NoNode = NoNode
  Human = {3}
  MaxCommands = 1
INVARIANTS
  TypeOK
  OneCopy
  ConcludedOnce
  InFlightIsTracked
  NothingLostOnSuccess
PROPERTIES
  ImplementsTraversal
CHECK_DEADLOCK FALSE
