SPECIFICATION FairSpec
CONSTANTS
  w1 = w1
  w2 = w2
  Workers <- MCWorkers
  Handles <- MCHandles
  Graphs <- ShortGraphs
  NoNode = NoNode
  Human = {4}
  MaxCommands = 1
PROPERTIES
  EventuallyConcludes
CHECK_DEADLOCK FALSE
