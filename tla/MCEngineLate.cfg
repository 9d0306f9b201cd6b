SPECIFICATION Spec
CONSTANTS
  w1 = w1
  w2 = w2
  Workers <- MCWorkers
  Handles <- MCHandles
  Graphs <- LateGraphs
  NoNode = NoNode
  Human = {}
  MaxCommands = 0
INVARIANT CompleteMeansNothingRuns

CHECK_DEADLOCK FALSE
