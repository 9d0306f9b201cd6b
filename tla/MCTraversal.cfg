SPECIFICATION Spec
CONSTANTS
  Graphs <- MCGraphs
  Handles <- MCHandles
INVARIANTS
  TypeOK
  LaunchedOnce
  LaunchedWhenDecided
  NoNodeLeftBehind
PROPERTIES
  DecisionsAreFinal
CHECK_DEADLOCK FALSE
