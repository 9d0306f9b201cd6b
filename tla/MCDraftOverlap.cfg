SPECIFICATION Spec
CONSTANTS
  t1 = t1
  t2 = t2
  Setups <- OverlapSetups
PROPERTIES EditsSurvive
CHECK_DEADLOCK FALSE
