SPECIFICATION FairSpec
CONSTANTS
  r1 = r1
  r2 = r2
  w1 = w1
  w2 = w2
  NoRun = NoRun
  Runs <- OneRun
  Workers <- TwoWorkers
  Points = 1
  MaxStalls = 1
  MaxFaults = 2
INVARIANTS
  TypeOK
  ShownIsStored
  AttemptsAreBounded
PROPERTIES
  JobsSettle
  RunsGoForward
  RunsSucceed
CHECK_DEADLOCK FALSE
