SPECIFICATION FairSpec
CONSTANTS
  r1 = r1
  r2 = r2
  w1 = w1
  w2 = w2
  NoRun = NoRun
  Runs <- OneRun
  Workers <- OneWorker
  Points = 1
  MaxStalls = 1
  MaxFaults = 1
PROPERTY FailureIsVisible
CHECK_DEADLOCK FALSE
