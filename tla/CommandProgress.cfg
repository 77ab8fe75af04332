SPECIFICATION FairSpec
CONSTANTS
  w1 = w1
  w2 = w2
  Workers <- TwoWorkers
  MaxCommands = 1
  MaxCrashes = 2
  SlowStart = TRUE
PROPERTY
  EndsUnlessStuck
CHECK_DEADLOCK FALSE
