SPECIFICATION FairSpec
CONSTANTS
  w1 = w1
  w2 = w2
  Workers <- OneWorker
  MaxCommands = 2
  MaxCrashes = 0
  SlowStart = FALSE
PROPERTY
  CommandEnds
CHECK_DEADLOCK FALSE
