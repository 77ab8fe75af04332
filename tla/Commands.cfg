SPECIFICATION Spec
CONSTANTS
  w1 = w1
  w2 = w2
  Workers <- TwoWorkers
  MaxCommands = 2
  MaxCrashes = 2
  SlowStart = TRUE
INVARIANTS
  TypeOK
  EveryActiveStored
  AnswersCurrent
  NoLeftovers
  DroppedOnlyAfterDeadline
PROPERTIES
  QueryPromise
SYMMETRY Symmetry
CHECK_DEADLOCK FALSE
