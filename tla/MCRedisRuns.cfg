SPECIFICATION Spec
CONSTANTS
  Workers = {w1, w2}
  Streams = {}
  Pre = 1
  Total = 2
  Hitl = TRUE
  ResumeAt <- Paused
  MaxFaults = 1
  FirstWorker = w1
CONSTRAINT StartedOnFirst
INVARIANTS
  TypeOK
  NumbersAreUnique
PROPERTIES
  RunsSettle
CHECK_DEADLOCK FALSE
