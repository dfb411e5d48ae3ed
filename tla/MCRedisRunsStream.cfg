SPECIFICATION Spec
CONSTANTS
  Workers = {w1, w2}
  Streams = {s1}
  Pre = 1
  Total = 2
  Hitl = FALSE
  ResumeAt <- Paused
  MaxFaults = 0
  FirstWorker = w1
INVARIANTS
  StreamShowsStartAndEnd
CHECK_DEADLOCK FALSE
