SPECIFICATION Spec
CONSTANTS
  Runs = {r1}
  Streams = {}
  Pre = 2
  Total = 4
  Hitl = TRUE
  UseCache = FALSE
  ResumeAt <- AnyStatus
  UseEdits = TRUE
  MaxExecs = 3
INVARIANTS
  RunningHasTask
  SynthesisIsApproved
PROPERTIES
  RunsSettle
CHECK_DEADLOCK FALSE
