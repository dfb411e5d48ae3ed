SPECIFICATION Spec
CONSTANTS
  Runs = {r1}
  Streams = {s1, s2}
  Pre = 1
  Total = 3
  Hitl = TRUE
  UseCache = TRUE
  ResumeAt <- Paused
  UseEdits = FALSE
  MaxExecs = 3
INVARIANTS
  TypeOK
  PausedRunIsQuiet
  CompletedRunHasReport
  EventsAccountedFor
PROPERTIES
  ImplementsContract
  EndIsAnnounced
  StreamsEnd
CHECK_DEADLOCK FALSE
