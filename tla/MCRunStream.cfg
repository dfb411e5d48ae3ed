SPECIFICATION StreamSpec
CONSTANTS
  Workers = {w1, w2}
  Streams = {s1}
  Pre = 1
  Total = 2
  Hitl = FALSE
  ResumeAt <- Paused
  MaxFaults = 1
  FirstWorker = w1
CONSTRAINT StartedOnFirst
INVARIANTS
  CancelStopsWithinOneNode
  NothingIsSentTwice
  ClientSeesWhatWasSent
PROPERTIES
  StreamsEnd
CHECK_DEADLOCK FALSE
