SPECIFICATION Spec
CONSTANTS
  Tickers <- MCTickers
  Lists <- MCLists
  Token <- MCToken
  Labels = {"q2", "q3"}
  Concurrency = 2
  None = None
  Error = Error
INVARIANTS
  TypeOK
  CapHolds
  OwnReportExported
  SummaryIsTrue
PROPERTIES
  BatchEnds
CHECK_DEADLOCK FALSE
