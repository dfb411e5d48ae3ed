SPECIFICATION Spec
CONSTANTS
  MaxChars = 3
  Runs = {1, 2, 3}
  Tickers = {"NVDA", "AMD"}
  Periods = {"Q2", "Q3"}
  AnyPeriod = "any"
  Queries <- MCQueries
  EmptyQuery = ""
  ZeroVectors <- MCZeroVectors
  Similarity <- MCSimilarity
  Plan <- MCPlan
  TopK = 2
  Stores = {"memory", "postgres"}
  Scenarios <- Everything
INVARIANTS
  TypeOK
  ChunksAreFaithful
  EvidenceIsNearest
  HitIsNearest
  OneRowPerRun
CHECK_DEADLOCK FALSE
