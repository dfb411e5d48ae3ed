SPECIFICATION Spec
CONSTANTS
  MaxChars = 3
  Runs = {1, 2, 3}
  Tickers = {"NVDA", "AMD"}
  Periods = {"Q2", "Q3"}
  AnyPeriod = "any"
  Queries <- MCQueries
  EmptyQuery = ""
  ZeroVectors <- MCZeroVectors
  Similarity <- MCSimilarity
  Plan <- MCPlan
  TopK = 2
  Stores = {"postgres"}
  Scenarios <- Composed
INVARIANTS
  HitIsSimilar
CHECK_DEADLOCK FALSE
