SPECIFICATION Spec
CONSTANTS
  Filings <- MCFilings
  Plans <- MCPlans
  Periods <- MCPeriods
  Year <- MCYear
  NewsLists <- MCNewsLists
  AuditLists <- MCAuditLists
  Limits = {1, 2, 3}
  Hitl = TRUE
  Edits <- MCEdits
  None = None
CONSTRAINT FewFail
INVARIANTS
  MarginMatchesFigures
CHECK_DEADLOCK FALSE
