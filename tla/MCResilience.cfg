SPECIFICATION Spec
CONSTANTS
  a1 = a1  a2 = a2  a3 = a3  b1 = b1
  A = A  B = B
  Requests = {a1, a2, a3, b1}
  Providers = {A, B}
  ProviderOf <- MCProviderOf
  Limit <- MCLimit
  Threshold = 2
  ResetSeconds = 1
  MaxAttempts = 2
  MaxTime = 2
INVARIANTS
  TypeOK
  PermitsConserved
  OpenMeansRepeatedFailures
  OneOutcomePerRequest
PROPERTIES
  RequestsEnd
CHECK_DEADLOCK FALSE
