SPECIFICATION Spec
CONSTANTS
  Callers = {t1, t2}
  MaxFaults = 2
  Pairs = {p1, p2}
  MaxBatch = 2
  MaxAsked = 3
  Configs <- MCConfigs
  MaxScale = 18
  Calls <- MCCalls
INVARIANTS
  TypeOK
  SetupIsIdempotent
  BatchAccounts
  IntentsAreSound
  ResultsAreTrue
PROPERTIES
  LaterIsLarger
  BatchReturns
CHECK_DEADLOCK FALSE
