SPECIFICATION Spec
CONSTANTS
  e1 = e1
  e2 = e2
  o1 = o1
  o2 = o2
  Events = {e1, e2}
  OrderIds = {o1, o2}
  OrderOf <- MCTwoOrders
  BatchSize = 2
  MaxRetries = 2
  Faults = {"error", "lost_reply", "lookup"}
  Abortable = {e1}
  MayShutDown = TRUE
  MayExpire = TRUE
  MayClose = TRUE
INVARIANTS
  TypeOK
  NeverForgotten
  HeldOnce
  RecordedOnce
  FlushedAtShutdown
PROPERTIES
  ImplementsLedger
