SPECIFICATION Spec
CONSTANTS
  e1 = e1
  e2 = e2
  o1 = o1
  o2 = o2
  Events = {e1}
  OrderIds = {o1}
  OrderOf <- MCOneEvent
  BatchSize = 2
  MaxRetries = 2
  Faults = {}
  Abortable = {}
  MayShutDown = TRUE
  MayExpire = TRUE
  MayClose = FALSE
INVARIANTS
  InFlightIsWritten
