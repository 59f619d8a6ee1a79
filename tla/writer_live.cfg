SPECIFICATION FairSpec
CONSTANTS
  e1 = e1
  e2 = e2
  o1 = o1
  o2 = o2
  Events = {e1, e2}
  OrderIds = {o1}
  OrderOf <- MCOneOrder
  BatchSize = 2
  MaxRetries = 2
  Faults = {"error", "lookup"}
  Abortable = {}
  MayShutDown = TRUE
  MayExpire = TRUE
  MayClose = FALSE
PROPERTIES
  EventSettles
  ShutdownEnds
