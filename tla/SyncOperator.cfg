SPECIFICATION Spec
CONSTANTS
  o1 = o1
  o2 = o2
  p1 = p1
  p2 = p2
  Orders = {o1}
  Payments = {p1}
  OrderOf <- OneOrder
  MaxCloudOrders = 1
  Kiosk = {}
  MaxQueue = 3
  MaxAttempts = 2
  StuckThreshold = 1
  Faults = {"400", "budget", "backfill"}
  Poison = {}
  CloudEvents = {"outage", "trash"}
  Operator = {"retry", "discard", "reresolve"}
  Crashes = FALSE
INVARIANTS
  NoPaymentStranded
  ExhaustedIsSurfaced
CHECK_DEADLOCK FALSE
