SPECIFICATION Spec
CONSTANTS
  o1 = o1
  o2 = o2
  p1 = p1
  p2 = p2
  Orders = {o1}
  Payments = {p1}
  OrderOf <- OneOrder
  MaxCloudOrders = 2
  Kiosk = {}
  MaxQueue = 3
  MaxAttempts = 1
  StuckThreshold = 2
  Faults = {"5xx", "lost"}
  Poison = {}
  CloudEvents = {"settle"}
  Operator = {}
  Crashes = TRUE
INVARIANTS
  TypeOK
  NoDoubleBooking
  CloudIdIsReal
  
CHECK_DEADLOCK FALSE
