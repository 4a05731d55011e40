SPECIFICATION Spec
CONSTANTS
  o1 = o1
  o2 = o2
  p1 = p1
  p2 = p2
  Orders = {o1}
  Payments = {p1}
  OrderOf <- OneOrder
  MaxCloudOrders = 2
  Kiosk = {p1}
  MaxQueue = 4
  MaxAttempts = 1
  StuckThreshold = 1
  Faults = {"401", "422"}
  Poison = {}
  CloudEvents = {"lose", "settle"}
  Operator = {"recover"}
  Crashes = FALSE
INVARIANTS
  NoDoubleBooking
  NoOrderStranded
  KioskRowsBounded
CHECK_DEADLOCK FALSE
