SPECIFICATION FairSpec
CONSTANTS
  o1 = o1
  o2 = o2
  p1 = p1
  p2 = p2
  Orders = {o1}
  Payments = {p1}
  OrderOf <- OneOrder
  MaxCloudOrders = 2
  Kiosk = {}
  MaxQueue = 4
  MaxAttempts = 1
  StuckThreshold = 1
  Faults = {}
  Poison = {}
  CloudEvents = {"lose"}
  Operator = {"recover"}
  Crashes = FALSE
PROPERTIES
  MoneyFollowsRecovery
CHECK_DEADLOCK FALSE
