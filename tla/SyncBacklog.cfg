SPECIFICATION FairSpec
CONSTANTS
  o1 = o1
  o2 = o2
  p1 = p1
  p2 = p2
  Orders = {o1, o2}
  Payments = {p2}
  OrderOf <- TwoOrders
  MaxCloudOrders = 2
  Kiosk = {}
  MaxQueue = 5
  MaxAttempts = 1
  StuckThreshold = 2
  Faults = {"enqueue"}
  Poison = {o1}
  CloudEvents = {}
  Operator = {}
  Crashes = FALSE
PROPERTIES
  OrdersArrive
  MoneyArrives
  EveryRowSettles
CHECK_DEADLOCK FALSE
