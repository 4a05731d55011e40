SPECIFICATION FairTillSpec
CONSTANTS
  o1 = o1
  o2 = o2
  Orders = {o1}
  Total = 2
  MaxSessions = 2
  MaxPayments = 0
  BatchSize = 1
  Faults = {"book"}
  MaxFaults = 1
  MaxCrashes = 1
  MaxPollFailures = 2
  LossyLAN = TRUE
INVARIANTS
  TillTypeOK
  PaidRowIsBooked
  OverlayIsTrue
PROPERTIES
  CollectSettles
CHECK_DEADLOCK FALSE
