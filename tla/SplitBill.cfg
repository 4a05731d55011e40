SPECIFICATION Spec
CONSTANTS
  Guests = 2
  Total = 2
  MaxRequests = 3
  Moves = {"method", "refund", "close", "reconnect", "timeout"}
  Typed = {0, 2}
INVARIANTS
  TypeOK
  RetryAsksTheSame
  PaidRowIsBooked
  ReceiptIsBooked
PROPERTIES
  AnnouncedAmountsHold
CHECK_DEADLOCK FALSE
