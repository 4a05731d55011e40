SPECIFICATION Spec
CONSTANTS
  Guests = 2
  Total = 4
  MaxRequests = 2
  Typed = {}
  Moves = {"reconnect", "timeout"}
INVARIANTS
  RetryIsSamePayment
CHECK_DEADLOCK FALSE
