SPECIFICATION FairSpec
CONSTANTS
  o1 = o1
  o2 = o2
  Orders = {o1}
  Total = 2
  MaxSessions = 2
  MaxPayments = 1
  BatchSize = 1
  Faults = {"insert", "unreachable", "lost", "stamp", "shortage", "book", "resolve", "abort", "unregistered", "intake", "answer"}
  MaxFaults = 1
  MaxCrashes = 1
INVARIANTS
  TypeOK
  BookedOnce
  BookedRight
  NoSilentCash
  ClosedIsPaid
PROPERTIES
  KeepsBooks
  LedgerArrives
CHECK_DEADLOCK FALSE
