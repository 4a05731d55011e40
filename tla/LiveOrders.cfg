SPECIFICATION FairSpec
CONSTANTS
  o1 = o1
  o2 = o2
  NoOrder = NoOrder
  Orders = {o1, o2}
  MaxChanges = 2
  MaxBreaks = 3
  Buffer = 1
INVARIANTS
  TypeOK
  QuietMeansFresh
PROPERTIES
  PinHolds
  PollingStaysFresh
CHECK_DEADLOCK FALSE
