SPECIFICATION Spec
CONSTANTS
  o1 = o1
  o2 = o2
  NoOrder = NoOrder
  Orders = {o1, o2}
  MaxChanges = 2
  MaxBreaks = 0
  Buffer = 2
PROPERTIES
  OpenTabStays
CHECK_DEADLOCK FALSE
