CONSTANTS
  p1 = p1
  p2 = p2
  NoOne = NoOne
  Orders = {o1, o2}
  Visits = {v1}
  Workers = {w1}
  Products = {p1, p2}
  Carts <- MCTwice
  MaxItems = 2
  InitialStock <- MCStock
  MaxInt = 2
  MaxRetries = 1
  Modes = {"sync", "async"}
  Faults = {"cancel", "refused", "lost", "unclear", "db", "drop", "commit", "again"}
  MaxCrashes = 1
CHECK_DEADLOCK FALSE
SPECIFICATION Spec
SYMMETRY MCSymmetry
INVARIANTS
  LiveOrderHoldsItsStock
  NothingRestoredTwice
  AcceptedOrderHoldsItsStock
PROPERTY
  RowsInPushOrder
