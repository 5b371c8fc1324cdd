CONSTANTS
  p1 = p1
  p2 = p2
  NoOne = NoOne
  Orders = {o1, o2}
  Visits = {v1, v2}
  Workers = {w1}
  Products = {p1, p2}
  Carts <- MCCarts
  MaxItems = 2
  InitialStock <- MCStock
  MaxInt = 2
  MaxRetries = 1
  Modes = {"sync", "async"}
  Faults = {"refused", "db"}
  MaxCrashes = 0
CHECK_DEADLOCK FALSE
SPECIFICATION FairSpec
INVARIANTS
  TypeOK
  NothingRestoredTwice
  FailedOrderHoldsNothing
  CancelledOrderHoldsNothing
  NoOversell
PROPERTIES
  StatusMovesForward
  EveryRequestReturns
  AcceptedOrderIsWritten
