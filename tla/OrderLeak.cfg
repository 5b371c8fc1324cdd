CONSTANTS
  p1 = p1
  p2 = p2
  NoOne = NoOne
  Orders = {o1, o2}
  Visits = {}
  Workers = {w1}
  Products = {p1, p2}
  Carts <- MCPair
  MaxItems = 2
  InitialStock <- MCStock
  MaxInt = 2
  MaxRetries = 1
  Modes = {"sync"}
  Faults = {"cancel"}
  MaxCrashes = 0
CHECK_DEADLOCK FALSE
SPECIFICATION Spec
INVARIANT DeductedIsReturned
