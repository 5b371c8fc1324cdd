\* Deals in turn.
CONSTANTS
  Absent = Absent
  Deltas <- MCDeltas
  Regimes <- MCInTurn
  MaxRequests = 4
  MaxRetries = 1
CHECK_DEADLOCK FALSE
SPECIFICATION Spec
INVARIANTS
  StocksAddUp
