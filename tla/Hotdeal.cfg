\* Deals in turn, and everything at once with every fault.
CONSTANTS
  Absent = Absent
  Deltas <- MCDeltas
  Regimes <- MCRegimes
  MaxRequests = 4
  MaxRetries = 1
CHECK_DEADLOCK FALSE
SPECIFICATION FairSpec
INVARIANTS
  TypeOK
  UpdateChargesOneStore
  StocksAddUpUnlessSoldOut
PROPERTIES
  CacheCatchesUp
