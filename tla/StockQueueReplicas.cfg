\* Two instances share the row; callers leave, statements and commits fail,
\* an instance dies.
CONSTANTS
  Callers = {c1, c2}
  Patchers = {}
  Products = {p1}
  Servers = {s1, s2}
  NoRequest = NoRequest
  NoOne = NoOne
  Deltas <- MCDeltas
  BufferSize = 2
  MaxInt <- MCMaxInt
  InitialStock <- MCInitialStock
  DbFaults = TRUE
  MaxCrashes = 2
SPECIFICATION Spec
SYMMETRY MCSymmetry
CHECK_DEADLOCK FALSE
INVARIANTS
  TypeOK
  SerialUpdates
  StockAddsUp
  LocksOwned
  CommitsInEntryOrder
  AnswersTrue
PROPERTY ImplementsInventory
