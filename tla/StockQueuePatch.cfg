CONSTANTS
  Callers = {c1, c2}
  Patchers = {h1}
  Products = {p1}
  Servers = {s1}
  NoRequest = NoRequest
  NoOne = NoOne
  Deltas <- MCDeltas
  BufferSize = 2
  MaxInt <- MCMaxInt
  InitialStock <- MCInitialStock
  DbFaults = FALSE
  MaxCrashes = 0
CHECK_DEADLOCK FALSE
SPECIFICATION Spec
INVARIANT NoOversell
