CONSTANTS
  Callers = {c1, c2}
  Patchers = {h1}
  Products = {p1, p2}
  Servers = {s1}
  NoRequest = NoRequest
  NoOne = NoOne
  Deltas <- MCSellOne
  BufferSize = 1
  MaxInt <- MCMaxInt
  InitialStock <- MCInitialStock
  DbFaults = FALSE
  MaxCrashes = 1
CHECK_DEADLOCK FALSE
SPECIFICATION FairSpec
INVARIANT SerialUpdates
PROPERTIES
  EveryCallerAnswered
  EnteredIsDecided
