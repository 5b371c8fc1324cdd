\* Three requests, faults anywhere, a crash.
CONSTANTS
  None = None
  Emails = {e1}
  People = {ann, bob}
  PoolSize = 2
  AccessLife = 1
  RefreshLife = 2
  MaxTime = 3
  MaxRequests = 3
  MaxCrashes = 1
  Faults = TRUE
SPECIFICATION FairSpec
CHECK_DEADLOCK FALSE
INVARIANTS
  TypeOK
  RegistrationStands
  TokensLast
PROPERTIES
  EveryRequestAnswered
