\* One upload, by either way, two storages, two workers, two faults.
SPECIFICATION FairSpec
CONSTANTS
  w1 = w1
  s1 = s1
  s2 = s2
  Writers = {w1}
  Scopes = {s1, s2}
  Primary <- MCPrimary
  Mirrors <- MCMirrors
  Order <- MCOrder
  Lease = 1
  Grace = 3
  PutTimeout = 1
  Late = 1
  MaxFaults = 2
  Workers = {k1, k2}
  MaxJobAttempts = 2
  MaxScopeFailures = 2
  None = None
INVARIANTS Inv NothingLeftBehind CompletedMeansGone
PROPERTIES ConfirmedBeforeSwept GoesForward EveryDeletionEnds 
CHECK_DEADLOCK FALSE
