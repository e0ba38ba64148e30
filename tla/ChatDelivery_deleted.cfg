\* A message deleted while its job is under way.
SPECIFICATION Spec
CONSTANTS
  Jobs = {j1}
  Workers = {w1}
  BatchSize = 1
  MaxAttempts = 1
  MaxClaims = 3
  MaxFaults = 0
  MaxRetries = 0
  MaxStatuses = 0
  NoJob = NoJob
INVARIANTS RepeatsAreBoundedAlways
CHECK_DEADLOCK FALSE
