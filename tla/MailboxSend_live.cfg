\* Liveness, so no symmetry.
SPECIFICATION FairSpec
CONSTANTS
  Jobs = {j1}
  Gmail = {j1}
  Workers = {w1, w2}
  BatchSize = 1
  MaxAttempts = 2
  MaxClaims = 12
  MaxFaults = 2
  MaxRetries = 1
  NoJob = NoJob
PROPERTIES Settles FailureIsShownUnlessFaults
CHECK_DEADLOCK FALSE
