\* Two connections, two workers, three runs, one fault.
SPECIFICATION Spec
CONSTANTS
  Jobs = {r1, r2, r3}
  Workers = {w1, w2}
  BatchSize = 1
  MaxAttempts = 2
  MaxClaims = 5
  MaxFaults = 1
  MaxRetries = 1
  MaxConnects = 2
  NoJob = NoJob
INVARIANTS Inv LoopAlive WaitingIsBounded
SYMMETRY Symmetric
CHECK_DEADLOCK FALSE
