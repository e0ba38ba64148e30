\* One message, two workers, two faults, a delivery status.
SPECIFICATION Spec
CONSTANTS
  Jobs = {j1}
  Workers = {w1, w2}
  BatchSize = 1
  MaxAttempts = 2
  MaxClaims = 4
  MaxFaults = 2
  MaxRetries = 1
  MaxStatuses = 1
  NoJob = NoJob
INVARIANTS Inv ShownWasSent SucceededIsKnown RepeatsNeedFaults
PROPERTIES SettledRowsStay
SYMMETRY Symmetric
CHECK_DEADLOCK FALSE
