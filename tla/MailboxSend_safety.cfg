\* A reply to Yahoo and one to Gmail, two workers that can hold both at once, one fault.
SPECIFICATION Spec
CONSTANTS
  Jobs = {j1, j2}
  Gmail = {j2}
  Workers = {w1, w2}
  BatchSize = 2
  MaxAttempts = 2
  MaxClaims = 12
  MaxFaults = 1
  MaxRetries = 1
  NoJob = NoJob
INVARIANTS Inv AtMostOnce SucceededIsShownSent RunsAreBounded
PROPERTIES SettledRowsStay ImplementsMailDelivery
SYMMETRY Symmetric
CHECK_DEADLOCK FALSE
