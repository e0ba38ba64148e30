\* An upload that times out.
SPECIFICATION Spec
CONSTANTS
  w1 = w1
  s1 = s1
  s2 = s2
  Writers = {w1}
  Scopes = {s1, s2}
  Primary <- MCPrimary
  Mirrors <- MCMirrors
  Order <- MCOrder
  Lease = 1
  Grace = 3
  PutTimeout = 1
  Late = 1
  MaxFaults = 1
  Workers = {k1}
  MaxJobAttempts = 2
  MaxScopeFailures = 2
  None = None
INVARIANTS NothingLands
CHECK_DEADLOCK FALSE
