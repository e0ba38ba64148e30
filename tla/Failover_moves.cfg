\* Two replicas, a cooldown and a window longer than the gate of the lease;
\* liveness, so no symmetry.
SPECIFICATION FairSpec
CONSTANTS
  centrifugo = centrifugo
  supabase = supabase
  polling = polling
  Replicas = {r1, r2}
  Providers = {centrifugo, supabase, polling}
  Order <- DefaultOrder
  Centrifugo = centrifugo
  Polling = polling
  Policies <- SomePolicies
  Snapshots <- SomeSnapshots
  Cooldown = 2
  Window = 2
  LeaseTtl = 1
  CycleGate = 1
  MaxEdits = 1
  MaxFaults = 1
  None = None
INVARIANTS Inv
PROPERTIES MovesRest FailbackWaits Converges
CHECK_DEADLOCK FALSE
