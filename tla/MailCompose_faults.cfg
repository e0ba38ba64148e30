\* Two replies asked for twice, two faults.
SPECIFICATION ComposeSpec
CONSTANTS
  Replies = {p1, p2}
  MaxTries = 2
  MaxComposeFaults = 2
INVARIANTS ComposeInv ToldIsQueuedUnlessOneFails LeftoversNeedFaults
SYMMETRY Symmetric
CHECK_DEADLOCK FALSE
