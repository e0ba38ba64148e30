\* One Core, one call, no faults: an accept between a reap's read and its write.
SPECIFICATION Spec
CONSTANTS
  MaxEntries = 1
  Visitors = {v1}
  Operators = {o1}
  p1 = p1
  p2 = p2
  core1 = core1
  Cores = {core1}
  Passes = {p1, p2}
  Home <- OneCore
  MaxMisses = 2
  MaxFaults = 0
  None = None
PROPERTIES AcceptedStays
CHECK_DEADLOCK FALSE
