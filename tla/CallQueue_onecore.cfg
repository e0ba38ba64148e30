\* Two calls and one Core whose timer may fire during a pass; liveness, so no
\* symmetry.
SPECIFICATION FairSpec
CONSTANTS
  MaxEntries = 2
  Visitors = {v1, v2}
  Operators = {o1}
  p1 = p1
  p2 = p2
  core1 = core1
  Cores = {core1}
  Passes = {p1, p2}
  Home <- OneCore
  MaxMisses = 2
  MaxFaults = 1
  None = None
INVARIANTS Inv ToldIsTrue RingsOneCallUnlessFaults
PROPERTIES OffersLast FirstComeFirstServed EveryCallRests
CHECK_DEADLOCK FALSE
