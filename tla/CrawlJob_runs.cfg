\* One audit, two processes, two ticks, two faults; liveness, so no symmetry.
SPECIFICATION FairSpec
CONSTANTS
  Crawls = {c1}
  Workers = {w1, w2}
  Ticks = {t1, t2}
  MaxAttempts = 2
  MaxPages = 1
  SiteLimit = 1
  MaxFaults = 2
  None = None
INVARIANTS Inv AttemptsAreClaimedOnce OutcomesAgree
PROPERTIES FinishedNeedsFault Settles
CHECK_DEADLOCK FALSE
