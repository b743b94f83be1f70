SPECIFICATION FairSpec
CONSTANTS
  Commits = {c1, c2}
  Aborts = {timeout, a1}
  Ends = {e1, e2}
  Timer = timeout
  Keys = {k1, k2}
  MayRecommit = FALSE
  MayForget = FALSE
  None = None
INVARIANTS
  OutcomeIsOne
  NothingStaleLeft
  EndIsClean
PROPERTIES
  EveryCallSettles
CHECK_DEADLOCK FALSE
