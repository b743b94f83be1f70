SPECIFICATION Spec
CONSTANTS
  Commits = {c1, c2}
  Aborts = {timeout, a1}
  Ends = {e1}
  Timer = timeout
  Keys = {k1}
  MayRecommit = FALSE
  MayForget = TRUE
  None = None
INVARIANTS NoSplitOutcome
CHECK_DEADLOCK FALSE
