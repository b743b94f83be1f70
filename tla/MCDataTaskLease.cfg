SPECIFICATION Spec
CONSTANTS
  Tasks = {t1, t2, t3}
  TTL = 2
  MaxTime = 3
  None = None
INVARIANT BeliefIsBacked
SYMMETRY TaskSymmetry
PROPERTY ImplementsLease
CHECK_DEADLOCK FALSE
