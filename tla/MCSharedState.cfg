SPECIFICATION StateSpec
CONSTANTS
  Parts = {"lock", "versions", "indexes", "sharing", "retries"}
  u1 = u1  u2 = u2
  Users = {u1, u2}
  TTL = 1
  Durations = {2}
  RetryTimes = 1
  MaxTime = 3
  None = None
  sv = sv  pt = pt  au = au  ct = ct  st = st  inc = inc
  dl = dl  rs = rs  pg = pg  nw = nw  up = up  off = off  p2 = p2
  DocumentCount = 3
  Calls = {sv, pt, au, ct, st, inc, dl, rs, pg, nw, up, off, p2}
  KindOf <- CallKinds
  Mixes <- ThreeCalls
  TargetOf <- CallTargets
  MovesOut = {pt}
  Unborn = {2}
  CandidateBatch = 2
  NoVersion = NoVersion
  Gone = Gone
  Runtimes = {n1, n2}
  Indexes <- SomeIndexes
  Declarations <- TwoDeclarations
  MaxFailures = 2
  MaxDropped = 1
  MaxRedefined = 1
  i1 = i1  i2 = i2  q1 = q1  q2 = q2  q3 = q3  w1 = w1
  Instances = {i1, i2}
  Queries = {q1, q2, q3}
  Writes = {w1}
  HomeOf <- Homes
  MaxUnheard = 1
  NoEntry = NoEntry
  Works = {x1, x2}
  MaxRetries = 2
  AbortAlls = {b1}
SYMMETRY Symmetry
INVARIANTS
  BeliefIsBacked
  VersionsHold
  IndexesStay
  InvalidationReaches
  ManagerCorrect
PROPERTY ImplementsLease
CHECK_DEADLOCK FALSE
