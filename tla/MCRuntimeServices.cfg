SPECIFICATION ServicesSpec
CONSTANTS
  Parts = {"counts", "lifecycle", "pools", "health", "log", "saga", "sync", "upload"}
  Requests = {q1, q2, q3, q4, q5}
  Concurrency = 2
  MaxQueueSize = 2
  r1 = r1  r2 = r2
  Runtimes = {r1, r2}
  MaxConnects <- ConnectsOf
  MaxCloses <- ClosesOf
  a1 = a1  a2 = a2  a3 = a3
  Adds = {a1, a2, a3}
  NameOf <- PoolNames
  Unreported = {a2}
  Removes = {m1, m2}
  MaxPools = 2
  MaxPoolCloses = 2
  NoPool = NoPool
  c1 = c1  c2 = c2  c3 = c3
  Clients = {c1, c2, c3}
  PingRetries = 2
  NoClient = NoClient
  Logs = {e1, e2, e3, e4}
  BatchSize = 2
  MaxBufferSize = 2
  LogCloses = 2
  Steps = 4
  Retries <- OneRetry
  Compensable = {1, 3}
  s1 = s1  s2 = s2
  p1 = p1
  t1 = t1  t2 = t2
  Starts = {s1, s2}
  Stops = {p1}
  Targets = {t1, t2}
  Wants <- TwoWants
  MarkMode = "success"
  MaxEvents = 2
  MaxCrashes = 1
  Nil = Nil
  ap1 = ap1  ap2 = ap2  ap3 = ap3
  Begins = {b1, b2}
  Appends = {ap1, ap2, ap3}
  Finalizes = {f1, f2}
  Aborts = {x1}
  Chunks = 2
  FromOf <- Froms
  CountOf <- Counts
  GoodOf <- Goods
  MayOverlap = FALSE
INVARIANTS
  SlotsAccounted
  RuntimeOwned
  ClientsAccounted
  DownIsItsOwn
  LogAccounted
  SagaAccounted
  ConnectionsKept
  UploadIsWhole
PROPERTIES
  HandOverInOrder
  AtLeastOnceDelivery
CHECK_DEADLOCK FALSE
