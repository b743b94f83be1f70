SPECIFICATION ProgressSpec
CONSTANTS
  Parts = {"counts", "queries", "streams", "indexes", "lifecycle", "health", "log"}
  x1 = x1  x2 = x2  x3 = x3  x4 = x4  x5 = x5  x6 = x6
  k1 = k1  k2 = k2  t1 = t1  t2 = t2
  Requests = {x1, x2, x3}
  Concurrency = 1
  MaxQueueSize = 1
  Keys = {k1, k2}
  Readers = {x1, x2}
  Writers = {x3, x4}
  NoEntry = NoEntry
  Starts = {x1, x2}
  Stops = {x3}
  Targets = {t1, t2}
  MaxEvents = 2
  Nil = Nil
  Hosts = {x1}
  MaxFailures = 1
  MaxDropped = 1
  MaxRedefined = 1
  Runtimes = {x1}
  MaxConnects <- TwoConnects
  MaxCloses <- OneClose
  Clients = {x1, x2}
  PingRetries = 2
  NoClient = NoClient
  Logs = {e1, e2, e3}
  BatchSize = 2
  MaxBufferSize = 2
  LogCloses = 2
PROPERTIES
  CountsAnswered
  QueriesAnswered
  SyncProceeds
  CallsSettle
  HungIsFound
  EntriesLeave
  IndexesEnsured
CHECK_DEADLOCK FALSE
