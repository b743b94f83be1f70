SPECIFICATION DataSpec
CONSTANTS
  Parts = {"fence", "batch", "protected", "models", "guarded", "policy"}
  rd1 = rd1  rd2 = rd2  op1 = op1  op2 = op2  own1 = own1  own2 = own2
  Owners = {own1, own2}
  Reads = {rd1, rd2}
  Ops = {op1, op2}
  OwnerOf <- OwnersOf
  OpKind <- KindOfOp
  Empty = Empty
  Docs = 5
  BatchSize = 2
  RetryAttempts = 2
  Modes <- BatchModes
  Poisoned = {4}
  MaxLost = 3
  LosesMany = FALSE
  Documents = {t1, t2}
  Relations = {q1, q2}
  Deletes = {d1, d2}
  Forced = {d2}
  NoDocument = NoDocument
  m1 = m1  m2 = m2
  Calls = {m1, m2}
  Asks <- SomeAsks
  AsksOf <- AsksOfCallers
  Styles <- FewStyles
  NoAsk = NoAsk
  east = east  users = users  daily = daily  shop = shop  logs = logs
  Databases = {shop, logs}
  Pools = {east}
  Collections = {users, daily}
  PrefixOf <- PolicyPrefixes
  RulesGiven <- FewRules
  MaxKeys = 2
  NoName = NoName
  Callers = {f1, f2}
  Production = TRUE
  KeysInUse = 1
SYMMETRY Alike
INVARIANTS
  FenceHolds
  BatchReported
  ModelsHold
  PolicyHolds
CHECK_DEADLOCK FALSE
