SPECIFICATION ReadsSpec
CONSTANTS
  Parts = {"coordination", "caching", "pages", "expressions", "functions", "reads"}
  r1 = r1  r2 = r2  r3 = r3
  w1 = w1  w2 = w2
  k1 = k1  k2 = k2
  Readers = {r1, r2, r3}
  Writers = {w1, w2}
  Keys = {k1, k2}
  None = None
  KeyOf <- PageKeyOf
  Nested <- PageNested
  Intents <- BothKeys
  east = east  eastToo = eastToo  other = other  custom = custom
  hostA = hostA  hostB = hostB  q1 = q1
  Routes = {east, eastToo, other, custom}
  SourceOf <- Sources4
  ServerOf <- Servers4
  Unknown = Unknown
  Collections = {"users", "orders"}
  Queries = {q1}
  NoQuery = NoQuery
  Controls <- FewControls
  Sources <- FewSources
  Ids = {1, 2, 3}
  Numbers = {2}
  Sorts <- MixedSort
  Limits = {1, 2}
  MaxPage = 3
  MaxChanges = 1
  Names = {"value", "this", "v0"}
  Wanted = {{"value", "this", "v0"}}
  MaxGrowth = 2
  MaxBinders = 3
  Idents = {"a", "b"}
  Objects = {"made first", "made next"}
  MaxNesting = 2
  MaxRegistered = 3
  Programs <- FewPrograms
  FindLimit = 5
  FindMaxLimit = 7
  FindMaxSkip = 8
SYMMETRY Alike
INVARIANTS
  NothingStale
  RemovalsAreRight
  PagesExact
  TextsUnderstood
PROPERTY ImplementsContract
CHECK_DEADLOCK FALSE
