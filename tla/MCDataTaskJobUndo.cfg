SPECIFICATION TaskSpec
CONSTANTS
  Parts = {"job"}
  d1 = d1  d2 = d2  i1 = i1
  Docs = {d1, d2}
  Indexes = {i1}
  New = New
  Void = Void
  BatchSize = 2
  MaxBackups = 3
  MaxOthers = 1
  x1 = x1  x2 = x2  x3 = x3  p1 = p1  p2 = p2
  Planners = {p1, p2}
  TaskJobs <- SomeJobs
  Ids = {x1, x2, x3}
  Fields <- FieldNames
  Values = {"a", "b"}
  Uniques <- UniqueKeys
  Sparse <- SparseKeys
  MaxScan = 3
  MaxMeddling = 1
SYMMETRY Symmetry
INVARIANTS RestoreIsReversible
CHECK_DEADLOCK FALSE
