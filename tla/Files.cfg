SPECIFICATION StoreSpec
CONSTANTS
  Paths <- SmallTree
  Contents <- FullOrEmpty
  Outside = Outside
  Inodes = {i1, i2}
  Reqs = {r1}
  Absent = Absent
  Dir = Dir
  Null = Null
  Unknown = Unknown
  Ops = {"create", "drop", "list", "read", "download", "write", "delete", "rename", "folder"}
  Batch = 2
  Faults = TRUE
SYMMETRY Symmetry
INVARIANT TakesEffect
INVARIANT AnswersTrue
PROPERTY FailsForCause
