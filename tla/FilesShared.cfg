SPECIFICATION StoreSpec
CONSTANTS
  Paths <- SmallTree
  Contents <- TwoBlocks
  Outside = Outside
  Inodes = {i1, i2}
  Reqs = {r1, r2}
  Absent = Absent
  Dir = Dir
  Null = Null
  Unknown = Unknown
  Ops = {"create", "write", "delete", "rename", "read"}
  Batch = 1
  Faults = FALSE
SYMMETRY Symmetry
INVARIANT TypeOK
INVARIANT TakesEffect
INVARIANT AnswersTrue
PROPERTY FailsForCause
