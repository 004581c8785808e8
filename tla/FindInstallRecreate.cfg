SPECIFICATION Spec
CONSTANTS
  UUIDs = {u1}
  Cids = {c1, c2, c3}
  Srvs = {s1, s2}
  Reqs = {r1}
  Null = Null
  Faults = FALSE
  Ops = {"create", "install", "delete", "start"}
INVARIANT InstallAlone
SYMMETRY Symmetry
