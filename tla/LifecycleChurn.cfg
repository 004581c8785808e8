SPECIFICATION Spec
CONSTANTS
  UUIDs = {u1}
  Cids = {c1, c2, c3}
  Srvs = {s1, s2}
  Reqs = {r1, r2}
  Null = Null
  Faults = FALSE
  Ops = {"create", "delete", "start"}
INVARIANT SoleOwner
INVARIANT HeldOrCancelled
SYMMETRY Symmetry
