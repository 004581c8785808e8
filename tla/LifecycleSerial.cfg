SPECIFICATION MonitorSpec
CONSTANTS
  UUIDs = {u1}
  Cids = {c1, c2, c3}
  Srvs = {s1, s2}
  Reqs = {r1}
  Null = Null
  Faults = FALSE
  Ops = {"create", "delete", "start", "stop", "restart", "kill"}
  Probes = {p1}
INVARIANT NoOrphans
INVARIANT DeleteLeavesNothing
INVARIANT RestsSettled
INVARIANT SampleOwn
SYMMETRY Symmetry
