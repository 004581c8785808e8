SPECIFICATION FairSpec
CONSTANTS
  UUIDs = {u1}
  Cids = {c1, c2, c3}
  Srvs = {s1}
  Reqs = {r1}
  Null = Null
  Faults = TRUE
  Ops = {"create", "install", "delete", "start", "stop", "restart", "kill", "shutdown"}
INVARIANT TypeOK
PROPERTY ExitNoticed
PROPERTY DeletedInstallEnds
