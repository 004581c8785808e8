SPECIFICATION FairSpec
CONSTANTS
  Clients = {c1, c2}
  Cap = 2
  MaxLines = 3
INVARIANT TypeOK
INVARIANT InOrder
INVARIANT NothingLostBelowCap
INVARIANT ListenersOpen
PROPERTY QueuesImplemented
PROPERTY TakenLinesArrive
PROPERTY GoneUnsubscribedByOutput
CHECK_DEADLOCK FALSE
