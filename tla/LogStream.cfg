SPECIFICATION FairSpec
CONSTANTS
  Lines <- SomeLines
  NL = 3
  CR = 4
  Header = 2
  FrameMax = 4
  TokenMax = 9
  TailLines = 1
  MaxLines = 2
CHECK_DEADLOCK FALSE
INVARIANT LinesAsSent
PROPERTY LinesArrive
PROPERTY StreamEnds
