SPECIFICATION Spec
CONSTANTS
  Responses <- SomeResponses
  Procs = {p1}
  Blank = ""
  Default = "/var/lib/hostoria"
  Missing = Missing
  Null = Null
  Crashes = TRUE
INVARIANT SavedIsThere
 
