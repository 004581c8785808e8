SPECIFICATION Spec
CONSTANTS
  Chars = {"{", "}", "A", "B", "r", "x"}
  Keys <- SomeKeys
  Commands <- SomeCommands
  Values <- SomeValues
  PortLists <- SomePorts
  Ints <- SomeInts
  Half = 128
  Unit = 4
  DefaultMB = 2
  Period = 20
  Hundred = 5
INVARIANT SameCommand
INVARIANT PortsBoundOnce
INVARIANT MemoryLimited
INVARIANT CpuLimited
