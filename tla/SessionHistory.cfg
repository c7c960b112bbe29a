SPECIFICATION Spec
CONSTANTS
  Scripts <- Threads
  Beginnings = {2}
  PageTurns = 2
  MaxPages = 1
  OlderLimit = 1
  SinceLimit = 2
  MaxNews = 1
  MaxRestarts = 1
  MaxFails = 1
INVARIANTS
  WalkComplete
  SettledTools
PROPERTIES
  WalkEnds
CHECK_DEADLOCK FALSE
