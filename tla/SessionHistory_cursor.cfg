SPECIFICATION Spec
CONSTANTS
  Scripts <- ListedThread
  Beginnings = {3}
  PageTurns = 1
  MaxPages = 2
  OlderLimit = 1
  SinceLimit = 2
  MaxNews = 1
  MaxRestarts = 0
  MaxFails = 0
INVARIANT CursorHolds
CHECK_DEADLOCK FALSE
