SPECIFICATION Spec
CONSTANTS
  d1 = d1
  d2 = d2
  s1 = s1
  p1 = p1
  i1 = i1
  i2 = i2
  i3 = i3
  t1 = t1
  t2 = t2
  t3 = t3
  dirA = dirA
  dirB = dirB
  linkA = linkA
  Scenes <- Meetings
  Devices = {d1, d2}
  Streams = {s1}
  Prompts = {p1}
  Capacity = 3
  BridgeKinds = {"host"}
  MaxPages = 2
  MaxSets = 2
  MaxNotes = 2
  MaxLists = 1
  MaxRequests = 3
  Images = {i1, i2, i3}
  Pages <- ImagePages
  Handlers = {1, 2}
  MaxEntries = 2
  Ttl = 1
  MaxUses = 4
  MaxClock = 2
  Threads = {t1, t2, t3}
  Subagents = {t3}
  Cwd <- ThreadCwd
  Dirs = {dirA, dirB}
  Links = {linkA}
  PageSize = 1
  MaxThreadPages = 2
  MaxTouches = 1
  MaxMoves = 1
  Items <- ToolItems
  MaxChars = 4
  MaxLabels = 1
SYMMETRY PhonePermutations
INVARIANTS
  ViewConverges
  RevokedIsCut
  FeedInOrder
  DecisionReported
  FreshIsServed
  ListingComplete
  StartedWhereOffered
  DetailsAreSafe
CHECK_DEADLOCK FALSE
