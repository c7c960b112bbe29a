SPECIFICATION FairSpec
CONSTANTS
  r1 = r1
  Statuses <- InputStatuses
  Prompts <- NoPrompts
  Stamped = TRUE
  KnownLimit = 4
  MaxClock = 3
  MaxFeed = 2
  MaxRestarts = 0
PROPERTIES
  StateIsAnnounced
