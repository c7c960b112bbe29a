SPECIFICATION FairSpec
CONSTANTS
  r1 = r1
  Statuses <- ApprovalStatuses
  Prompts <- OnePrompt
  Stamped = TRUE
  KnownLimit = 4
  MaxClock = 2
  MaxFeed = 2
  MaxRestarts = 1
INVARIANTS
  RaisedOnce
PROPERTIES
  PromptIsAnnounced
