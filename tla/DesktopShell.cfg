SPECIFICATION FairSpec
CONSTANTS
  Casts = {{"poll"}, {"supervisor"}, {"recheck"}}
  MaxCommands = 2
INVARIANTS
  Exclusive
  LinkHasTunnel
  ModeMatchesTunnel
PROPERTIES
  ContextConverges
  DeadLinkGoes
CHECK_DEADLOCK FALSE
