SPECIFICATION FairSpec
CONSTANTS
  m1 = m1
  m2 = m2
  Messages <- TwoMessages
  Attempts = 2
  MaxEntries = 1
  MaxRestarts = 1
INVARIANTS
  OneDelivery
  DuplicatesExplained
  SentIsDelivered
PROPERTIES
  SendEnds
CHECK_DEADLOCK FALSE
