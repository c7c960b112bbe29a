SPECIFICATION Spec
CONSTANTS
  MaxEvents = 2
  Texts <- OneText
  Bounds <- TwoSendsOrFaults
  Alerts = {"done", "test"}
  Tests = {"test"}
  MaxEntries = 1
  MaxSeen = 1
  MaxPushes = 3
  MaxFaults = 2
  MaxEndpoints = 2
  MaxLost = 2
INVARIANT
  SendingIsShown
  AlertedOnce
  ActiveIsTrue
PROPERTIES
  ThreadShown
  Recovers
  SignedOut
\* A page without a session, or a thread whose bound is spent, has nothing to do.
CHECK_DEADLOCK FALSE
