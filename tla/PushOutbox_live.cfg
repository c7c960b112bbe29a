SPECIFICATION WarmSpec
CONSTANTS
  d1 = d1
  o1 = o1
  e1 = e1
  p1 = p1
  c1 = c1
  Devices <- OneDevice
  Origins <- OneOrigin
  Events <- OneEvent
  Endpoints <- OneEndpoint
  Controls <- OneControl
  Requests <- LiveRequests
  MaxRestarts = 1
  StoreMayFail = FALSE
INVARIANTS
  SendingIsHeld
PROPERTIES
  PendingIsSettled
