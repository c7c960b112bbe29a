SPECIFICATION Spec
CONSTANTS
  d1 = d1
  o1 = o1
  e1 = e1
  p1 = p1
  c1 = c1
  Devices <- OneDevice
  Origins <- OneOrigin
  Events <- OneEvent
  Endpoints <- OneEndpoint
  Controls <- OneControl
  Requests <- RevocationRequests
  MaxRestarts = 0
  StoreMayFail = FALSE
INVARIANTS
  RevokedHasNoSubscription
