SPECIFICATION Spec
CONSTANTS
  d1 = d1
  o1 = o1
  e1 = e1
  p1 = p1
  c1 = c1
  Devices <- OneDevice
  Origins <- OneOrigin
  Events <- OneEvent
  Endpoints <- OneEndpoint
  Controls <- OneControl
  Requests <- RequestKinds
  MaxRestarts = 1
  StoreMayFail = TRUE
INVARIANTS
  NoMissedWakeup
PROPERTIES
  KeepsPromise
