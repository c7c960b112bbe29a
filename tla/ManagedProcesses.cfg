SPECIFICATION Spec
CONSTANTS
  MaxRetries = 2
  HealthFailures = 2
  MaxLaunches = 2
  Stranger = 3
  Unknown = 0
  Deterministic = 8
  Transient = 9
  Instances = {1, 2, 3}
  CodexCalls = {1, 2}
  MaxCodex = 3
  Profiles = {"p1"}
  MaxStarts = 3
  MaxCrashes = 2
INVARIANTS
  VerifiedUp
  OneCodex
  SameKey
  ProfileHasToken
PROPERTIES
  NamedKeepsPromise
  QuickKeepsPromise
  CallsEnd
