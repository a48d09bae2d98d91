CONSTANTS
  i1 = i1
  i2 = i2
  Ids = {i1, i2}
  Calls = {c1, c2}
  Deployments <- MCDeployments
  TicksPerSecond = 2
  IdleSeconds = 1
  AbsoluteSeconds = 2
  MaxSessions = 1
  RetryLimit = 1
  MaxTime = 6
SPECIFICATION Spec
INVARIANTS TypeOK LogoutSticks
PROPERTIES AcceptedWithinLimits RefusedForAReason
SYMMETRY CallsAlike
CHECK_DEADLOCK FALSE
