CONSTANTS
  i1 = i1
  i2 = i2
  Ids = {i1, i2}
  Calls = {c1, c2}
  Deployments <- RedisOnly
  TicksPerSecond = 2
  IdleSeconds = 1
  AbsoluteSeconds = 2
  MaxSessions = 1
  RetryLimit = 1
  MaxTime = 6
SPECIFICATION Spec
INVARIANT LogoutIsSeenEverywhere
SYMMETRY CallsAlike
CHECK_DEADLOCK FALSE
