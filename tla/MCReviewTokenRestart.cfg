CONSTANTS
  a = a
  b = b
  Nodes = {a, b}
  Identities = {u1}
  Nobody = Nobody
  Tokens = {t}
  Submissions = {s1, s2}
  Deployments <- MCDeployments
  TicksPerSecond = 2
  TtlSeconds = 1
  RetryLimit = 1
  MaxTime = 6
  MaxRestarts = 1
SPECIFICATION Spec
INVARIANT OneUseDespiteRestart
CHECK_DEADLOCK FALSE
