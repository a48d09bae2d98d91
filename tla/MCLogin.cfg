CONSTANTS
  Logins = {l1, l2}
  Calls = {c1, c2}
  Browsers = {b1, b2}
  Users = {alice}
  Configs <- MCConfigs
  MaxPending = 1
  KeyLife = 2
  DiscoveryLife = 2
  RetryLimit = 1
  MaxTime = 2
  MaxFaults = 2
SPECIFICATION Spec
INVARIANTS TypeOK SessionsComeOfOneOwnLogin LoginFailsForAReason
SYMMETRY Alike
CHECK_DEADLOCK FALSE
