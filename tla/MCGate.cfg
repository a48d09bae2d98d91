CONSTANTS
  Requests = {r1, r2, r3}
  Configs <- MCConfigs
  Roles <- MCRoles
  Capacity = 1
  Window = 1
  MaxKeys = 2
  CleanupInterval = 2
  RetryLimit = 1
  MaxTime = 2
SPECIFICATION Spec
INVARIANTS TypeOK EnterpriseMeansEnforced WithinCapacity BudgetIsOnesOwn
SYMMETRY RequestsAlike
CHECK_DEADLOCK FALSE
