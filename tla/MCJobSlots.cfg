CONSTANTS
  Requests = {r1, r2, r3, r4}
  MaxConcurrentJobs = 2
SPECIFICATION Spec
INVARIANTS CountIsHolders BoundedWorkers
PROPERTIES RefusedOnlyWhenFull CapacityReturns PoolSpec
