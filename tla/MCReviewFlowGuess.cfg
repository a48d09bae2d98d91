CONSTANTS
  Requests = {r1, r2, r3}
  Scenarios <- MCScenarios
  Permissions <- MCPermissions
  MaxJobs = 2
  MaxTokens = 1
  ImageWidth = 8
SPECIFICATION Spec
INVARIANT DroppedGuessIsMasked
SYMMETRY RequestsAlike
CHECK_DEADLOCK FALSE
