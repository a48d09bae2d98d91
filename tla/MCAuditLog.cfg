CONSTANTS
  Threads = {t1, t2}
  Auditor = auditor
  Deployments <- MCDeployments
  PageSize = 2
  RangeTicks = 1
  MaxTime = 3
SPECIFICATION Spec
INVARIANTS TypeOK AlarmMeansHoleOrKeyChange PassMeansUncut LossesHaveACause MissedOnlyForACause
SYMMETRY ThreadsAlike
CHECK_DEADLOCK FALSE
