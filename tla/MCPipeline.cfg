CONSTANTS
  Findings <- MCFindings
  MaxFindings = 2
  KeywordHits <- MCKeywordHits
  BaseConfigs <- MCBaseConfigs
  Margin = 2
SPECIFICATION Spec
INVARIANTS
  TypeOK ReportMatchesImage PassedMeansClean StrictWithholds
  FailSafeFindingsMasked LeftoversReachAHuman
PROPERTIES MasksOnlyStrengthen Finishes
CHECK_DEADLOCK FALSE
