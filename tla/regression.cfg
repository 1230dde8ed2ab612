SPECIFICATION Spec
CONSTANTS
  Keys <- MCKeys
  Higher <- MCHigher
  Values <- MCValues
  Thresholds <- MCThresholds
  SourceMetrics <- MCSourceMetrics
  CurrentMetrics <- MCCurrentMetrics
INVARIANTS
  PassIsEvidence
  FailuresSurface
  OutcomeMonotone
  SelfIsUnchanged
CHECK_DEADLOCK FALSE
