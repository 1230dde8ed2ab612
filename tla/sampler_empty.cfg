SPECIFICATION Spec
CONSTANTS
  MaxSamples = 3
  Readings = {"sample"}
INVARIANTS
  SampledImmediately
CHECK_DEADLOCK FALSE
