SPECIFICATION Spec
CONSTANTS
  MaxTests = 3
  Faults = {"interrupt", "start", "slow", "unhandled", "clock", "io", "cancel"}
INVARIANTS
  SamplersJoined
  PassIsEarned
  SuccessIsComplete
  CancelStopsRun
CHECK_DEADLOCK FALSE
