SPECIFICATION StabilitySpec
CONSTANTS
  WorkerCounts <- MCWorkerCounts
  OperationTotals <- MCOperationTotals
  Expectations <- MCExpectations
  MaxWorkers = 3
  MemoryWorkers = 2
  MayMiscompute = TRUE
  MayInterrupt = TRUE
  Repetitions = 3
  Durations <- MCDurations
  WarnPercent = 50
INVARIANTS
  PoolDrained
  ResultComplete
  StabilityVerdict
  RepetitionsEndWithCause
  OutliersTolerated
PROPERTIES
  RepetitionsStop
CHECK_DEADLOCK FALSE
