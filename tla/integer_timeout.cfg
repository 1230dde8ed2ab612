SPECIFICATION Spec
CONSTANTS
  WorkerCounts <- MCWorkerCounts
  OperationTotals <- MCOperationTotals
  Expectations <- MCExpectations
  MaxWorkers = 3
  MemoryWorkers = 2
  MayMiscompute = FALSE
  MayInterrupt = FALSE
INVARIANTS
  CancelledOnlyByRun
CHECK_DEADLOCK FALSE
