SPECIFICATION Spec
CONSTANTS
  Procs = {"p1", "p2"}
  Runs = {"r1"}
  Statements = 2
  Faults = {"crash", "statement"}
  RegisterValues = 8
  MaxSubleaves = 3
  MinimumFree = 1
  Commands <- MCCommands
  Hosts <- MCHosts
  Moments <- MCMoments
  Tests <- MCTests
  Executions <- MCExecutions
INVARIANTS
  ConflictOnce
  ReportIsWhole
  NativeDetailTrue
  FingerprintStable
  DoctorPredicts
  AbsentNeverPasses
  ReportTruthful
PROPERTIES
  SchemaSafe
  ImplementsArchive
CHECK_DEADLOCK FALSE
