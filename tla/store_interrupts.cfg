SPECIFICATION Spec
CONSTANTS
  r1 = r1
  r2 = r2
  p1 = p1
  p2 = p2
  b1 = b1
  None = None
  Procs <- MCProcs
  Runs <- MCRuns
  KnownGood <- MCAllGood
  Names <- MCNames
  Reports <- MCReports
  Faults = {"crash", "interrupt", "db"}
  SoleReporter = FALSE
SYMMETRY ProcSymmetry
INVARIANTS
  BaselineSourceStored
  CompareFindsSource
PROPERTIES
  BaselinesImmutable
