SPECIFICATION Spec
CONSTANTS
  r1 = r1
  r2 = r2
  p1 = p1
  p2 = p2
  b1 = b1
  None = None
  Procs <- MCProcs
  Runs <- MCRuns
  KnownGood <- MCOneGood
  Names <- MCNames
  Reports <- MCReports
  Faults = {"crash", "write", "db", "undo", "move"}
  SoleReporter = TRUE
SYMMETRY ProcSymmetry
INVARIANTS
  TypeOK
  CanonicalPresent
  RegisteredOnDisk
PROPERTIES
  ImplementsLedger
