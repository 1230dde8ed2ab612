SPECIFICATION TestSpec
CONSTANTS
  MaxSamples = 2
  Readings = {"sample", "error", "invalid", "slow"}
  Sizes = {1, 3, 4, 6}
  Block = 2
  MaxBytes = 4
  Limits = {3, 6}
  Frees = {5, 9}
  Reserve = 2
  Trouble = {"os", "memory", "damage", "short", "rmtree", "interrupt"}
INVARIANTS
  ReturnedIsFinal
  StopsPromptly
  NothingLeft
  LimitsKept
  ResultCovers
  StopsSoon
  EndingHasCause
PROPERTIES
  TestEnds
CHECK_DEADLOCK FALSE
