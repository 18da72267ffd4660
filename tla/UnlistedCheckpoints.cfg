SPECIFICATION Spec
CONSTANTS
  r1 = r1  r2 = r2
  Runs <- TwoRuns
  MaxSteps = 3
  Cadence = 1
  KeepLast = 1
  None = None
  MaxFaults = 1
CHECK_DEADLOCK FALSE
INVARIANTS SealedAreListed
