SPECIFICATION Spec
CONSTANTS
  p1 = p1  p2 = p2  r1 = r1  r2 = r2  v1 = v1  v2 = v2
  Procs <- TwoProcs
  Rows <- TwoRows
  Versions <- TwoVersions
  Operations <- AllOperations
  MaxRows = 2
  MaxFaults = 1
  Malformed = Malformed
  Torn = Torn
  None = None
SYMMETRY Symmetry2
INVARIANT FailedCaptureLeavesNothing
