\* One usual preference plan, carried out by its lane.
SPECIFICATION EitherSpec
CONSTANTS
  r1 = r1  r2 = r2  p1 = p1  p2 = p2  w1 = w1  w2 = w2
  Runs <- TwoRuns
  Procs <- TwoProcs
  Weights <- TwoWeights
  b1 = b1  a1 = a1  a2 = a2
  Base <- OneBase
  Adapter <- TwoAdapters
  Datasets <- OnePairTwice
  NaN = NaN
  LaneSteps = 2  LaneMicro = 1  LaneFaults = 2
  RowOf <- Rows
  MaxLen = 3  MaxPrompt = 1
  Settings <- MeasuredCalls
  Hosts <- MeasuredHosts
  Warmup = 1  LastStep = 3  MaxSamples = 2  TelemetryFaults = 1
  PlanRequests <- OnePreferenceRequest
  PlanHosts <- OneHost
  MaxSteps = 3
  Cadence = 1
  KeepLast = 1
  None = None
  Torn = Torn
  MaxFaults = 1
CHECK_DEADLOCK FALSE
INVARIANT SealedIsApplied
