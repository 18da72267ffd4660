SPECIFICATION PartsSpec
CONSTANTS
  a1 = a1  a2 = a2  b1 = b1  b2 = b2  a = a  b = b
  Threads <- TheThreads
  Processes <- TheProcesses
  ProcessOf <- TheProcessOf
  MaxNesting = 3
  Timeout = 2
\* Run records: every command, one crash or failing write.
  Procs = {p1, p2}
  Snapshots = {v1}
  Commands = {"update", "list", "stamp"}
  MaxFaults = 1
  Torn = Torn
\* One read: one version more than the reader remembers while it can still accept.
  Versions = {f1, f2, f3, f4, f5}
  MaxBlocks = 2
  None = None
\* A run with every kind of event, one drifted message and one failing write.
  SilenceTicks = 1
  PreflightTicks = 2
  MaxEvents = 2
  MaxPipe = 1
  MaxDrift = 1
  MaxSetbacks = 1
INVARIANTS PartsTypeOK NothingLeaks HeldMeansLocked FitIsHonest SuccessIsProven ChannelsAgree NoOrphan
PROPERTIES NeverBlocksForever ImplementsExclusiveLock HangIsSignalled KeptUnlessOverlap ImplementsAtomicRead ReadsAndRunsEnd
