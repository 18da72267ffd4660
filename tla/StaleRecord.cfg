\* A record loaded before another command ended the run is saved after it.
CONSTANTS
  Procs = {p1, p2}
  Snapshots = {v1}
  Commands = {"update", "list", "stamp"}
  MaxFaults = 0
  Torn = Torn
  None = None
SPECIFICATION Spec
PROPERTY TerminalStays
