SPECIFICATION RunSpec
CONSTANTS
  p1 = p1  p2 = p2  a = a  b = b
  Procs <- TwoProcs
  Contents <- TwoContents
  Operations <- AllOperations
  None = None
  MaxFaults = 1
  FileContents = {all, some, none}  SomeRows = {some}  NoRows = {none}
  TrainedBytes = some  all = all
  MaxChanges = 2
  c1 = c1  c2 = c2
  History <- TwoCommits
  MaxMoves = 1  MaxMeddling = 1
  t1 = t1  t2 = t2  t3 = t3
  Link = Link  Malformed = Malformed
  MaxEdits = 1
  ProbeRecipes <- AllKinds
  MaxReading = 2  MaxFlaws = 1
SYMMETRY Symmetry
INVARIANTS RunTypeOK SealIsDurable SettledRecords RunsWhatWasPlanned TrainsOnSeal AdmittedIsTrained SealIsTrue ClaimsAreEarned InspectionIsTrue
PROPERTIES SealImmutable ForeignKept
