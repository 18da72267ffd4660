\* A dataset of which some rows cannot be rendered, and nobody changes it.
SPECIFICATION Spec
CONSTANTS
  Contents = {all, some, none}
  SomeRows = {some}
  NoRows = {none}
  Trained = all
  MaxChanges = 0
  None = None
INVARIANTS PlannedRowsTrain
CHECK_DEADLOCK FALSE
