SPECIFICATION LoopSpec
CONSTANTS
  edit = edit
  search = search
  note = note
  Effects = {edit}
  Sources = {search}
  Readers = {search}
  Stores = {note}
  CreateFile = edit
  CreateDocument = note
  Asking = {}
  Goals <- MCGoals
  MaxIterations = 3
  MaxModelCalls = 6
  MaxAttempts = 1
  MaxCrashes = 0
  MaxStops = 0
  MaxReplacements = 1
  LateCheckpoints = TRUE
INVARIANT
  EffectsRemembered
CHECK_DEADLOCK FALSE
