SPECIFICATION WorkerSpec
CONSTANTS
  Uploaders = {u1, u2}
  Names = {"f1", "f2"}
  MaxUploads = 2
  MaxUploadFaults = 1
  Events = {e1, e2}
  Publishers = {p1, p2}
  Unpublishable = {e2}
  BatchSize = 2
  MaxRetries = 2
  MaxFaults = 2
  edit = edit
  other = other
  search = search
  rag = rag
  note = note
  Effects = {edit, other}
  Sources = {search, rag}
  Readers = {search}
  Stores = {note}
  CreateFile = edit
  CreateDocument = note
  Asking = {other}
  Goals <- MCGoals
  MaxIterations = 2
  MaxModelCalls = 4
  MaxAttempts = 1
  MaxCrashes = 1
  MaxStops = 1
  MaxReplacements = 1
  LateCheckpoints = FALSE
INVARIANTS
  NoDuplicateOnStream
  DeliveredWasPublished
  BudgetOnlyForErrors
  OneLiveUpload
  SuccessIsWhole
  NothingUnapproved
  EffectsRemembered
  EffectsInScope
  BudgetsHold
PROPERTIES
  ImplementsAbstract
  EventuallySettled
  CompletedIsEarned
  LoopEnds
CHECK_DEADLOCK FALSE
