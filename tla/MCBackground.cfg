SPECIFICATION BackgroundSpec
CONSTANTS
  RagWorkers = {r1}
  NoRagWorker = NoRagWorker
  RagHandlers = {g1, g2}
  Assets = {a1, a2}
  MaxChunks = 2
  ListLimit = 1
  DeleteLimit = 2
  MaxAttempts = 2
  MaxEmbeds = 2
  MaxRequests = 2
  MaxEnqueues = 2
  EarlyReadd = FALSE
  MaxRagFaults = 1
  Scanners = {s1}
  Handlers = {h1}
  NoRow = NoRow
  LastSlot = 1
  MaxDispatches = 2
  MaxEdits = 2
  MaxScheduleFaults = 1
  Runs = {n1}
  Extractors = {x1, x2}
  Tabs = {t1, t2}
  Keys = {k1}
  Contents = {y1, y2}
  NoContent = NoContent
  Nobody = Nobody
  MaxSpecs = 1
  MaxTries = 2
  ClaimLimit = 2
  MaxActs = 3
  MaxCrashes = 2
INVARIANTS
  ReadyIsServable
  IndexingHasJob
  OneTaskPerExecution
PROPERTIES
  IndexingEnds
  SlotsAreServed
  DecidedOnceAsSeen
  
CHECK_DEADLOCK FALSE
