SPECIFICATION RagSpec
CONSTANTS
  RagWorkers = {r1}
  NoRagWorker = NoRagWorker
  RagHandlers = {g1}
  Assets = {a1}
  MaxChunks = 1
  ListLimit = 1
  DeleteLimit = 1
  MaxAttempts = 2
  MaxEmbeds = 2
  MaxRequests = 2
  MaxEnqueues = 1
  EarlyReadd = TRUE
  MaxRagFaults = 1
PROPERTY
  JobEnds
CHECK_DEADLOCK FALSE
