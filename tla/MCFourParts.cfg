SPECIFICATION OneSpec
CONSTANTS
  NoWorker = NoWorker
  MaxRecovery = 1
  MaxDeliveries = 2
  FlushFaults = TRUE
  SlowWorkers = {FALSE}
  Workers = {w1, w2}
  MaxTurns = 1
  MaxRequeues = 0
  MaxResumes = 1
  MaxPauses = 1
  NeedsApproval = {1}
  MaxFaults = 1
  MaxSlowFaults = 0
  Policies = {1, 2}
  MaxScan = 3
  StandardDays = 0
  ExtendedDays = 1
  MaxDenials = 20
  LastDay = 2
  OtherRows = 1
  MaxRows = 5
  MaxAsks = 2
  MaxRecords = 2
  Desks = {d1, d2}
  Evidence = {e1, e2}
  NoEvidence = NoEvidence
  MaxReviewActs = 6
  Reports = {p1, p2, p3}
  NoReport = NoReport
  People = {h1}
  Unresolved = Unresolved
  LastMoment = 1
  MaxVersion = 5
SYMMETRY Symmetry
INVARIANTS
  SingleExecutor
  NothingGoesUnconfirmed
  RepairsAreConfirmed
  ReviewComesFirst
  VerifiedByLaterRun
CHECK_DEADLOCK FALSE
