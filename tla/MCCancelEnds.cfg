SPECIFICATION FairSpec
CONSTANTS
  NoWorker = NoWorker
  MaxRecovery = 1
  MaxDeliveries = 2
  FlushFaults = TRUE
  SlowWorkers = {FALSE}
  Workers = {w1}
  MaxTurns = 0
  MaxRequeues = 0
  MaxResumes = 3
  MaxPauses = 1
  NeedsApproval = {}
  MaxFaults = 0
  MaxSlowFaults = 0
PROPERTY
  CancelEnds
CHECK_DEADLOCK FALSE
