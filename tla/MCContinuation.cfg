SPECIFICATION ControlSpec
CONSTANTS
  NoWorker = NoWorker
  MaxRecovery = 1
  MaxDeliveries = 1
  FlushFaults = TRUE
  SlowWorkers = {FALSE}
  Workers = {w1}
  MaxTurns = 2
  MaxRequeues = 0
  MaxResumes = 1
  MaxPauses = 0
  NeedsApproval = {1}
  MaxFaults = 1
  MaxSlowFaults = 0
INVARIANT
  EffectAtMostOnce
CHECK_DEADLOCK FALSE
