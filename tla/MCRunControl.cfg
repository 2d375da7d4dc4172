SPECIFICATION ControlSpec
CONSTANTS
  NoWorker = NoWorker
  MaxRecovery = 1
  MaxDeliveries = 2
  FlushFaults = FALSE
  SlowWorkers = {FALSE, TRUE}
  Workers = {w1}
  MaxTurns = 2
  MaxRequeues = 1
  MaxResumes = 3
  MaxPauses = 1
  NeedsApproval = {1}
  MaxFaults = 2
  MaxSlowFaults = 1
INVARIANTS
  ParkedRunIsIdle
  ResumePointIsSafe
  EffectAtMostOnce
  EffectWasApproved
  OneEnd
PROPERTIES
  NoEffectAfterEnd
  StoreSpec
CHECK_DEADLOCK FALSE
