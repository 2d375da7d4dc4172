SPECIFICATION PartsSpec
CONSTANTS
  Workers = {w1}
  NoWorker = NoWorker
  MaxTurns = 1
  MaxRecovery = 1
  MaxRequeues = 1
  MaxResumes = 1
  MaxPauses = 1
  Script <- MCScript
  BatchSize = 2
  MaxDeliveries = 2
  MaxFaults = 1
INVARIANTS
  ActiveRunHasLease
  DecisionIsBacked
  SentIsAccountedFor
PROPERTIES
  FinishedStaysFinished
  DecisionIsFinal
  ViewerSpec
  PumpDrains
  RunsMoveOn
CHECK_DEADLOCK FALSE
CONSTRAINT FewMessages
