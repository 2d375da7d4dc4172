SPECIFICATION MaintSpec
CONSTANTS
  Policies = {1}
  MaxScan = 1
  StandardDays = 1
  ExtendedDays = 2
  MaxDenials = 20
  LastDay = 0
  OtherRows = 0
  MaxRows = 6
  MaxAsks = 2
  MaxRecords = 2
INVARIANT
  OneReplacement
CHECK_DEADLOCK FALSE
