SPECIFICATION Spec
CONSTANTS
  Script <- MCScript
  BatchSize = 2
  MaxDeliveries = 2
  MaxFaults = 1
PROPERTIES
  SubscriptionEnds
CHECK_DEADLOCK FALSE
