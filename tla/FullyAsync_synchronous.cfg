\* staleness_threshold = 0, two training steps per synchronization, one failing generation
SPECIFICATION Spec
CONSTANTS
  N = 5
  Required = 1
  Trigger = 2
  StaleAllowance = 0
  MaxConcurrent = 2
  PendingCap = 2
  PartialRollout = FALSE
  MaxFailures = 1
  TestFreq = 2
INVARIANTS
  TypeOK
  OnPolicy
