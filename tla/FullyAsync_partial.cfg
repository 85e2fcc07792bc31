\* staleness_threshold = 1 with partial rollout and one failing generation
SPECIFICATION FairSpec
CONSTANTS
  N = 3
  Required = 1
  Trigger = 1
  StaleAllowance = 1
  MaxConcurrent = 2
  PendingCap = 2
  PartialRollout = TRUE
  MaxFailures = 1
  TestFreq = 2
INVARIANTS
  PauseHolds
  NoDuplication
  ValidationLogged
PROPERTIES
  TerminatesUndisturbed
