\* a sample counted twice after a pause lifted by the monitor
SPECIFICATION FairSpec
CONSTANTS
  N = 4
  Required = 1
  Trigger = 1
  StaleAllowance = 1
  MaxConcurrent = 1
  PendingCap = 5
  PartialRollout = TRUE
  MaxFailures = 0
  TestFreq = 2
PROPERTIES
  Terminates
