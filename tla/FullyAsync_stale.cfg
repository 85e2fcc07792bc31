\* staleness_threshold = 1
SPECIFICATION Spec
CONSTANTS
  N = 7
  Required = 1
  Trigger = 1
  StaleAllowance = 1
  MaxConcurrent = 2
  PendingCap = 8
  PartialRollout = FALSE
  MaxFailures = 0
  TestFreq = 2
INVARIANTS
  BudgetPlusOne
  StalenessBound
  NothingLeftBehind
  DrainsExclusive
  ProcessorSurvives
PROPERTIES
  StaleLiftOnly
