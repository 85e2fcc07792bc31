SPECIFICATION FairSpec
CONSTANTS
  NumActors = 2
  NumRollouts = 2
  NumParams = 3
  Sizes = {1, 2}
  DeviceBuffer = 2
  MaxUpdates = 2
  MaxFailures = 1
CHECK_DEADLOCK FALSE
INVARIANTS BuffersApart TransferWhole
PROPERTY UpdatesEnd
