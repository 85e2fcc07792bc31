SPECIFICATION FairSpec
CONSTANTS
  Servers = {v1, v2}
  Samples = {s1}
  Group = {1, 2}
  ResponseLength = 2
  ModelLength = 3
  MaxPauses = 2
  MaxFailures = 1
CHECK_DEADLOCK FALSE
INVARIANTS ResponseWhole OneVersionPerRequest LeakPerPause
PROPERTIES PauseEnds ImplementsService
