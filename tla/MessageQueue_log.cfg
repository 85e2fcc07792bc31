SPECIFICATION LogSpec
CONSTANTS
  Consumers = {c1, c2}
  Entries = {sample, nil}
  MaxQueueSize = 2
  MaxProduced = 4
  MaxVersion = 1
INVARIANTS LogTypeOK NoLostWakeup
PROPERTIES ImplementsStream EveryEntryLeaves
CHECK_DEADLOCK TRUE
