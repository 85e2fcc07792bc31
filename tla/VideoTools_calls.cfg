SPECIFICATION FairSpec
CONSTANTS
  Calls = {c1, c2, c3}
  Permits = 2
  MaxRetries = 2
  MaxDisconnects = 2
CHECK_DEADLOCK FALSE
INVARIANTS SessionShared
PROPERTIES EveryCallAnswers
