CONSTANTS
  Ids = {0, 1, 2, 3}
  Durations = {3, 4}
  MaxPhases = 3
SPECIFICATION Spec
INVARIANTS Contiguous AnswerRestores
