SPECIFICATION Spec
CONSTANTS
  PromptTokens = 2
  PromptLength = 2
  ResponseLength = 7
  ModelLength = 9
  MaxAssistantTurns = 0
  MaxUserTurns = 2
  MaxParallelCalls = 2
  LogProbs = TRUE
  MaxCalls = 3
  MaxMessage = 2
  MaxImages = 2
CHECK_DEADLOCK FALSE
INVARIANTS TranscriptConsistent NoInstanceLeft RoomToAnswer
