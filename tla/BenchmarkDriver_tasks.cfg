CONSTANTS
  Letters = {"A", "B"}
  MaxTurns = 2
  FormatTries = 2
  ChatTries = 2
  ToolTries = 2
  NumQuestions = 2
  Tasks = {"choice", "uav", "interval", "open"}
  JudgeTries = 2
SPECIFICATION FairSpec
INVARIANTS DialogueAlternates LogsAreOwn AnswersCount
PROPERTY SummaryReached
