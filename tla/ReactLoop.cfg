CONSTANTS
  MaxTurns = 2
  MaxToolCalls = 3
  MaxIterations = 2
  MaxRetries = 1
SPECIFICATION Spec
CHECK_DEADLOCK FALSE
INVARIANTS
  UserTurnLast
  ToolBudget
  WritesAuthorised
  ConversationKept
