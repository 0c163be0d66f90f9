CONSTANTS
  c1 = c1
  c2 = c2
  Child = {c1, c2}
  NoChild = NoChild
  MaxTurns = 2
  RetryLimit = 1
  MaxCalls = 2
  MaxMessages <- MCMaxMessages
SPECIFICATION Spec
INVARIANTS TypeOK PanelServesQueue MessagesKeepOrder CompletedRunAnswers
PROPERTY InterruptedRunEnds
CHECK_DEADLOCK FALSE
