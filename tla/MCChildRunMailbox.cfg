CONSTANTS
  c1 = c1
  c2 = c2
  Child = {c1, c2}
  NoChild = NoChild
  MaxTurns = 2
  RetryLimit = 0
  MaxCalls = 1
  MaxMessages <- MCMaxMessages
SPECIFICATION Spec
INVARIANT AcceptedMessagesAnswered
CHECK_DEADLOCK FALSE
