CONSTANTS
  e1 = e1
  Entry = {e1}
  NoEntry = NoEntry
  Checkpointing = TRUE
  MaxPrompts = 2
  MaxWaits = 0
  MaxTroubles = 1
  MaxCrashes = 0
SPECIFICATION Spec
INVARIANT AcknowledgedStaysInHistory
CHECK_DEADLOCK FALSE
