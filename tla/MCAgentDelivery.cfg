CONSTANTS
  e1 = e1
  e2 = e2
  Entry = {e1, e2}
  NoEntry = NoEntry
  Checkpointing = TRUE
  MaxPrompts = 1
  MaxWaits = 1
  MaxTroubles = 2
  MaxCrashes = 1
SPECIFICATION Spec
INVARIANTS TypeOK OnePacketPerBatch
PROPERTIES AcknowledgedOnlyWhenConsumed DeliversUntilPaused
CHECK_DEADLOCK FALSE
