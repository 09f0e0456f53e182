SPECIFICATION Spec
CONSTANTS
  Streams = {1, 2}
  Deposit = 2
  Batching = TRUE
  MaxEvents = 4
  Limit = 2
  MaxTroubles = 1
INVARIANTS TypeOK IndexIsFaithful
PROPERTIES CursorNeverRegresses
CHECK_DEADLOCK FALSE
