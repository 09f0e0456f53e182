SPECIFICATION Spec
CONSTANTS
  Streams = {1}
  Deposit = 2
  Batching = FALSE
  MaxEvents = 3
  Limit = 2
  MaxTroubles = 2
INVARIANTS NoEventLost
PROPERTIES EveryEventDealtWith
CHECK_DEADLOCK FALSE
