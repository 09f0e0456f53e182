SPECIFICATION Spec
CONSTANTS
  Streams = {1}
  Deposit = 2
  Batching = FALSE
  MaxEvents = 3
  Limit = 2
  MaxTroubles = 1
PROPERTIES ResetSurvivesPolls
CHECK_DEADLOCK FALSE
