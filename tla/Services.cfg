SPECIFICATION ServicesSpec
CONSTANTS
  Endpoints = {"e1", "e2"}
  Calls = {"k1"}
  FailureThreshold = 2
  Cooldown = 6
  ProbeEvery = 3
  TimeoutTicks = 1
  NoTime = NoTime
  Events = {"v1", "v2"}
  MAX_RETRY_ATTEMPTS = 2
  DisableAfter = 2
  MaxSecrets = 2
  RunwayStreams = {"s1"}
  Checks = {"k1", "k2"}
  WarningAt = 4
  CriticalAt = 2
  DedupWindow = 2
  MaxRunway = 5
  MaxRunwayTroubles = 1
  MaxLcBatches = 3
  Signals = {"SIGTERM", "SIGINT"}
INVARIANTS ServicesTypeOK RpcSound RunwaySound ShutdownIsClean
PROPERTIES WebhookHonest ServicesProgress
CHECK_DEADLOCK FALSE
