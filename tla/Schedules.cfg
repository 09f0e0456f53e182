SPECIFICATION SceneSpec
CONSTANTS
  Scenes = {"all"}
  I128_MAX = 9
  U64_MAX = 7
  Addr = {a, b}
  Contract = c
  Tokens = {t}
  NoAddr = noaddr
  NoStream = nostream
  NoConfig = noconfig
  StreamFields = 13
  WasmHashes <- None
  NoHash = nohash
  Senders = {a}
  Recipients = {a, b, c}
  Treasuries = {b, c}
  Amounts = {4, 9}
  TopUps = {4}
  Durations = {2, 5}
  StepSchedules <- Milestones
  Cliffs <- TwoCliffs
  Batches <- SoloBatches
  FeeRates <- None
  Versions <- None
  Supply = 10
  LegacyDeposits <- None
  MaxStreams = 1
  MaxTime = 6
INVARIANTS NeverTrapped
PROPERTIES EarnedNeverShrinks LinearImplementsDrip
CHECK_DEADLOCK FALSE
