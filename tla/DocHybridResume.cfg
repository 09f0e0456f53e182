SPECIFICATION SceneSpec
CONSTANTS
  Scenes = {"all"}
  I128_MAX = 100000
  U64_MAX = 100
  Addr = {a, b}
  Contract = c
  Tokens = {t}
  NoAddr = noaddr
  NoStream = nostream
  NoConfig = noconfig
  StreamFields = 13
  WasmHashes <- None
  NoHash = nohash
  Senders = {a}
  Recipients = {b}
  Treasuries = {b, c}
  Amounts = {4}
  TopUps <- None
  Durations <- None
  StepSchedules <- None
  Cliffs <- TwoCliffs
  Batches <- None
  FeeRates <- None
  Versions <- None
  Supply = 8
  LegacyDeposits <- None
  MaxStreams = 1
  MaxTime = 4
PROPERTIES ResumeOnlyExtends
CHECK_DEADLOCK FALSE
