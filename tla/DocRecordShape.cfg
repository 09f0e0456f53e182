SPECIFICATION SceneSpec
CONSTANTS
  Scenes = {"all"}
  I128_MAX = 100000
  U64_MAX = 100
  Addr = {a, b}
  Contract = c
  Tokens = {t}
  NoAddr = noaddr
  NoStream = nostream
  NoConfig = noconfig
  StreamFields = 14
  WasmHashes = {h1}
  NoHash = nohash
  Senders = {a}
  Recipients = {b}
  Treasuries = {b, c}
  Amounts = {10}
  TopUps = {10}
  Durations = {2}
  StepSchedules <- None
  Cliffs <- None
  Batches <- None
  FeeRates = {1000, 1001}
  Versions = {1, 2, 3}
  Supply = 20
  LegacyDeposits = {2}
  MaxStreams = 1
  MaxTime = 1
INVARIANTS NothingBricked
CHECK_DEADLOCK FALSE
