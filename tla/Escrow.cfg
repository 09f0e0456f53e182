SPECIFICATION SceneSpec
CONSTANTS
  Scenes = {"streams", "administration"}
  I128_MAX = 100000
  U64_MAX = 100
  Addr = {a, b}
  Contract = c
  Tokens = {t}
  NoAddr = noaddr
  NoStream = nostream
  NoConfig = noconfig
  StreamFields = 13
  WasmHashes = {h1}
  NoHash = nohash
  Senders = {a}
  Recipients = {b}
  Treasuries = {b, c}
  Amounts = {10}
  TopUps = {5}
  Durations = {3}
  StepSchedules <- OneMilestones
  Cliffs <- OneCliff
  Batches <- PairBatches
  FeeRates = {1000, 1001}
  Versions = {1, 2, 3}
  Supply = 20
  LegacyDeposits = {2}
  MaxStreams = 2
  MaxTime = 3
INVARIANTS TypeOK Solvent StreamsCoherent
PROPERTIES SettledForGood EventsTellAll BreakerHolds
CHECK_DEADLOCK FALSE
