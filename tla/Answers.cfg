SPECIFICATION AnswersSpec
CONSTANTS
  I128_MAX = 7
  U64_MAX = 12
  MaxDeposit = 6
  MaxSteps = 3
  MaxAnchor = 3
  ClaimI128Max = 7
  BucketSeconds = 2
  DayUnits = 3
  MaxRaw = 210
  MaxDecimals = 2
  MaxWhole = 2
  DoubleBits = 8
  MaxShift = 20
  Years = {2024, 2025}
  MaxEventsSorted = 3
  DefaultPageSize = 3
  MaxPageSize = 4
  FAILURE_WINDOW = 2
  MIN_SAMPLES_FOR_DEGRADED = 3
  MaxRows = 4
  MaxOutcomes = 5
  Conns = {"c1", "c2", "c3"}
  Ips = {"ip1"}
  Users = {"u1", "u2"}
  IpOf <- ConnIp
  UserOf <- ConnUser
  SseStreams = {"s1"}
  OwnedIds <- Owned
  MaxConnections = 2
  MaxPerIp = 2
  MaxPerUser = 1
  MaxBus = 1
  AuthKeys = {"user", "admin"}
  ADMIN_PUBLIC_KEY = "admin"
  ChallengeTtl = 1
  JWT_EXPIRY_SECONDS = 2
  MaxNonces = 2
  MaxAuthClock = 4
  CacheKeys = {"k1", "k2", "k3"}
  CacheValues = {"v1", "v2"}
  maxItems = 2
  ttlSeconds = 2
  MaxCacheClock = 3
  RtCallers = {"r1", "r2"}
  RtTtl = 2
  MaxRtClock = 4
  Registrations = {"g1", "g2"}
  ExportIds = {"i1", "i2", "i3", "i4", "i5"}
  EarlyRows = {"i1", "i2", "i3", "i4"}
  CreatedAt <- Created
  BATCH_SIZE = 2
  Requests = {q1, q2}
  StreamDeposit = 2
  MaxApiClock = 2
  MaxChainEvents = 2
  SdkStreams = {"a", "b"}
INVARIANTS
  VestingIsExact ClaimableMirrorsContract AmountsKeepTheirValue PlanningAgrees NothingIsSkipped
  RequestsTypeOK SseSound ApiPromiseKept ApiRowsAgree ServedOnce
PROPERTIES
  AuthSound CachesAreFresh
CHECK_DEADLOCK FALSE
