SPECIFICATION PagesSpec
CONSTANTS
  Tabs = {t1, t2}
  MaxAttempts = 2
  NoSession = NoSession
  WalletIds = {"freighter", "albedo"}
  MaxTxs = 3
  MAX_POLLS = 1
  STEPS = 2
  Outgoing = {o1}
  Incoming = {n1}
  NoStream = NoStream
  MaxDashTxs = 2
  MaxDetailsTxs = 1
  DetailsOps = {"topup", "cancel"}
  MaxRequests = 5
  MaxEventPages = 2
  IncomingIds = {"s1", "s2"}
  maxRetries = 2
  MaxIncomingTxs = 2
  FormTokens = {"USDC", "XLM"}
  WalletHolds <- Holds
  FormAmounts = {0, 1, 2}
  MaxTyped = 2
  MaxTemplates = 1
  MaxBalanceReqs = 3
  NoBalance = NoBalance
  MaxEdits = 1
  CsvRecipients = {"r1", "r2"}
  CsvFiles <- Files
  Blank = Blank
  MaxBatchTxs = 3
  MAX_RECONNECT_ATTEMPTS = 2
  maxRetryDelay = 3
  MaxSources = 5
  MaxClientEvents = 3
  MAX_NOTIFICATIONS = 2
  SettingTabs = {"t1", "t2"}
  SettingKeys = {"currency", "decimals"}
  SettingValues = {0, 1}
  MaxSaves = 2
  LogTypes = {"CREATED", "PAUSED"}
  PAGE_SIZE = 1
  InitialLog <- Past
  MaxLog = 4
  MaxActRequests = 4
  LiveDeposit = 3
  MaxLiveClock = 5
INVARIANTS PagesTypeOK PagesShowTheTruth TabsAgree NothingComesBack
PROPERTIES LateAnswersIgnored PaidAsReviewed
CHECK_DEADLOCK FALSE
