SPECIFICATION SuiteSpec
CONSTANTS
  Checks = {c1}
  blend = blend
  Protocols = {blend, dex}
  MaxTxs = 3
  MaxRestarts = 1
  depositorBatch = 4
  DepositorNumbers = {0, 3, 7}
  j1 = j1
  j2 = j2
  j3 = j3
  e1 = e1
  e2 = e2
  RecoveryJobs = {j1, j2, j3}
  KeyOf <- TwoAlike
  LastEvent = 3
  MaxOutages = 1
  Addresses = {1, 2, 3}
  PageSize = 1
  ShareAmounts = {1, 2}
  MaxRows = 2
  MaxPinFailures = 1
  Verifiers = {v1, v2}
  MaxCodes = 2
  k1 = k1
  k2 = k2
  h1 = h1
  h2 = h2
  Keys = {k1, k2}
  WasmHashes = {h1, h2}
  Nothing = Nothing
  Timelock = 1
  MaxLedger = 3
  Tabs = {t1, t2}
  Wallets = {w1, w2}
  NoWallet = NoWallet
  MaxConnects = 1
  p1 = p1
  Portfolios = {p1, p2}
  NoPortfolio = NoPortfolio
  MaxSockets = 3
  MaxRefreshes = 2
  Stores = 2
  FileStores = {2}
  Backups = {b1, b2}
  MaxBackups = 3
  MaxRestores = 2
  MaxReleases = 1
  Keepers = {k1, k2}
  MaxKeys = 3
  Requests = {n1, n2}
  MaxNonces = 2
  MaxSeconds = 3
  Providers = 2
  Parses = {p1, p2}
  FailureThreshold = 3
  SuccessThreshold = 2
  RecoveryTimeout = 1
  MaxFailures = 5
  Details = {d1, d2}
  NoDetails = NoDetails
  NaN = NaN
  Infinity = Infinity
  NonFinite = {NaN, Infinity}
  NoAmount = NoAmount
  Amounts = {0, 1}
  TTL = 1
  MaxTime = 2
  MaxConfirmations = 1
  KeyCount = 2
  Executions = {e1, e2}
  CoolDown = 1
  MaxMoment = 2
  q1 = q1
  Rates = {q1, q2}
  Readers = {g1, g2}
  SampleLife = 1
  MaxTicks = 3
  MaxSamples = 2
  Outages = TRUE
  VenueCalls = {u1, u2}
  VenueAmounts = {0, 2}
  ApyLife = 1
  MaxApyTime = 4
  MaxGets = 2
  BrowserLag = 3
  MaxDelay = 1
  MaxMisses = 1
  MaxReloads = 1
INVARIANTS
  YieldSafety
  RecoverySafety
  TablesReadRight
  ShownIsCurrent
  AddressesNamed
  BackupSafety
  IntentSafety
PROPERTIES
  CredentialsOnce
  UpgradeIsTimelocked
CHECK_DEADLOCK FALSE
