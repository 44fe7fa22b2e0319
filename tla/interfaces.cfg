SPECIFICATION SuiteSpec
CONSTANTS
  Polls = {p1, p2}
  PageLimit = 2
  LastLedger = 4
  MaxListenerFaults = 1
  m1 = m1
  m2 = m2
  m3 = m3
  m4 = m4
  m5 = m5
  Messages = {m1, m2, m3, m4, m5}
  TextOf <- Conversation
  MaxRepeats = 1
  MaxWallets = 2
  MaxStalls = 1
  Transfers = {t1}
  MonitorChecks = {n1, n2}
  MaxMessages = 2
  MaxRetried = 1
  a1 = a1
  Accounts = {a1, a2}
  MaxAttempts = 2
  NoticeTypes = {"deposit_confirmed", "security_alert"}
  BatchWindows = {0, 60}
  MaxNotices = 2
  EventTopics = {"deposit"}
  Listeners = {"u1"}
  Loops = {l1, l2}
  batchSize = 2
  TipLedger = 3
  MaxEvents = 3
  MaxHandlers = 1
  testnet = testnet
  PageNetworks = {testnet, mainnet}
  MaxLedger = 2
  MaxChanges = 1
  FormUsers = {w1, w2}
  Nobody = Nobody
  MaxEstimates = 2
  MaxOpenings = 2
INVARIANTS
  NoEventIsPassed
  WorkIsDoneOnce
  ConfirmedWasExecuted
  DialogTellsTruth
PROPERTIES
  WorkIsDone
  ScreensConverge
CHECK_DEADLOCK FALSE
