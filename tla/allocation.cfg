CONSTANTS
  Users = {u1}
  Agent = agent
  ConfiguredVenues = {"blend", "dex"}
  MinDeposit = 1
  MaxDeposit = 9
  UserDepositCap = 0
  TvlCap = 0
  MinHoldingPeriod = 0
  MinRebalanceInterval = 1
  MaxConsecutiveFailures = 2
  MaxCalls <- NoRateLimit
  WindowLedgers = 2
  InitialUsdc = 2
  MaxLedger = 2
  MaxAccrual = 1
  MaxFailures = 2
  DepositAmounts = {2}
  BatchAmounts = {}
  WithdrawAmounts = {1}
  LockAmounts = {}
  LockPeriods = {}
  Targets = {"none", "blend", "dex"}
  Allocations <- SomeAllocations
  MinOuts = {0, 2}
  LeastReport <- BelowZero
  DecreaseCaps = {5000, 10000}
  Limits = {0, 1, 9}
  PauseControl = TRUE
  MultiControl = TRUE
  MigrationControl = FALSE
SPECIFICATION Spec
INVARIANTS
  TypeOK
  Solvency
  FundsReachable
  EveryoneCanLeave
PROPERTIES
  BreakerTrips
  DeploymentsGuarded
