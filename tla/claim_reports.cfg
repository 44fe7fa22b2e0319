CONSTANTS
  Users = {u1}
  Agent = agent
  ConfiguredVenues = {"blend"}
  MinDeposit = 1
  MaxDeposit = 9
  UserDepositCap = 0
  TvlCap = 0
  MinHoldingPeriod = 0
  MinRebalanceInterval = 0
  MaxConsecutiveFailures = 2
  MaxCalls <- NoRateLimit
  WindowLedgers = 2
  InitialUsdc = 4
  MaxLedger = 1
  MaxAccrual = 0
  MaxFailures = 3
  DepositAmounts = {2}
  BatchAmounts = {}
  WithdrawAmounts = {1}
  LockAmounts = {}
  LockPeriods = {}
  Targets = {}
  Allocations = {}
  MinOuts = {0}
  LeastReport <- BelowZero
  DecreaseCaps = {10000, 20000}
  Limits = {0}
  PauseControl = FALSE
  MultiControl = FALSE
  MigrationControl = FALSE
SPECIFICATION Spec
INVARIANT TotalNeverNegative
CHECK_DEADLOCK FALSE
