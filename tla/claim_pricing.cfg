CONSTANTS
  Users = {u1}
  Agent = agent
  ConfiguredVenues = {"blend"}
  MinDeposit = 1
  MaxDeposit = 9
  UserDepositCap = 0
  TvlCap = 0
  MinHoldingPeriod = 0
  MinRebalanceInterval = 0
  MaxConsecutiveFailures = 2
  MaxCalls <- NoRateLimit
  WindowLedgers = 2
  InitialUsdc = 4
  MaxLedger = 1
  MaxAccrual = 0
  MaxFailures = 3
  DepositAmounts = {2}
  BatchAmounts = {}
  WithdrawAmounts = {1, 2}
  LockAmounts = {}
  LockPeriods = {}
  Targets = {}
  Allocations = {}
  MinOuts = {0}
  LeastReport = 0
  DecreaseCaps = {}
  Limits = {0}
  PauseControl = FALSE
  MultiControl = FALSE
  MigrationControl = FALSE
  Assets = {x1}
  AssetLimits <- Unlimited
  AssetAmounts = {2}
  InitialOther = 2
SPECIFICATION MultiSpec
PROPERTY IndependentPricing
