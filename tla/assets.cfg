CONSTANTS
  Users = {u1, u2}
  Agent = agent
  ConfiguredVenues = {"blend"}
  MinDeposit = 1
  MaxDeposit = 9
  UserDepositCap = 0
  TvlCap = 0
  MinHoldingPeriod = 0
  MinRebalanceInterval = 0
  MaxConsecutiveFailures = 2
  MaxCalls <- TightRateLimit
  WindowLedgers = 2
  InitialUsdc = 2
  MaxLedger = 1
  MaxAccrual = 1
  MaxFailures = 1
  DepositAmounts = {2}
  BatchAmounts = {}
  WithdrawAmounts = {1, 2}
  LockAmounts = {}
  LockPeriods = {}
  Targets = {"blend"}
  Allocations = {}
  MinOuts = {0}
  LeastReport = 0
  DecreaseCaps = {}
  Limits = {0, 9}
  PauseControl = FALSE
  MultiControl = FALSE
  MigrationControl = FALSE
  Assets = {x1}
  AssetLimits <- SomeLimits
  AssetAmounts = {1, 2}
  InitialOther = 2
SPECIFICATION MultiSpec
SYMMETRY Symmetry
INVARIANTS
  PoolsBacked
