CONSTANTS
  Users = {u1}
  Agent = agent
  ConfiguredVenues = {"blend"}
  MinDeposit = 1
  MaxDeposit = 9
  UserDepositCap = 0
  TvlCap = 0
  MinHoldingPeriod = 1
  MinRebalanceInterval = 0
  MaxConsecutiveFailures = 2
  MaxCalls <- TightRateLimit
  WindowLedgers = 2
  InitialUsdc = 3
  MaxLedger = 3
  MaxAccrual = 1
  MaxFailures = 3
  DepositAmounts = {3}
  BatchAmounts = {}
  WithdrawAmounts = {2}
  LockAmounts <- SomeLocks
  LockPeriods = {1}
  Targets = {"blend"}
  Allocations = {}
  MinOuts = {0}
  LeastReport = 0
  DecreaseCaps = {}
  Limits = {1, 9}
  PauseControl = TRUE
  MultiControl = FALSE
  MigrationControl = FALSE
SPECIFICATION Spec
INVARIANTS
  EmergencyExitOpen
PROPERTIES
  LockedSharesStay
