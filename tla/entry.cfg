CONSTANTS
  Users = {u1, u2}
  Agent = agent
  ConfiguredVenues = {"blend"}
  MinDeposit = 1
  MaxDeposit = 9
  UserDepositCap = 3
  TvlCap = 5
  MinHoldingPeriod = 0
  MinRebalanceInterval = 0
  MaxConsecutiveFailures = 2
  MaxCalls <- NoRateLimit
  WindowLedgers = 2
  InitialUsdc = 3
  MaxLedger = 1
  MaxAccrual = 1
  MaxFailures = 3
  DepositAmounts = {2}
  BatchAmounts = {0, 1}
  WithdrawAmounts = {1}
  LockAmounts = {}
  LockPeriods = {}
  Targets = {"blend"}
  Allocations = {}
  MinOuts = {0}
  LeastReport = 0
  DecreaseCaps = {}
  Limits = {9}
  PauseControl = FALSE
  MultiControl = FALSE
  MigrationControl = TRUE
SPECIFICATION Spec
SYMMETRY Symmetry
INVARIANTS
  LedgerConsistent
PROPERTIES
  CapsHold
