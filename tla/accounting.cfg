CONSTANTS
  Users = {u1, u2}
  Agent = agent
  ConfiguredVenues = {"blend"}
  MinDeposit = 1
  MaxDeposit = 9
  UserDepositCap = 0
  TvlCap = 0
  MinHoldingPeriod = 0
  MinRebalanceInterval = 0
  MaxConsecutiveFailures = 2
  MaxCalls <- NoRateLimit
  WindowLedgers = 2
  InitialUsdc = 4
  MaxLedger = 1
  MaxAccrual = 2
  MaxFailures = 3
  DepositAmounts = {2, 4}
  BatchAmounts = {}
  WithdrawAmounts = {1, 3}
  LockAmounts = {}
  LockPeriods = {}
  Targets = {"blend"}
  Allocations = {}
  MinOuts = {0}
  LeastReport = 0
  DecreaseCaps = {}
  Limits = {0, 9}
  PauseControl = FALSE
  MultiControl = FALSE
  MigrationControl = FALSE
SPECIFICATION Spec
SYMMETRY Symmetry
INVARIANTS
  AssetsCover
PROPERTIES
  SharesAreBacked
  DepositorKeepsValue
