SPECIFICATION SuiteSpec
CONSTANTS
  r1 = r1
  r2 = r2
  Replicas = {r1, r2}
  Served = {r1}
  MortalReplicas = {r2}
  Slots <- ThreeTicks
  NoOwner = NoOwner
  Intervals = {"hourly", "daily"}
  Triggers = {"tvl_change"}
  Threshold = 1
  MaxEnqueued = 1
  MaxChanges = 1
  Agents = {1, 2}
  MaxFaults = 2
  Failures = {f1, f2}
  Harvests = {h1, h2}
  maxConsecutiveFailures = 3
  MaxYield = 2
  FlagChecks = {g1, g2}
  MaxFlips = 3
  MaxFreezeMisses = 1
  Dependencies = {"database", "redis"}
  ConfiguredDeps = {"database"}
  RequiredDeps = {"database"}
  Probes = {b1, b2}
  alertWindow = 2
INVARIANTS
  AnswersMatchCauses
PROPERTIES
  SchedulerSafety
  JobsOfTheAgentRun
  OnePrimaryOfTheAgent
  CausesAnswered
CHECK_DEADLOCK FALSE
