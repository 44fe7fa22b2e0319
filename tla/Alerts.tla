-------------------------------- MODULE Alerts ---------------------------------
(***************************************************************************)
(* Alerts about what fails repeatedly: the harvest job (harvestJob.ts) and the*)
(* health endpoints (health.ts).  Two state machines without common state. *)
(* What they, the recovery of rebalances and the freeze monitor have in     *)
(* common is stated at the end.                                             *)
(***************************************************************************)
EXTENDS Integers, RebalanceRecovery, FreezeMonitor

(***************************************************************************)
(* The harvest job (harvestJob.ts): runs started by a timer that does not   *)
(* wait for the last one, a streak of failures shared by them, one alert a  *)
(* streak.  Amounts are in units of minYieldUsdc.                           *)
(***************************************************************************)

CONSTANTS
  Harvests,               \* executions of runOnce that may be under way at once
  maxConsecutiveFailures,
  MaxYield                \* bound of the runs

ASSUME HarvestAssumption ==
  maxConsecutiveFailures \in Nat \ {0} /\ MaxYield \in Nat

VARIABLES
  principal,            \* deposits in the vault
  accrued,              \* yield on top of them
  harvest,              \* where each run stands
  consecutiveFailures,
  alertSent,
  alerts                \* alerts raised since the last success or skip

harvestVars ==
  <<principal, accrued, harvest, consecutiveFailures, alertSent, alerts>>

minYieldUsdc == 1

HarvestTypeOK ==
  /\ principal \in Nat /\ accrued \in 0 .. MaxYield
  /\ harvest \in [Harvests -> {"idle", "tvl", "executing", "verifying"}]
  /\ consecutiveFailures \in Nat /\ alertSent \in BOOLEAN
  /\ alerts \in Nat

HarvestInit ==
  /\ principal \in 0 .. 1 /\ accrued = 0
  /\ harvest = [h \in Harvests |-> "idle"]
  /\ consecutiveFailures = 0 /\ alertSent = FALSE /\ alerts = 0

Goes(h, from, to) == harvest[h] = from /\ harvest' = [harvest EXCEPT ![h] = to]
money == <<principal, accrued>>
streakVars == <<consecutiveFailures, alertSent, alerts>>

getTvl == principal + accrued

Success == consecutiveFailures' = 0 /\ alertSent' = FALSE /\ alerts' = 0

Alerts(n) == n >= maxConsecutiveFailures /\ ~alertSent

\* The streak is capped one above the threshold, where nothing changes any more.
Counted(n) == IF n > maxConsecutiveFailures THEN n ELSE n + 1

RecordFailure ==
  /\ consecutiveFailures' = Counted(consecutiveFailures)
  /\ alertSent' = (alertSent \/ Alerts(consecutiveFailures'))
  /\ alerts' = IF Alerts(consecutiveFailures') /\ alerts < 2 THEN alerts + 1 ELSE alerts

BeginHarvest(h) == Goes(h, "idle", "tvl") /\ UNCHANGED money /\ UNCHANGED streakVars

SkipsDust == getTvl < minYieldUsdc

TvlFails(h) == Goes(h, "tvl", "idle") /\ RecordFailure /\ UNCHANGED money

SkipDust(h) == SkipsDust /\ Goes(h, "tvl", "idle") /\ Success /\ UNCHANGED money

SubmitHarvest(h) ==
  /\ ~SkipsDust /\ Goes(h, "tvl", "executing")
  /\ UNCHANGED money /\ UNCHANGED streakVars

\* The vault pays and re-supplies; the yield becomes part of what is managed.
HarvestLands(h) ==
  /\ Goes(h, "executing", "verifying")
  /\ principal' = 1 /\ accrued' = 0
  /\ UNCHANGED streakVars

AfterFailedHarvest == RecordFailure

HarvestFails(h) ==
  /\ Goes(h, "executing", "idle") /\ AfterFailedHarvest /\ UNCHANGED money

\* The second getTvl may fail: the harvest counts all the same.
EndHarvest(h) == Goes(h, "verifying", "idle") /\ Success /\ UNCHANGED money

YieldAccrues ==
  /\ accrued < MaxYield /\ principal > 0 /\ accrued' = accrued + 1
  /\ UNCHANGED <<principal, harvest>> /\ UNCHANGED streakVars

HarvestStep(h) ==
  \/ BeginHarvest(h) \/ TvlFails(h) \/ SkipDust(h) \/ SubmitHarvest(h)
  \/ HarvestLands(h) \/ HarvestFails(h) \/ EndHarvest(h)

HarvestNext == YieldAccrues \/ \E h \in Harvests : HarvestStep(h)

HarvestFairness == \A h \in Harvests : WF_harvestVars(HarvestStep(h))

HarvestSpec == HarvestInit /\ [][HarvestNext]_harvestVars /\ HarvestFairness

(***************************************************************************)
(* Between two successes the owner is alerted at most once, by overlapping  *)
(* runs as by one.                                                          *)
(***************************************************************************)
OneAlertPerStreak == alerts <= 1

(***************************************************************************)
(* When runs only fail from some time on, the owner is alerted.             *)
(***************************************************************************)
FailingIsAlerted ==
  []<>(alerts > 0 \/ consecutiveFailures = 0)

-----------------------------------------------------------------------------
(***************************************************************************)
(* The health endpoints of the agent (health.ts): GET /health asks every    *)
(* dependency, some requests at the same time, records what came back and   *)
(* alerts when a dependency has failed for a whole window.                  *)
(***************************************************************************)

CONSTANTS
  Dependencies,
  ConfiguredDeps,  \* those with a client
  RequiredDeps,    \* requiredDependencies
  Probes,          \* requests that may be open at once
  alertWindow      \* ALERT_WINDOW_MS in ticks of the clock

ASSUME HealthAssumption ==
  ConfiguredDeps \subseteq Dependencies /\ RequiredDeps \subseteq Dependencies
  /\ alertWindow \in Nat \ {0}

VARIABLES
  up,          \* dependencies that answer
  probe,       \* per request: what each check has returned so far
  failingFor,  \* criticalFailureSince: ticks since then plus one, or 0
  alertedDeps,
  alertsSince, \* alerts since the last good result, counted up to 2
  badFor       \* ticks without a good result recorded, up to alertWindow

healthVars == <<up, probe, failingFor, alertedDeps, alertsSince, badFor>>
records == <<failingFor, alertedDeps, alertsSince, badFor>>

IdleProbe == [d \in Dependencies |-> "idle"]
Waiting == [d \in Dependencies |-> "waiting"]

HealthTypeOK ==
  /\ up \subseteq ConfiguredDeps
  /\ probe \in [Probes -> [Dependencies -> {"idle", "waiting", "ok", "error", "not_configured"}]]
  /\ failingFor \in [Dependencies -> 0 .. alertWindow + 1]
  /\ alertedDeps \subseteq Dependencies
  /\ alertsSince \in [Dependencies -> 0 .. 2]
  /\ badFor \in [Dependencies -> 0 .. alertWindow]

HealthInit ==
  /\ up = ConfiguredDeps /\ probe = [p \in Probes |-> IdleProbe]
  /\ failingFor = [d \in Dependencies |-> 0] /\ alertedDeps = {}
  /\ alertsSince = [d \in Dependencies |-> 0] /\ badFor = [d \in Dependencies |-> 0]

\* dependencyIsHealthy
IsHealthy(d, answer) == answer = "ok" \/ (answer = "not_configured" /\ d \notin RequiredDeps)

Smaller(a, b) == IF a < b THEN a ELSE b

Changes(d) ==
  /\ up' \in {up \cup {d}, up \ {d}} \ {up}
  /\ UNCHANGED probe /\ UNCHANGED records

ClockTicks ==
  /\ failingFor' = [d \in Dependencies |->
       IF failingFor[d] = 0 THEN 0 ELSE Smaller(failingFor[d] + 1, alertWindow + 1)]
  /\ badFor' = [d \in Dependencies |-> Smaller(badFor[d] + 1, alertWindow)]
  /\ UNCHANGED <<up, probe, alertedDeps, alertsSince>>

Request(p) ==
  /\ probe[p] = IdleProbe /\ probe' = [probe EXCEPT ![p] = Waiting]
  /\ UNCHANGED up /\ UNCHANGED records

\* checkDatabase, checkRedis, checkStellarRpc: the answer, or their timeout.
CheckOf(d) == IF d \notin ConfiguredDeps THEN "not_configured" ELSE IF d \in up THEN "ok" ELSE "error"
CheckReturns(p, d) ==
  /\ probe[p][d] = "waiting" /\ probe' = [probe EXCEPT ![p][d] = CheckOf(d)]
  /\ UNCHANGED up /\ UNCHANGED records

\* How long d has failed, with this result.
FailureSince(d, ok) == IF ok THEN 0 ELSE IF failingFor[d] = 0 THEN 1 ELSE failingFor[d]

HealthAlerts(d, ok) == ~ok /\ failingFor[d] = alertWindow + 1 /\ d \notin alertedDeps

\* GET /health: all checks are in and recordCheckResult takes each of them.
Records(p) ==
  LET ok(d) == IsHealthy(d, probe[p][d]) IN
  /\ \A d \in Dependencies : probe[p][d] \notin {"idle", "waiting"}
  /\ probe' = [probe EXCEPT ![p] = IdleProbe]
  /\ failingFor' = [d \in Dependencies |-> FailureSince(d, ok(d))]
  /\ alertedDeps' = {d \in Dependencies : ~ok(d) /\ (d \in alertedDeps \/ HealthAlerts(d, ok(d)))}
  /\ alertsSince' = [d \in Dependencies |->
       IF ok(d) THEN 0 ELSE IF HealthAlerts(d, ok(d)) THEN Smaller(alertsSince[d] + 1, 2) ELSE alertsSince[d]]
  /\ badFor' = [d \in Dependencies |-> IF ok(d) THEN 0 ELSE badFor[d]]
  /\ UNCHANGED up

\* GET /health/ready asks the same and records nothing.
Answers(p) ==
  /\ \A d \in Dependencies : probe[p][d] \notin {"idle", "waiting"}
  /\ probe' = [probe EXCEPT ![p] = IdleProbe]
  /\ UNCHANGED up /\ UNCHANGED records

HealthNext ==
  \/ ClockTicks \/ \E d \in ConfiguredDeps : Changes(d)
  \/ \E p \in Probes :
       Request(p) \/ Records(p) \/ Answers(p) \/ \E d \in Dependencies : CheckReturns(p, d)

\* Checks return within their timeouts, time passes, and someone keeps asking
\* GET /health.
HealthFairness ==
  /\ WF_healthVars(ClockTicks)
  /\ \A p \in Probes :
       WF_healthVars(Request(p) \/ \E d \in Dependencies : CheckReturns(p, d))
  /\ SF_healthVars(\E p \in Probes : Records(p))

HealthSpec == HealthInit /\ [][HealthNext]_healthVars /\ HealthFairness

-----------------------------------------------------------------------------
(* Properties. *)

(***************************************************************************)
(* One alert for one outage, and only after a window without a good result, *)
(* whatever requests overlap and however old the answers they record are.   *)
(* The header of the file (health.ts:14-15) has an alert once in each       *)
(* window until the check clears: alertSent is only cleared by a good       *)
(* result, so an outage of many windows gets this one alert.                *)
(***************************************************************************)
OneAlertPerOutage ==
  \A d \in Dependencies :
    /\ alertsSince[d] <= 1
    /\ alertsSince[d] > 0 => badFor[d] = alertWindow

(***************************************************************************)
(* A dependency that stays down, or is required and not configured, is      *)
(* alerted.                                                                 *)
(***************************************************************************)
LongOutageIsAlerted ==
  \A d \in RequiredDeps : <>[](d \notin up) => []<>(d \in alertedDeps)

(***************************************************************************)
(* Each cause is answered once: a streak of failed harvests and an outage   *)
(* by one alert, a freeze by one response; the status of the recovery is    *)
(* what was last learned, and CurrentProtocol is cleared after an alert.    *)
(***************************************************************************)
AnswersMatchCauses ==
  /\ RecoveryTypeOK /\ HarvestTypeOK /\ FreezeTypeOK /\ HealthTypeOK
  /\ OneAlertPerStreak /\ OneAlertPerOutage
  /\ OneResponse /\ DrainedIsQuiet
  /\ StatusIsLatest /\ ClearedOnlyAfterAlert
================================================================================
