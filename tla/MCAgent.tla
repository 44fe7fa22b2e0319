-------------------------------- MODULE MCAgent --------------------------------
(***************************************************************************)
(* The jobs of the agent that must get something done in the end.  They    *)
(* share no state: one of them, chosen at the start, moves.                *)
(***************************************************************************)
EXTENDS Scheduler, Failover, Alerts

CONSTANTS r1, r2

\* Each replica has one tick under way, and in the part `overlap' one has two.
SecondTick == <<r1, 2>>
ThreeTicks == {<<r1, 1>>, SecondTick, <<r2, 1>>}

VARIABLE part  \* the component that moves

Parts == {"scheduler", "overlap", "failover", "recovery", "harvest", "freeze", "health"}

Chosen(name) == part = name

suiteVars == <<part, schedVars, failoverVars, recoveryVars, harvestVars, freezeVars,
              healthVars>>

SuiteInit ==
  /\ part \in Parts
  /\ SchedInit /\ FailoverInit /\ RecoveryInit /\ HarvestInit /\ FreezeInit /\ HealthInit
  /\ interval = [r \in Replicas |-> "hourly"]
  /\ part # "harvest" => principal = 0

\* The chosen component takes its steps, the others none.
SuiteNext ==
  /\ UNCHANGED part
  /\ CASE Chosen("scheduler") -> SchedNext /\ ticks'[SecondTick] = Idle
       [] Chosen("overlap") -> SchedNext /\ deadReplicas' = {} /\ enqueued' = 0 /\ changes' = 0
       [] OTHER -> UNCHANGED schedVars
  /\ IF Chosen("failover") THEN FailoverNext ELSE UNCHANGED failoverVars
  /\ IF Chosen("recovery") THEN RecoveryNext ELSE UNCHANGED recoveryVars
  /\ IF Chosen("harvest") THEN HarvestNext ELSE UNCHANGED harvestVars
  /\ IF Chosen("freeze") THEN FreezeNext ELSE UNCHANGED freezeVars
  /\ IF Chosen("health") THEN HealthNext ELSE UNCHANGED healthVars

SuiteSpec ==
  /\ SuiteInit /\ [][SuiteNext]_suiteVars
  /\ \A s \in Slots \ {SecondTick} :
       /\ WF_schedVars(Chosen("scheduler") /\ BeginTick(s[1], s[2]))
       /\ WF_schedVars(Chosen("scheduler") /\ TickStep(s[1], s[2]))
  /\ \A r \in Replicas : WF_schedVars(Chosen("scheduler") /\ JobFallsDue(r))
  /\ \A a \in Agents :
       /\ WF_failoverVars(Chosen("failover") /\ StartInstance(a))
       /\ WF_failoverVars(Chosen("failover") /\ Check(a))
       /\ WF_failoverVars(Chosen("failover") /\ BeatLands(a))
  /\ WF_failoverVars(Chosen("failover") /\ LeaseAges)
  /\ \A f \in Failures : WF_recoveryVars(Chosen("recovery") /\ RecoveryStep(f))
  /\ \A h \in Harvests : WF_harvestVars(Chosen("harvest") /\ HarvestStep(h))
  /\ \A c \in FlagChecks : WF_freezeVars(Chosen("freeze") /\ CheckStep(c))
  /\ WF_healthVars(Chosen("health") /\ ClockTicks)
  /\ \A p \in Probes :
       WF_healthVars(Chosen("health") /\ (Request(p) \/ \E d \in Dependencies : CheckReturns(p, d)))
  /\ SF_healthVars(Chosen("health") /\ \E p \in Probes : Records(p))

\* Without overlapping ticks of one replica.
JobsOfTheAgentRun == ~Chosen("overlap") => QueuedJobsRun

\* The tie-break never leaves the system without a primary, and in the end it has one.
OnePrimaryOfTheAgent ==
  /\ [](FailoverTypeOK /\ TieBreakKeepsPrimary)
  /\ Chosen("failover") => OnePrimaryInTheEnd

\* Each cause is answered in the end: failed rebalances, failing harvests, a freeze of the
\* issuer and an outage that lasts.
CausesAnswered ==
  FailureAnswered /\ FailingIsAlerted /\ FreezeAnswered /\ LongOutageIsAlerted
================================================================================
