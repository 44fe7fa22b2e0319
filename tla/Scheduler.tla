------------------------------- MODULE Scheduler -------------------------------
(***************************************************************************)
(* The rebalance scheduler of several replicas (agent/src/scheduler.ts):   *)
(* each has a queue of jobs in memory and ticks that overlap at every      *)
(* await; a lease in a shared store decides who emits the scheduled job.   *)
(* Clocks are abstracted to what they decide: whether the interval since   *)
(* a replica's last run has elapsed, whether a job is due and whether a    *)
(* lease is still live.                                                    *)
(***************************************************************************)
EXTENDS Naturals, Sequences, FiniteSets

CONSTANTS
  Replicas,
  Served,         \* replicas whose callers enqueue jobs
  MortalReplicas, \* replicas that may crash
  Slots,          \* <<r, n>>: the n-th tick of r that may be under way at once
  NoOwner,
  Intervals,      \* values of config.interval, each with a lease key of its own
  Triggers,       \* triggers of the jobs callers enqueue
  Threshold,      \* circuitBreakerThreshold
  MaxEnqueued,    \* jobs callers enqueue in a behaviour
  MaxChanges      \* changes of the interval in a behaviour

ASSUME SchedulerAssumption ==
  /\ NoOwner \notin Replicas /\ Slots \subseteq Replicas \X Nat
  /\ Served \cup MortalReplicas \subseteq Replicas
  /\ Triggers \subseteq {"utilization_spike", "tvl_change", "manual"}
  /\ Threshold \in Nat \ {0} /\ MaxEnqueued \in Nat /\ MaxChanges \in Nat

VARIABLES
  todo,       \* queue: the jobs of each replica, sorted
  streak,     \* consecutiveFailures
  tripped,    \* circuitBreakerTripped
  elapsed,    \* has the interval passed since lastRunAt, or is that null?
  held,       \* leaseHeld
  interval,   \* config.interval
  lease,      \* the store: owner of each key, and whether its lease is live
  ticks,      \* what each tick of each replica awaits
  deadReplicas,       \* replicas that crashed
  astray,     \* replicas whose lease lapsed, or was released, under a job
  enqueued, changes

schedVars == <<todo, streak, tripped, elapsed, held, interval, lease, ticks, deadReplicas,
               astray, enqueued, changes>>

AllTriggers == Triggers \cup {"scheduled"}
\* `later': dueAt is past the clock that the next tick reads.
RebalanceJob == [trigger : AllTriggers, later : BOOLEAN]
TickState ==
  [step : {"idle", "renewing", "acquiring", "granted", "gas", "running", "releasing"},
   trigger : AllTriggers]
Idle == [step |-> "idle", trigger |-> "scheduled"]
NoLease == [owner |-> NoOwner, live |-> FALSE]

SchedTypeOK ==
  /\ todo \in [Replicas -> Seq(RebalanceJob)]
  /\ streak \in [Replicas -> Nat]
  /\ tripped \in [Replicas -> BOOLEAN]
  /\ elapsed \in [Replicas -> BOOLEAN]
  /\ held \in [Replicas -> BOOLEAN]
  /\ interval \in [Replicas -> Intervals]
  /\ lease \in [Intervals -> [owner : Replicas \cup {NoOwner}, live : BOOLEAN]]
  /\ ticks \in [Slots -> TickState]
  /\ deadReplicas \subseteq Replicas /\ astray \subseteq Replicas
  /\ enqueued \in 0..MaxEnqueued /\ changes \in 0..MaxChanges

SchedInit ==
  /\ todo = [r \in Replicas |-> <<>>]
  /\ streak = [r \in Replicas |-> 0]
  /\ tripped = [r \in Replicas |-> FALSE]
  /\ elapsed = [r \in Replicas |-> TRUE]
  /\ held = [r \in Replicas |-> FALSE]
  /\ \E i \in Intervals : interval = [r \in Replicas |-> i]
  /\ lease = [i \in Intervals |-> NoLease]
  /\ ticks = [s \in Slots |-> Idle]
  /\ deadReplicas = {} /\ astray = {}
  /\ enqueued = 0 /\ changes = 0

-----------------------------------------------------------------------------
(* The queue. *)

PRIORITY == [utilization_spike |-> 0, tvl_change |-> 1, manual |-> 2, scheduled |-> 3]

SortsBefore(j, k) ==
  \/ PRIORITY[j.trigger] < PRIORITY[k.trigger]
  \/ PRIORITY[j.trigger] = PRIORITY[k.trigger] /\ ~j.later /\ k.later

\* push and sort: the job comes after all it does not sort before.
Places(q, j) == {n \in 0 .. Len(q) : \A k \in 1 .. Len(q) : (k > n) <=> SortsBefore(j, q[k])}
Enqueued(q, j) ==
  LET n == CHOOSE n \in Places(q, j) : TRUE IN
  SubSeq(q, 1, n) \o <<j>> \o SubSeq(q, n + 1, Len(q))

\* Mutant of Drains: takes the scheduled job only.
DrainsScheduled(q, open) == q # <<>> /\ Head(q) = [trigger |-> "scheduled", later |-> FALSE] /\ ~open
\* The test of the loop in tick.
Drains(q, open) == q # <<>> /\ ~Head(q).later /\ ~open

\* Tick t of r enters the loop with queue q and breaker `open', in which it
\* shifts the first job, or ends.
Continue(r, t, q, open) ==
  IF Drains(q, open)
    THEN /\ todo' = [todo EXCEPT ![r] = Tail(q)]
         /\ ticks' = [ticks EXCEPT ![<<r, t>>] =
              [step    |-> IF Head(q).trigger = "scheduled" THEN "gas" ELSE "running",
               trigger |-> Head(q).trigger]]
    ELSE /\ todo' = [todo EXCEPT ![r] = q]
         /\ ticks' = [ticks EXCEPT ![<<r, t>>] = Idle]

\* Callers: enqueue, onTvlObservation, onUtilizationObservation.
EnqueueJob(r) ==
  /\ r \in Served \ deadReplicas /\ enqueued < MaxEnqueued
  /\ \E j \in [trigger : Triggers, later : BOOLEAN] :
       todo' = [todo EXCEPT ![r] = Enqueued(@, j)]
  /\ enqueued' = enqueued + 1
  /\ UNCHANGED <<streak, tripped, elapsed, held, interval, lease, ticks, deadReplicas, 
                 astray, changes>>

SetInterval(r) ==
  /\ r \notin deadReplicas /\ changes < MaxChanges
  /\ \E i \in Intervals \ {interval[r]} : interval' = [interval EXCEPT ![r] = i]
  /\ changes' = changes + 1
  /\ UNCHANGED <<todo, streak, tripped, elapsed, held, lease, ticks, deadReplicas, 
                 astray, enqueued>>

-----------------------------------------------------------------------------
(* tick *)

HasPendingScheduled(r) == \E k \in DOMAIN todo[r] : todo[r][k].trigger = "scheduled"

BeginTick(r, t) ==
  /\ r \notin deadReplicas /\ ticks[<<r, t>>].step = "idle" /\ ~tripped[r]
  /\ IF ~HasPendingScheduled(r) /\ elapsed[r]
       THEN /\ ticks' = [ticks EXCEPT ![<<r, t>>].step =
                           IF held[r] THEN "renewing" ELSE "acquiring"]
            /\ UNCHANGED todo
       ELSE Continue(r, t, todo[r], FALSE)
  /\ UNCHANGED <<streak, tripped, elapsed, held, interval, lease, deadReplicas, astray,
                 enqueued, changes>>

\* LeaseStore.renew looks at the owner, not at the time.
RenewLease(r, t) ==
  LET key == interval[r] IN
  /\ ticks[<<r, t>>].step = "renewing"
  /\ IF lease[key].owner = r
       THEN /\ lease' = [lease EXCEPT ![key].live = TRUE]
            /\ ticks' = [ticks EXCEPT ![<<r, t>>].step = "granted"]
            /\ UNCHANGED held
       ELSE /\ held' = [held EXCEPT ![r] = FALSE]
            /\ ticks' = [ticks EXCEPT ![<<r, t>>].step = "acquiring"]
            /\ UNCHANGED lease
  /\ UNCHANGED <<todo, streak, tripped, elapsed, interval, deadReplicas, astray, enqueued, changes>>

\* Mutant of Grants: takes the lease from a live owner.
GrantsAny(key, r) == TRUE
\* LeaseStore.acquire.
Grants(key, r) == ~lease[key].live \/ lease[key].owner \in {r, NoOwner}

AcquireLease(r, t) ==
  LET key == interval[r] IN
  /\ ticks[<<r, t>>].step = "acquiring"
  /\ IF Grants(key, r)
       THEN /\ lease' = [lease EXCEPT ![key] = [owner |-> r, live |-> TRUE]]
            /\ held' = [held EXCEPT ![r] = TRUE]
            /\ ticks' = [ticks EXCEPT ![<<r, t>>].step = "granted"]
            /\ UNCHANGED todo
       ELSE /\ Continue(r, t, todo[r], tripped[r])
            /\ UNCHANGED <<lease, held>>
  /\ UNCHANGED <<streak, tripped, elapsed, interval, deadReplicas, astray, enqueued, changes>>

\* The store answers with an error.
LeaseStoreFails(r, t) ==
  /\ ticks[<<r, t>>].step \in {"renewing", "acquiring"}
  /\ Continue(r, t, todo[r], tripped[r])
  /\ UNCHANGED <<streak, tripped, elapsed, held, interval, lease, deadReplicas, astray,
                 enqueued, changes>>

\* enqueue reads the clock again: the job may be due after this tick's `now'.
EmitScheduled(r, t) ==
  /\ ticks[<<r, t>>].step = "granted"
  /\ \E late \in BOOLEAN :
       Continue(r, t, Enqueued(todo[r], [trigger |-> "scheduled", later |-> late]), tripped[r])
  /\ UNCHANGED <<streak, tripped, elapsed, held, interval, lease, deadReplicas, astray,
                 enqueued, changes>>

-----------------------------------------------------------------------------
(* runJob *)

\* The gas price is too high: neither lastRunAt nor the lease is touched.
SkipForGas(r, t) ==
  /\ ticks[<<r, t>>].step = "gas"
  /\ Continue(r, t, todo[r], tripped[r])
  /\ UNCHANGED <<streak, tripped, elapsed, held, interval, lease, deadReplicas, astray,
                 enqueued, changes>>

GasAccepted(r, t) ==
  /\ ticks[<<r, t>>].step = "gas"
  /\ ticks' = [ticks EXCEPT ![<<r, t>>].step = "running"]
  /\ UNCHANGED <<todo, streak, tripped, elapsed, held, interval, lease, deadReplicas, astray,
                 enqueued, changes>>

Trips(n) == n >= Threshold

\* The executor's promise settles: the outcome is recorded, and a scheduled
\* job goes on to release the lease.
FinishJob(r, t) ==
  /\ ticks[<<r, t>>].step = "running"
  /\ elapsed' = [elapsed EXCEPT ![r] = FALSE]
  /\ \E success \in BOOLEAN :
       LET failures == IF success THEN 0 ELSE streak[r] + 1 IN
       /\ streak' = [streak EXCEPT ![r] = failures]
       /\ tripped' = [tripped EXCEPT ![r] = @ \/ (~success /\ Trips(failures))]
       /\ IF ticks[<<r, t>>].trigger = "scheduled" /\ held[r]
            THEN /\ ticks' = [ticks EXCEPT ![<<r, t>>].step = "releasing"]
                 /\ UNCHANGED todo
            ELSE Continue(r, t, todo[r], tripped'[r])
  /\ UNCHANGED <<held, interval, lease, deadReplicas, astray, enqueued, changes>>

\* r has a job that was emitted under the lease and has not ended.
Emitted(r) ==
  \/ HasPendingScheduled(r)
  \/ \E s \in Slots : s[1] = r /\ ticks[s].trigger = "scheduled"
                       /\ ticks[s].step \in {"granted", "gas", "running"}

\* releaseLease, with the key of the interval as it is now; an error of the
\* store leaves leaseHeld.
ReleaseLease(r, t) ==
  LET key == interval[r] IN
  /\ ticks[<<r, t>>].step = "releasing"
  /\ \/ /\ held' = [held EXCEPT ![r] = FALSE]
        /\ lease' = IF lease[key].owner = r THEN [lease EXCEPT ![key] = NoLease] ELSE lease
     \/ UNCHANGED <<held, lease>>
  /\ astray' = IF Emitted(r) THEN astray \cup {r} ELSE astray
  /\ Continue(r, t, todo[r], tripped[r])
  /\ UNCHANGED <<streak, tripped, elapsed, interval, deadReplicas, enqueued, changes>>

-----------------------------------------------------------------------------
(* Time and crashes. *)

IntervalElapses(r) ==
  /\ ~elapsed[r]
  /\ elapsed' = [elapsed EXCEPT ![r] = TRUE]
  /\ UNCHANGED <<todo, streak, tripped, held, interval, lease, ticks, deadReplicas, astray, enqueued,
                 changes>>

JobFallsDue(r) ==
  /\ \E k \in DOMAIN todo[r] :
       /\ todo[r][k].later
       /\ \A l \in 1..(k - 1) : todo[r][l].trigger = todo[r][k].trigger => ~todo[r][l].later
       /\ todo' = [todo EXCEPT ![r][k].later = FALSE]
  /\ UNCHANGED <<streak, tripped, elapsed, held, interval, lease, ticks, deadReplicas, astray,
                 enqueued, changes>>

LeaseLapses(key) ==
  /\ lease[key].live
  /\ lease' = [lease EXCEPT ![key].live = FALSE]
  /\ astray' = IF lease[key].owner \in Replicas /\ Emitted(lease[key].owner)
               THEN astray \cup {lease[key].owner} ELSE astray
  /\ UNCHANGED <<todo, streak, tripped, elapsed, held, interval, ticks, deadReplicas, enqueued,
                 changes>>

\* A replica dies; one that comes back has another replicaId.
ReplicaCrashes(r) ==
  /\ r \in MortalReplicas \ deadReplicas
  /\ deadReplicas' = deadReplicas \cup {r}
  /\ todo' = [todo EXCEPT ![r] = <<>>]
  /\ ticks' = [s \in Slots |-> IF s[1] = r THEN Idle ELSE ticks[s]]
  /\ UNCHANGED <<streak, tripped, elapsed, held, interval, lease, astray, enqueued,
                 changes>>

TickStep(r, t) ==
  \/ RenewLease(r, t) \/ AcquireLease(r, t) \/ LeaseStoreFails(r, t) \/ EmitScheduled(r, t)
  \/ SkipForGas(r, t) \/ GasAccepted(r, t) \/ FinishJob(r, t) \/ ReleaseLease(r, t)

SchedNext ==
  \/ \E r \in Replicas :
       \/ EnqueueJob(r) \/ SetInterval(r)
       \/ IntervalElapses(r) \/ JobFallsDue(r) \/ ReplicaCrashes(r)
  \/ \E s \in Slots : BeginTick(s[1], s[2]) \/ TickStep(s[1], s[2])
  \/ \E key \in Intervals : LeaseLapses(key)

\* Timers fire, clocks advance and awaited calls settle.
SchedFairness ==
  /\ \A s \in Slots : WF_schedVars(BeginTick(s[1], s[2])) /\ WF_schedVars(TickStep(s[1], s[2]))
  /\ \A r \in Replicas : WF_schedVars(JobFallsDue(r))

SchedSpec == SchedInit /\ [][SchedNext]_schedVars /\ SchedFairness

-----------------------------------------------------------------------------
(* Properties. *)

\* Two replicas never have a scheduled rebalance on its way at the same time, unless one
\* of them lost its lease under it: it lapsed, the interval (and with it the key) changed,
\* or the replica's other tick released it.
NeverTwoAtOnce ==
  \A r, s \in Replicas :
    Emitted(r) /\ Emitted(s) /\ changes = 0 => r = s \/ {r, s} \cap astray # {}

\* What the header of the code says of the lease (scheduler.ts:13-14): "only one replica
\* owns a given rebalance interval".  When nothing but scheduled jobs is queued, a
\* replica starts one only when the interval since every other's last run has passed.
OneReplicaPerInterval ==
  [][Triggers = {} =>
       \A s \in Slots : ticks[s].step = "gas" /\ ticks'[s].step = "running"
         => \A r \in Replicas \ {s[1]} : elapsed[r]]_schedVars

\* A job starts only when no due job of a higher priority waits.
UrgentFirst ==
  [][\A r \in Replicas :
       Len(todo'[r]) < Len(todo[r]) /\ r \notin deadReplicas' =>
         LET started == Head(todo[r]) IN
         \A k \in DOMAIN todo[r] :
           PRIORITY[todo[r][k].trigger] >= PRIORITY[started.trigger]]_schedVars

\* Once the breaker is open no job leaves the queue, whichever tick is under way.
BreakerHoldsQueue ==
  [][\A r \in Replicas : tripped[r] /\ r \notin deadReplicas'
       => Len(todo'[r]) >= Len(todo[r])]_schedVars

\* A streak of failures at the threshold never leaves the breaker closed.
StreakTrips == \A r \in Replicas : streak[r] >= Threshold => tripped[r]

\* A job a caller has queued leaves the queue, unless the breaker opens or the
\* replica dies: neither a job not yet due at the head of the queue nor a
\* lease another replica holds keeps it there.
QueuedJobsRun ==
  \A r \in Replicas :
    (\E k \in DOMAIN todo[r] : todo[r][k].trigger # "scheduled")
      ~> \/ \A k \in DOMAIN todo[r] : todo[r][k].trigger = "scheduled"
         \/ tripped[r] \/ r \in deadReplicas


(***************************************************************************)
(* The replicas keep out of each other's way: one of them rebalances at a   *)
(* time, though not one in an interval, failures in a row trip the breaker, *)
(* urgent jobs come first and a tripped breaker holds the queue.            *)
(***************************************************************************)
SchedulerSafety ==
  /\ [](SchedTypeOK /\ NeverTwoAtOnce /\ StreakTrips)
  /\ UrgentFirst /\ BreakerHoldsQueue
=============================================================================
