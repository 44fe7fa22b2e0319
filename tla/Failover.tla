------------------------------- MODULE Failover -------------------------------
(***************************************************************************)
(* Hot-standby failover of the agent (agent/src/failover.ts): instances    *)
(* share one lease record, which they load and save without any test-and-  *)
(* set.  A load, the decision taken on what it returned and the save that  *)
(* follows are separate steps, and the heartbeat timer writes beside the   *)
(* polling timer.                                                          *)
(***************************************************************************)
EXTENDS Naturals, FiniteSets

CONSTANTS
  Agents,        \* agentIds, ordered as numbers
  MaxFaults      \* crashes, stalls and failed writes in a behaviour

ASSUME FailoverAssumption == Agents \subseteq Nat /\ MaxFaults \in Nat

VARIABLES
  primary,     \* does each instance believe it is primary?
  poll,        \* where each instance's bootstrap or polling call stands
  seenLease,   \* the record that call has loaded
  record,      \* the lease record in the store
  beating,     \* instances with a write of the heartbeat timer under way
  departed,    \* has a primary crashed or stepped down of its own accord?
  faults

failoverVars == <<primary, poll, seenLease, record, beating, departed, faults>>

\* The heartbeat's time is abstracted to whether it is within heartbeatTtlMs.
NoRecord == [primaryId |-> 0, fresh |-> FALSE, written |-> FALSE]
FailoverLease == [primaryId : Agents, fresh : BOOLEAN, written : {TRUE}] \cup {NoRecord}

FailoverTypeOK ==
  /\ primary \in [Agents -> BOOLEAN]
  /\ poll \in [Agents -> {"down", "starting", "startLoaded", "idle", "loaded", "saving"}]
  /\ seenLease \in [Agents -> FailoverLease]
  /\ record \in FailoverLease
  /\ beating \subseteq Agents /\ departed \in BOOLEAN /\ faults \in 0..MaxFaults

FailoverInit ==
  /\ primary = [a \in Agents |-> FALSE]
  /\ poll = [a \in Agents |-> "down"]
  /\ seenLease = [a \in Agents |-> NoRecord]
  /\ record = NoRecord
  /\ beating = {} /\ departed = FALSE /\ faults = 0

Written(a) == [primaryId |-> a, fresh |-> TRUE, written |-> TRUE]
AtStep(a, s) == poll' = [poll EXCEPT ![a] = s]

-----------------------------------------------------------------------------
(* bootstrap and checkAndFailover: the load. *)

StartInstance(a) ==
  /\ poll[a] = "down" /\ AtStep(a, "starting")
  /\ UNCHANGED <<primary, seenLease, record, beating, departed, faults>>

LoadLease(a) ==
  /\ \/ poll[a] = "starting" /\ AtStep(a, "startLoaded")
     \/ poll[a] = "idle" /\ AtStep(a, "loaded")
  /\ seenLease' = [seenLease EXCEPT ![a] = record]
  /\ UNCHANGED <<primary, record, beating, departed, faults>>

-----------------------------------------------------------------------------
(* The decision, in one turn of the event loop. *)

\* acquireLease: primary before the record says so.  Its test for a fresh
\* claimant of higher priority is never true, the caller having found the
\* same record stale or missing.
TakeLease(a) ==
  /\ primary' = [primary EXCEPT ![a] = TRUE]
  /\ AtStep(a, "saving")

Settle(a) == seenLease' = [seenLease EXCEPT ![a] = NoRecord]

Bootstrap(a) ==
  /\ poll[a] = "startLoaded"
  /\ IF seenLease[a].fresh THEN AtStep(a, "idle") /\ UNCHANGED primary ELSE TakeLease(a)
  /\ Settle(a)
  /\ UNCHANGED <<record, beating, departed, faults>>

\* Mutant of Yields: a primary does not look at the record.
NeverYields(a, lease) == FALSE
\* A primary gives way to a lower agentId only.
Yields(a, lease) == lease.written /\ lease.primaryId < a

CheckPrimary(a) ==
  /\ poll[a] = "loaded" /\ primary[a]
  /\ IF Yields(a, seenLease[a])
       THEN primary' = [primary EXCEPT ![a] = FALSE] /\ AtStep(a, "idle")
       ELSE UNCHANGED primary /\ AtStep(a, "saving")
  /\ Settle(a)
  /\ UNCHANGED <<record, beating, departed, faults>>

CheckStandby(a) ==
  /\ poll[a] = "loaded" /\ ~primary[a]
  /\ IF seenLease[a].fresh THEN AtStep(a, "idle") /\ UNCHANGED primary ELSE TakeLease(a)
  /\ Settle(a)
  /\ UNCHANGED <<record, beating, departed, faults>>

-----------------------------------------------------------------------------
(* beat *)

SaveLease(a) ==
  /\ poll[a] = "saving"
  /\ record' = Written(a)
  /\ AtStep(a, "idle")
  /\ UNCHANGED <<primary, seenLease, beating, departed, faults>>

\* The store refuses the write; the error is logged and `primary' stays.
SaveFails(a) ==
  /\ poll[a] = "saving" /\ faults < MaxFaults
  /\ AtStep(a, "idle") /\ faults' = faults + 1
  /\ UNCHANGED <<primary, seenLease, record, beating, departed>>

\* The timer of startHeartbeat: a write that reads nothing first.
BeginBeat(a) ==
  /\ primary[a] /\ a \notin beating
  /\ beating' = beating \cup {a}
  /\ UNCHANGED <<primary, poll, seenLease, record, departed, faults>>

BeatLands(a) ==
  /\ a \in beating
  /\ record' = Written(a)
  /\ beating' = beating \ {a}
  /\ UNCHANGED <<primary, poll, seenLease, departed, faults>>

\* stepDown called by the operator.
StepDown(a) ==
  /\ primary[a] /\ poll[a] = "idle" /\ faults < MaxFaults
  /\ primary' = [primary EXCEPT ![a] = FALSE]
  /\ departed' = TRUE /\ faults' = faults + 1
  /\ UNCHANGED <<poll, seenLease, record, beating>>

-----------------------------------------------------------------------------
(* Time and faults. *)

\* The record grows stale when nobody is left to write it, or, a fault, when
\* every primary stalls for longer than the heartbeat's time to live.
LeaseAges ==
  /\ record.fresh
  /\ LET gone == \A a \in Agents : ~primary[a] IN
       /\ gone \/ faults < MaxFaults
       /\ faults' = IF gone THEN faults ELSE faults + 1
  /\ record' = [record EXCEPT !.fresh = FALSE]
  /\ UNCHANGED <<primary, poll, seenLease, beating, departed>>

AgentCrashes(a) ==
  /\ poll[a] # "down" /\ faults < MaxFaults
  /\ primary' = [primary EXCEPT ![a] = FALSE]
  /\ AtStep(a, "down") /\ Settle(a)
  /\ beating' = beating \ {a}
  /\ departed' = (departed \/ primary[a])
  /\ faults' = faults + 1
  /\ UNCHANGED record

Check(a) == LoadLease(a) \/ Bootstrap(a) \/ CheckPrimary(a) \/ CheckStandby(a) \/ SaveLease(a)
Heartbeat(a) == BeginBeat(a) \/ BeatLands(a)

FailoverNext ==
  \/ \E a \in Agents : StartInstance(a) \/ Check(a) \/ SaveFails(a) \/ Heartbeat(a)
                         \/ StepDown(a) \/ AgentCrashes(a)
  \/ LeaseAges

\* Timers fire and calls to the store settle; time passes for a stale record.
FailoverFairness ==
  /\ \A a \in Agents :
       /\ WF_failoverVars(StartInstance(a)) /\ WF_failoverVars(Check(a))
       /\ WF_failoverVars(BeatLands(a))
  /\ WF_failoverVars(LeaseAges)

FailoverSpec == FailoverInit /\ [][FailoverNext]_failoverVars /\ FailoverFairness

-----------------------------------------------------------------------------
(* Properties. *)

Primaries == {a \in Agents : primary[a]}

\* The tie-break never leaves the system without a primary: as long as nobody
\* who was primary has crashed or stepped down of its own accord, a record in
\* the store means that somebody is primary.
TieBreakKeepsPrimary == record.written /\ ~departed => Primaries # {}

\* An instance that believes to be primary beside others gets, again and again,
\* to load what one of them has written: the polls are not in lockstep.
RivalsAreRead ==
  \A a \in Agents :
    []<>\/ ~primary[a] \/ Primaries = {a}
        \/ poll[a] = "loaded" /\ seenLease[a].primaryId # a

\* Split brain heals and a dead primary is replaced: with finitely many faults,
\* and polls that drift, the instances converge on one primary for good.
OnePrimaryInTheEnd == RivalsAreRead => <>[](Cardinality(Primaries) = 1)
================================================================================
