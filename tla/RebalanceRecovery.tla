--------------------------- MODULE RebalanceRecovery ---------------------------
(***************************************************************************)
(* Recovery from failed rebalances (agent/src/rebalanceRecovery.ts).       *)
(* Every failure reported to handleFailure starts a sequence of its own:   *)
(* three retries after growing delays, then an alert and recovery mode.    *)
(* Sequences sleep for hours and share the status, which a success or the  *)
(* operator may reset meanwhile.                                           *)
(***************************************************************************)
EXTENDS Naturals, FiniteSets

CONSTANTS Failures      \* calls of handleFailure

VARIABLES
  health,      \* status
  recovery,    \* the sequence of each failure: its step and its retries so far
  outdated,    \* failures reported before the last success or reset
  alerted,     \* failures the owner has been alerted of
  cleared      \* has recovery mode set CurrentProtocol to "none"?

recoveryVars == <<health, recovery, outdated, alerted, cleared>>

maxAttempts == 3

RecoveryTypeOK ==
  /\ health \in {"healthy", "degraded", "failed"}
  /\ recovery \in [Failures ->
       [step : {"none", "recording", "sleeping", "retrying", "alerting", "clearing", "over"},
        made : 0..maxAttempts]]
  /\ outdated \subseteq Failures /\ alerted \subseteq Failures /\ cleared \in BOOLEAN

RecoveryInit ==
  /\ health = "healthy"
  /\ recovery = [f \in Failures |-> [step |-> "none", made |-> 0]]
  /\ outdated = {} /\ alerted = {} /\ cleared = FALSE

Moves(f, s) == recovery' = [recovery EXCEPT ![f].step = s]

HandleFailure(f) ==
  /\ recovery[f].step = "none"
  /\ health' = "degraded"
  /\ Moves(f, "recording")
  /\ UNCHANGED <<outdated, alerted, cleared>>

\* Mutant of MoreRetries: one too few.
MoreRetriesButOne(n) == n + 1 < maxAttempts
MoreRetries(n) == n < maxAttempts

\* The vault's state is read and the failure logged; errors of both are
\* swallowed.  Then the loop goes on, or the failure is final.
Recorded(f) ==
  /\ recovery[f].step = "recording"
  /\ IF MoreRetries(recovery[f].made)
       THEN Moves(f, "sleeping") /\ UNCHANGED health
       ELSE Moves(f, "alerting") /\ health' = "failed"
  /\ UNCHANGED <<outdated, alerted, cleared>>

WakeUp(f) ==
  /\ recovery[f].step = "sleeping"
  /\ Moves(f, "retrying")
  /\ UNCHANGED <<health, outdated, alerted, cleared>>

\* onSuccess, reset and a retry that succeeds all do this.
Healthy ==
  /\ health' = "healthy"
  /\ outdated' = {f \in Failures : recovery[f].step # "none"}

RetrySucceeds(f) ==
  /\ recovery[f].step = "retrying"
  /\ Healthy
  /\ Moves(f, "over")
  /\ UNCHANGED <<alerted, cleared>>

RetryFails(f) ==
  /\ recovery[f].step = "retrying"
  /\ recovery' = [recovery EXCEPT ![f] = [step |-> "recording", made |-> @.made + 1]]
  /\ UNCHANGED <<health, outdated, alerted, cleared>>

\* The hook that sends the alert settles; sendOwnerAlert swallows the errors of
\* both channels.
AlertOwner(f) ==
  /\ recovery[f].step = "alerting"
  /\ alerted' = alerted \cup {f}
  /\ Moves(f, "clearing")
  /\ UNCHANGED <<health, outdated, cleared>>

EnterRecoveryMode(f) ==
  /\ recovery[f].step = "clearing"
  /\ cleared' \in {cleared, TRUE}          \* a failing hook is logged
  /\ Moves(f, "over")
  /\ UNCHANGED <<health, outdated, alerted>>

OnSuccessOrReset ==
  /\ Healthy
  /\ UNCHANGED <<recovery, alerted, cleared>>

RecoveryStep(f) == Recorded(f) \/ WakeUp(f) \/ RetrySucceeds(f) \/ RetryFails(f)
                     \/ AlertOwner(f) \/ EnterRecoveryMode(f)

RecoveryNext ==
  \/ \E f \in Failures : HandleFailure(f) \/ RecoveryStep(f)
  \/ OnSuccessOrReset

\* Timers fire and hooks settle.
RecoveryFairness == \A f \in Failures : WF_recoveryVars(RecoveryStep(f))

RecoverySpec == RecoveryInit /\ [][RecoveryNext]_recoveryVars /\ RecoveryFairness

-----------------------------------------------------------------------------
(* Properties. *)

\* The status is what was last learned, however the sequences overlap: `healthy' from a
\* success or reset until the next report, `degraded' from a report on, and `failed' only
\* with a failure whose retries are used up.  It is no more than that: a success hides a
\* failure that is still being retried, until its sequence runs out and sets `failed'.
StatusIsLatest ==
  LET reported == {f \in Failures : recovery[f].step # "none"} IN
  /\ health = "healthy"  => reported \subseteq outdated
  /\ health = "degraded" => ~(reported \subseteq outdated)
  /\ health = "failed"   =>
       \E f \in reported : /\ recovery[f].made = maxAttempts
                           /\ recovery[f].step \in {"alerting", "clearing", "over"}

\* CurrentProtocol is cleared only for a failure whose owner was alerted and
\* whose three retries all failed.
ClearedOnlyAfterAlert ==
  cleared => \E f \in alerted : recovery[f].made = maxAttempts

\* Every reported failure ends: recovered, or with an alert to the owner.
FailureAnswered ==
  \A f \in Failures : recovery[f].step # "none" ~> recovery[f].step = "over"
=============================================================================
