--------------------------------- MODULE Bridge ---------------------------------
(***************************************************************************)
(* Cross-chain transfers (packages/bridge): the manager's record of a       *)
(* transfer in memory, its row in the store, the messages sent to Axelar,   *)
(* and the monitor, whose checks a timer starts without waiting for the     *)
(* last one.  The row is a copy, as in SqlBridgeStore, and the caller of    *)
(* the manager keeps it; that caller is not part of the package.            *)
(***************************************************************************)
EXTENDS Naturals, Sequences

CONSTANTS
  Transfers,
  MonitorChecks,   \* runs of checkPendingTransfers that may be under way at once
  MaxMessages,     \* bound of the runs: messages sent for a transfer
  MaxRetried       \* bound of the runs: retries of a transfer, of the three it has

ASSUME BridgeAssumption ==
  MaxMessages \in Nat /\ MaxRetried \in 0 .. 3 /\ "none" \notin Transfers

VARIABLES
  transfer,          \* BridgeManager.bridgeTransfers: status
  retriesRemaining,
  bridgeTxHash,      \* the message the manager's record points to, 0 for none
  axelar,            \* the fates of the messages sent for each transfer
  executing,         \* transfers with a call of executeAxelarTransfer under way
  row,               \* the store
  overdue,           \* transfers older than BRIDGE_TIMEOUT_MS
  bridgeSeen,        \* rows each check has read and not yet worked off
  bridgePoll         \* the call of pollTransferStatus each check waits for

bridgeVars == <<transfer, retriesRemaining, bridgeTxHash, axelar, executing, row,
                overdue, bridgeSeen, bridgePoll>>
managerVars == <<transfer, retriesRemaining, bridgeTxHash>>

OpenStatus == {"pending", "confirming"}
BridgeStatus == OpenStatus \cup {"confirmed", "failed", "cancelled"}
Fates == {"relaying", "executed", "failed"}
NotPolling == [of |-> "none", hash |-> 0, status |-> "none"]

BridgeTypeOK ==
  /\ transfer \in [Transfers -> BridgeStatus \cup {"none"}]
  /\ retriesRemaining \in [Transfers -> 0 .. 3]
  /\ bridgeTxHash \in [Transfers -> 0 .. MaxMessages]
  /\ axelar \in [Transfers -> Seq(Fates)]
  /\ executing \subseteq Transfers /\ overdue \subseteq Transfers
  /\ row \in [Transfers -> BridgeStatus \cup {"none"}]
  /\ bridgeSeen \in [MonitorChecks -> [Transfers -> OpenStatus \cup {"none"}]]
  /\ bridgePoll \in [MonitorChecks -> [of : Transfers \cup {"none"}, hash : 0 .. MaxMessages,
                                  status : BridgeStatus \cup {"none"}]]

BridgeInit ==
  /\ transfer = [t \in Transfers |-> "none"]
  /\ retriesRemaining = [t \in Transfers |-> 3]
  /\ bridgeTxHash = [t \in Transfers |-> 0]
  /\ axelar = [t \in Transfers |-> <<>>]
  /\ executing = {} /\ overdue = {}
  /\ row = [t \in Transfers |-> "none"]
  /\ bridgeSeen = [m \in MonitorChecks |-> [t \in Transfers |-> "none"]]
  /\ bridgePoll = [m \in MonitorChecks |-> NotPolling]

-----------------------------------------------------------------------------
(* The manager; the caller writes the row when a call of its own returns. *)

Becomes(t, status) ==
  /\ transfer' = [transfer EXCEPT ![t] = status]
  /\ row' = [row EXCEPT ![t] = status]

\* initiateEthereumDeposit, initiateStellarWithdraw
Initiate(t) ==
  /\ transfer[t] = "none" /\ Becomes(t, "pending")
  /\ UNCHANGED <<retriesRemaining, bridgeTxHash, axelar, executing, overdue, bridgeSeen, bridgePoll>>

\* executeAxelarTransfer does not look at the status.  The request may be lost,
\* on its way there or on its way back.
PostTransfer(t) ==
  /\ transfer[t] # "none" /\ t \notin executing /\ Len(axelar[t]) < MaxMessages
  /\ executing' = executing \cup {t}
  /\ axelar' = [axelar EXCEPT ![t] = Append(@, "relaying")] \/ axelar' = axelar
  /\ UNCHANGED managerVars /\ UNCHANGED <<row, overdue, bridgeSeen, bridgePoll>>

TransferPosted(t) ==
  /\ t \in executing /\ Len(axelar[t]) > bridgeTxHash[t]
  /\ executing' = executing \ {t}
  /\ Becomes(t, "confirming")
  /\ bridgeTxHash' = [bridgeTxHash EXCEPT ![t] = Len(axelar[t])]
  /\ UNCHANGED <<retriesRemaining, axelar, overdue, bridgeSeen, bridgePoll>>

PostFails(t) ==
  /\ t \in executing
  /\ executing' = executing \ {t}
  /\ Becomes(t, "failed")
  /\ UNCHANGED <<retriesRemaining, bridgeTxHash, axelar, overdue, bridgeSeen, bridgePoll>>

\* Nor does retryTransfer.
RetryTransfer(t) ==
  /\ transfer[t] # "none" /\ retriesRemaining[t] > 0
  /\ 3 - retriesRemaining[t] < MaxRetried
  /\ retriesRemaining' = [retriesRemaining EXCEPT ![t] = @ - 1]
  /\ Becomes(t, "pending")
  /\ UNCHANGED <<bridgeTxHash, axelar, executing, overdue, bridgeSeen, bridgePoll>>

CancelTransfer(t) ==
  /\ transfer[t] \notin {"none", "confirmed", "failed"}
  /\ Becomes(t, "cancelled")
  /\ UNCHANGED <<retriesRemaining, bridgeTxHash, axelar, executing, overdue, bridgeSeen, bridgePoll>>

-----------------------------------------------------------------------------
(* The monitor. *)

IdleCheck(m) == bridgePoll[m] = NotPolling
WorkedOff(m, t) == bridgeSeen' = [bridgeSeen EXCEPT ![m][t] = "none"]

\* getPending.  Its rows are pending or confirming, so that the branch of
\* processTransfer that retries a failed one is never taken.
StartCheck(m) ==
  /\ IdleCheck(m) /\ \A t \in Transfers : bridgeSeen[m][t] = "none"
  /\ \E t \in Transfers : row[t] \in OpenStatus
  /\ bridgeSeen' = [bridgeSeen EXCEPT ![m] =
       [t \in Transfers |-> IF row[t] \in OpenStatus THEN row[t] ELSE "none"]]
  /\ UNCHANGED managerVars /\ UNCHANGED <<axelar, executing, row, overdue, bridgePoll>>

\* Mutant of TimesOut: a transfer that is polled does not time out.
TimesOutPending(m, t) == bridgeSeen[m][t] = "pending" /\ t \in overdue
TimesOut(m, t) == bridgeSeen[m][t] # "none" /\ t \in overdue

Expire(m, t) ==
  /\ IdleCheck(m) /\ TimesOut(m, t)
  /\ row' = [row EXCEPT ![t] = "failed"]
  /\ WorkedOff(m, t)
  /\ UNCHANGED managerVars /\ UNCHANGED <<axelar, executing, overdue, bridgePoll>>

\* Pending, and not polled: nothing to do.
Pass(m, t) ==
  /\ IdleCheck(m) /\ bridgeSeen[m][t] = "pending" /\ ~TimesOut(m, t)
  /\ WorkedOff(m, t)
  /\ UNCHANGED managerVars /\ UNCHANGED <<axelar, executing, row, overdue, bridgePoll>>

Poll(m, t) ==
  /\ IdleCheck(m) /\ bridgeSeen[m][t] = "confirming" /\ ~TimesOut(m, t)
  /\ WorkedOff(m, t)
  /\ bridgePoll' = [bridgePoll EXCEPT ![m] = [of |-> t, hash |-> bridgeTxHash[t], status |-> "none"]]
  /\ UNCHANGED managerVars /\ UNCHANGED <<axelar, executing, row, overdue>>

\* Mutant of StatusFor: what has not failed has been executed.
ConfirmedUnlessFailed(t, fate) == IF fate = "failed" THEN "failed" ELSE "confirmed"
StatusFor(t, fate) ==
  CASE fate = "executed" -> "confirmed"
    [] fate = "failed"   -> "failed"
    [] OTHER             -> transfer[t]

\* pollTransferStatus: the answer is about the message the record pointed to
\* when it was asked for.
PollAnswered(m) ==
  LET t == bridgePoll[m].of IN
  /\ t # "none" /\ bridgePoll[m].status = "none"
  /\ transfer' = [transfer EXCEPT ![t] = StatusFor(t, axelar[t][bridgePoll[m].hash])]
  /\ bridgePoll' = [bridgePoll EXCEPT ![m].status = transfer'[t]]
  /\ UNCHANGED <<retriesRemaining, bridgeTxHash, axelar, executing, row, overdue, bridgeSeen>>

\* The request failed: the status the record has.
PollUnanswered(m) ==
  LET t == bridgePoll[m].of IN
  /\ t # "none" /\ bridgePoll[m].status = "none"
  /\ bridgePoll' = [bridgePoll EXCEPT ![m].status = transfer[t]]
  /\ UNCHANGED managerVars /\ UNCHANGED <<axelar, executing, row, overdue, bridgeSeen>>

StorePoll(m) ==
  /\ bridgePoll[m].status # "none"
  /\ row' = [row EXCEPT ![bridgePoll[m].of] = bridgePoll[m].status]
  /\ bridgePoll' = [bridgePoll EXCEPT ![m] = NotPolling]
  /\ UNCHANGED managerVars /\ UNCHANGED <<axelar, executing, overdue, bridgeSeen>>

-----------------------------------------------------------------------------
(* Axelar, and the clock. *)

Relay(t, i) ==
  /\ i \in DOMAIN axelar[t] /\ axelar[t][i] = "relaying"
  /\ \E fate \in {"executed", "failed"} : axelar' = [axelar EXCEPT ![t][i] = fate]
  /\ UNCHANGED managerVars /\ UNCHANGED <<executing, row, overdue, bridgeSeen, bridgePoll>>

HalfHourPasses(t) ==
  /\ transfer[t] # "none" /\ t \notin overdue
  /\ overdue' = overdue \cup {t}
  /\ UNCHANGED managerVars /\ UNCHANGED <<axelar, executing, row, bridgeSeen, bridgePoll>>

MonitorStep(m) ==
  \/ StartCheck(m) \/ PollAnswered(m) \/ PollUnanswered(m) \/ StorePoll(m)
  \/ \E t \in Transfers : Expire(m, t) \/ Pass(m, t) \/ Poll(m, t)

BridgeNext ==
  \/ \E t \in Transfers :
       \/ Initiate(t) \/ PostTransfer(t) \/ TransferPosted(t) \/ PostFails(t)
       \/ RetryTransfer(t) \/ CancelTransfer(t) \/ HalfHourPasses(t)
       \/ \E i \in 1 .. MaxMessages : Relay(t, i)
  \/ \E m \in MonitorChecks : MonitorStep(m)

\* The timer of the monitor, its requests and the clock.
BridgeFairness ==
  /\ \A m \in MonitorChecks : WF_bridgeVars(MonitorStep(m))
  /\ \A t \in Transfers : WF_bridgeVars(HalfHourPasses(t))

BridgeSpec == BridgeInit /\ [][BridgeNext]_bridgeVars /\ BridgeFairness

-----------------------------------------------------------------------------
(* Properties. *)

(***************************************************************************)
(* A transfer is confirmed, in the manager or in the store, only if one of  *)
(* its messages has been executed, however late the polls of overlapping    *)
(* checks are answered and stored.                                          *)
(***************************************************************************)
ConfirmedWasExecuted ==
  \A t \in Transfers : "confirmed" \in {transfer[t], row[t]} =>
    \E i \in DOMAIN axelar[t] : axelar[t][i] = "executed"

(***************************************************************************)
(* No row stays open: what is not confirmed in half an hour is failed, even *)
(* if Axelar never answers (IMPLEMENTATION_PLAN: timeout detection).        *)
(***************************************************************************)
OpenRowsSettle == \A t \in Transfers : row[t] \in OpenStatus ~> row[t] \notin OpenStatus
================================================================================
