------------------------------- MODULE VaultClient -------------------------------
(***************************************************************************)
(* The generated client of the vault (packages/vault-client, generated by   *)
(* scripts/generate-client.js from contract-spec.json): 124 methods, each   *)
(* of which either simulates a call or signs, sends and polls one.  Several *)
(* calls run at once, some for the same account.  Arguments, results and    *)
(* the classes of errors are left out.                                      *)
(***************************************************************************)
EXTENDS Naturals, Sequences, FiniteSets

CONSTANTS
  Signers,
  ThirtySeconds,  \* setTimeout(30) and the 30_000 ms of polling, in ticks
  PreviewLimit,   \* calls the vault's preview window admits
  MaxCalls        \* bound of the runs

ASSUME ClientAssumption == {ThirtySeconds, PreviewLimit, MaxCalls} \subseteq Nat \ {0}

VARIABLES
  calls,          \* calls of client methods, in the order they were made
  clientSeq,      \* the ledger: sequence number of each account
  previewWindow   \* the vault: previews counted in its window

clientVars == <<calls, clientSeq, previewWindow>>

-----------------------------------------------------------------------------
(* The methods.  The generator makes a call that is sent of a function that *)
(* contract-spec.json marks state_changing, and a simulation of any other.  *)

Table(sent, asked) == [sent |-> sent, asked |-> asked]

\* Deposits, withdrawals, shares.
FundsCalls == Table(
  {"initialize", "deposit", "batch_deposit", "withdraw", "withdraw_all",
   "deposit_asset", "withdraw_asset", "migrate_shares", "lock_shares",
   "unlock_shares", "emergency_withdraw"},
  {"get_balance_asset", "get_total_assets_by_asset", "get_locked_shares"})

\* Rebalancing and venues.
AllocationCalls == Table(
  {"rebalance", "enable_multi_protocol", "set_protocol_apy", "rebalance_multi",
   "harvest"},
  {"is_multi_protocol_enabled", "get_allocation", "get_deployed_to_blend",
   "get_deployed_to_dex", "get_protocol_breakdown", "get_protocol_apy",
   "get_composite_apy"})

\* Switches.
SwitchCalls == Table(
  {"pause", "unpause", "emergency_pause", "reset_circuit_breaker",
   "emergency_harvest", "set_migration_target", "set_migration_paused"},
  {})

\* Caps, cooldown, rate limits.
LimitCalls == Table(
  {"set_tvl_cap", "set_user_deposit_cap", "set_caps", "set_limits",
   "set_deposit_limits", "set_rebalance_cooldown", "set_rate_limit",
   "set_rate_limit_config"},
  {"get_rebalance_cooldown", "get_rate_limit", "get_rate_limit_config",
   "get_global_rate_limit_state", "get_user_rate_limit_state"})

\* Batches, reports, failures, approvals.
ReportCalls == Table(
  {"set_max_batch_size", "set_batch_size_limit", "set_min_holding_period",
   "submit_mev_report", "set_max_acceptable_mev_loss", "submit_apy_prediction",
   "set_max_consecutive_failures", "set_approval_ttl"},
  {"get_max_batch_size", "get_batch_size_limit", "get_min_holding_period",
   "get_mev_stats", "get_apy_prediction", "get_last_rebalance_ledger",
   "get_max_consecutive_failures", "get_consecutive_failures", "get_approval_ttl"})

\* Caps again, strategies, the agent.
SettingCalls == Table(
  {"set_user_strategy", "update_agent", "confirm_agent_update",
   "cancel_agent_update", "update_standby_agent", "switch_to_standby_agent"},
  {"get_tvl_cap", "get_user_deposit_cap", "get_min_deposit", "get_max_deposit",
   "get_user_strategy", "get_pending_agent_update", "get_standby_agent"})

\* Assets and pools.
AssetCalls == Table(
  {"add_supported_asset", "update_asset_limits", "remove_supported_asset",
   "set_blend_pool", "set_dex_pool", "set_blend_approval_ttl"},
  {"get_supported_assets", "get_asset_config", "get_asset_tvl_cap",
   "get_asset_totals", "get_asset_balance"})

\* Ownership, total assets, upgrades.
OwnerCalls == Table(
  {"transfer_ownership", "accept_ownership", "cancel_ownership_transfer",
   "update_total_assets", "schedule_upgrade", "execute_upgrade", "cancel_upgrade"},
  {"get_pending_owner", "get_pending_ownership", "get_pending_upgrade"})

\* Positions.
PositionCalls == Table(
  {"touch_user_ttl"},
  {"get_balance", "get_total_deposits", "get_total_assets", "get_total_shares",
   "get_shares", "get_users_with_shares", "get_user_info"})

\* Previews, which the vault counts.
PreviewCalls == Table(
  {"preview_deposit_to_shares", "preview_shares_to_assets", "preview_withdraw",
   "convert_to_shares", "convert_to_assets"},
  {})

\* Views.
ViewCalls == Table(
  {},
  {"get_user_apy", "get_agent", "get_owner", "is_paused", "get_version",
   "get_usdc_token", "get_current_protocol", "get_blend_pool", "get_dex_pool",
   "get_blend_approval_ttl", "get_exchange_rate", "get_idle_balance",
   "get_deployed_assets", "getAssetBreakdown", "get_asset_breakdown"})

Previews == PreviewCalls.sent \cup PreviewCalls.asked

Tables ==
  {FundsCalls, AllocationCalls, SwitchCalls, LimitCalls, ReportCalls, SettingCalls, AssetCalls,
   OwnerCalls, PositionCalls, PreviewCalls, ViewCalls}
Methods == UNION {t.sent \cup t.asked : t \in Tables}
KindOf(m) == IF \E t \in Tables : m \in t.sent THEN "invoke" ELSE "simulate"

-----------------------------------------------------------------------------
(* A call. *)

Stages == {"begun", "built", "sending", "polling", "returned", "refused", "broken"}

\* `fate' is what became of the transaction; `answer' what the caller was given.
NewCall(by, m) ==
  [by |-> by, kind |-> KindOf(m), preview |-> m \in Previews, at |-> "begun", seq |-> 0,
   age |-> 0, waited |-> 0, fate |-> "unsent", answer |-> "none"]

ClientCall ==
  [by : Signers, kind : {"invoke", "simulate"}, preview : BOOLEAN, at : Stages, seq : Nat,
   age : 0 .. ThirtySeconds + 1, waited : 0 .. ThirtySeconds + 1,
   fate : {"unsent", "sent", "landed", "failed"}, answer : {"none", "value", "unknown"}]

ClientTypeOK ==
  /\ calls \in Seq(ClientCall) /\ Len(calls) <= MaxCalls
  /\ clientSeq \in [Signers -> Nat] /\ previewWindow \in 0 .. PreviewLimit

ClientInit == calls = <<>> /\ clientSeq = [s \in Signers |-> 0] /\ previewWindow = 0

Full == previewWindow = PreviewLimit

Refuses(i) == calls' = [calls EXCEPT ![i].at = "refused"]
Breaks(i) == calls' = [calls EXCEPT ![i].at = "broken"]
\* setTimeout(30) bounds the ledger's time from the moment of building.
Valid(i) == calls[i].age < ThirtySeconds

BeginCall ==
  /\ Len(calls) < MaxCalls
  /\ \E s \in Signers, m \in Methods : calls' = Append(calls, NewCall(s, m))
  /\ UNCHANGED <<clientSeq, previewWindow>>

\* server.getAccount, and the transaction built on its sequence number
BuildCall(i) ==
  /\ calls[i].at = "begun"
  /\ calls' = [calls EXCEPT ![i].at = "built", ![i].seq = clientSeq[calls[i].by] + 1]
  /\ UNCHANGED <<clientSeq, previewWindow>>

\* simulateTransaction, which changes nothing: a simulated preview is not counted.
Simulate(i) ==
  /\ calls[i].at = "built"
  /\ \/ Refuses(i)
     \/ /\ calls[i].preview => ~Full
        /\ IF calls[i].kind = "simulate"
             THEN calls' = [calls EXCEPT ![i].at = "returned", ![i].answer = "value"]
             ELSE calls' = [calls EXCEPT ![i].at = "sending"]
  /\ UNCHANGED <<clientSeq, previewWindow>>

\* PENDING, or TRY_AGAIN_LATER, which is polled for although nothing was taken.
Send(i) ==
  /\ calls[i].at = "sending"
  /\ \E fate \in {"sent", "unsent"} :
       \/ calls' = [calls EXCEPT ![i].at = "polling", ![i].fate = fate]
       \/ calls' = [calls EXCEPT ![i].at = "broken", ![i].fate = fate]  \* the answer is lost
  /\ UNCHANGED <<clientSeq, previewWindow>>

\* ERROR
SendRefused(i) ==
  /\ calls[i].at = "sending" /\ Refuses(i)
  /\ UNCHANGED <<clientSeq, previewWindow>>

\* Mutant of GivesUpPolling: the deadline is one second short.
GivesUpEarly(i) == calls[i].waited >= ThirtySeconds - 1
GivesUpPolling(i) == calls[i].waited >= ThirtySeconds

\* The loop ends, and what is returned has a hash and no result.
NotFoundAtDeadline(i) == calls' = [calls EXCEPT ![i].at = "returned", ![i].answer = "unknown"]

\* getTransaction; the server may not have seen the newest ledger.
Poll(i) ==
  /\ calls[i].at = "polling"
  /\ \/ /\ calls[i].fate = "landed"
        /\ calls' = [calls EXCEPT ![i].at = "returned", ![i].answer = "value"]
     \/ calls[i].fate = "failed" /\ Refuses(i)
     \/ GivesUpPolling(i) /\ NotFoundAtDeadline(i)
  /\ UNCHANGED <<clientSeq, previewWindow>>

\* getAccount, simulateTransaction or getTransaction throws.
ConnectionFails(i) ==
  /\ calls[i].at \in {"begun", "built", "polling"} /\ Breaks(i)
  /\ UNCHANGED <<clientSeq, previewWindow>>

-----------------------------------------------------------------------------
(* The ledger and the clock. *)

\* A transaction takes its account's next number, also when the vault refuses
\* it; the vault counts a preview that it answers.
CallLands(i) ==
  LET c == calls[i] IN
  /\ c.fate = "sent" /\ Valid(i) /\ c.seq = clientSeq[c.by] + 1
  /\ clientSeq' = [clientSeq EXCEPT ![c.by] = @ + 1]
  /\ \/ /\ calls' = [calls EXCEPT ![i].fate = "failed"] /\ UNCHANGED previewWindow
     \/ /\ c.preview => ~Full
        /\ calls' = [calls EXCEPT ![i].fate = "landed"]
        /\ previewWindow' = IF c.preview THEN previewWindow + 1 ELSE previewWindow

CapTicks(n) == IF n > ThirtySeconds THEN n ELSE n + 1

Ages(c) ==
  [c EXCEPT !.age = IF c.at \in {"built", "sending"} \/ c.fate = "sent" THEN CapTicks(@) ELSE @,
            !.waited = IF c.at = "polling" THEN CapTicks(@) ELSE @]

ClientTick ==
  /\ calls' = [i \in DOMAIN calls |-> Ages(calls[i])]
  /\ UNCHANGED <<clientSeq, previewWindow>>

ClientNext ==
  \/ BeginCall \/ ClientTick
  \/ \E i \in DOMAIN calls :
       \/ BuildCall(i) \/ Simulate(i) \/ Send(i) \/ SendRefused(i) \/ Poll(i)
       \/ ConnectionFails(i) \/ CallLands(i)

\* A second passes, and a poll is answered.
ClientFairness ==
  WF_clientVars(ClientTick) /\ \A i \in 1 .. MaxCalls : WF_clientVars(i \in DOMAIN calls /\ Poll(i))

ClientSpec == ClientInit /\ [][ClientNext]_clientVars /\ ClientFairness

-----------------------------------------------------------------------------
(* Properties. *)

(***************************************************************************)
(* Once the client has returned from a call or refused it, the ledger does  *)
(* not change what became of it, also where the client was told nothing:    *)
(* polling outlasts the time bound of the transaction.                      *)
(***************************************************************************)
ReturnedIsFinal ==
  [][\A i \in DOMAIN calls :
       calls[i].at \in {"returned", "refused"} => calls'[i].fate = calls[i].fate]_clientVars

(***************************************************************************)
(* An error thrown for a call that was refused (as opposed to one whose     *)
(* connection failed) means that the vault has not changed.                 *)
(***************************************************************************)
RefusedChangedNothing ==
  \A i \in DOMAIN calls : calls[i].at = "refused" => calls[i].fate # "landed"

(***************************************************************************)
(* "Subject to the global preview rate limit": the client hands out no more *)
(* previews than a window of the vault admits, because it sends them.       *)
(***************************************************************************)
PreviewLimitHolds ==
  Cardinality({i \in DOMAIN calls : calls[i].preview /\ calls[i].answer = "value"}) <= PreviewLimit

(***************************************************************************)
(* What the client reports of a call agrees with the ledger for good, and   *)
(* previews stay within their limit.                                        *)
(***************************************************************************)
ClientSafety ==
  [](ClientTypeOK /\ RefusedChangedNothing /\ PreviewLimitHolds) /\ ReturnedIsFinal

Polling(i) == i \in DOMAIN calls /\ calls[i].at = "polling"

(***************************************************************************)
(* No call polls for ever, also for a transaction that nobody accepted.     *)
(***************************************************************************)
ClientCallsEnd == \A i \in 1 .. MaxCalls : Polling(i) ~> ~Polling(i)

(***************************************************************************)
(* Every call ends, what the client reports of it agrees with the ledger    *)
(* for good, and previews stay within their limit.                          *)
(***************************************************************************)
ClientKeepsWord == ClientSafety /\ ClientCallsEnd
================================================================================
