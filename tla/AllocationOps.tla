----------------------------- MODULE AllocationOps -----------------------------
(***************************************************************************)
(* Entry points that move USDC between the vault and its venues: the       *)
(* agent's rebalance, rebalance_multi and harvest, and the owner's         *)
(* emergency_harvest and enable_multi_protocol.                            *)
(***************************************************************************)
EXTENDS VaultState

(* require_valid_allocation *)
ValidAllocation(bps) ==
  /\ \A v \in Venues : bps[v] \in 0..BPS
  /\ Deployed(bps) <= BPS

\* Mutant of Outcome: trips one failure late.
OutcomeLate(b, status) ==
  CASE status = "failed" ->
         [paused   |-> b.paused \/ b.failures + 1 > MaxConsecutiveFailures,
          failures |-> b.failures + 1]
    [] status = "success"          -> [b EXCEPT !.failures = 0]
    [] status \in {"partial", "noop"} -> b

(* record_rebalance_outcome: the circuit breaker.  "partial" and "noop"    *)
(* leave the counter alone.                                                *)
Outcome(b, status) ==
  CASE status = "failed" ->
         [paused   |-> b.paused \/ b.failures + 1 >= MaxConsecutiveFailures,
          failures |-> b.failures + 1]
    [] status = "success"          -> [b EXCEPT !.failures = 0]
    [] status \in {"partial", "noop"} -> b

-----------------------------------------------------------------------------
(* rebalance: single-protocol mode. *)

\* Supplying everything idle to venue v; with nothing idle only the intent
\* is recorded.
SupplyAll(f, v, takes) ==
  IF f.idle > 0 THEN SupplyTo(f, v, f.idle, takes) ELSE [f EXCEPT !.protocol = v]

SupplyStatus(before, after) ==
  CASE before.idle = 0                                  -> "noop"
    [] before.idle > 0 /\ after.idle = before.idle      -> "failed"
    [] before.idle > after.idle /\ after.idle > 0       -> "partial"
    [] before.idle > 0 /\ after.idle = 0                -> "success"

(* Target "none".  The exit above has already emptied the protocol, so the *)
(* second exit in this branch of the code finds nothing to withdraw.       *)
ToIdle(f)         == [f EXCEPT !.protocol = "none"]
ToIdleStatus(old) == IF old = "none" THEN "noop" ELSE "success"

\* What makes rebalance give up after its exit leg.
ExitIncomplete(f, old) == ProtocolBalance(f, old) > 0

Rebalance(target, minOut, pays, takes) ==
  LET old    == funds.protocol
      leaves == old # target /\ old # "none"
      exited == IF leaves THEN WithdrawFromProtocol(funds, old, pays) ELSE funds
      stuck  == leaves /\ ExitIncomplete(exited, old)
      moved  == IF target = "none" THEN ToIdle(exited)
                ELSE SupplyAll(exited, target, takes)
      status == IF target = "none" THEN ToIdleStatus(old)
                ELSE SupplyStatus(exited, moved)
  IN
  /\ NotPaused
  /\ CooldownElapsed
  /\ target \in {"none", "blend", "dex"}
  /\ Admitted(<<"rebalance", "global">>)
  /\ leaves => ExitMeetsMinOut(funds, old, pays, minOut)
  /\ Charge(<<"rebalance", "global">>)
  /\ \/ /\ stuck          \* incomplete exit: keep what came back, and return
        /\ funds' = exited
        /\ UNCHANGED <<breaker, lastRebalance>>
     \/ /\ ~stuck
        /\ target \in Venues =>
             /\ target \in ConfiguredVenues
             /\ MinOutMet(exited.idle, takes[target], minOut)
        /\ funds' = Sync(moved)
        /\ breaker' = Outcome(breaker, status)
        /\ lastRebalance' = ledger
  /\ UNCHANGED <<book, wallet, holders, lastDeposit, locks, mode, migration,
                 ledger, accrued>>

-----------------------------------------------------------------------------
(* Multi-protocol mode. *)

EnableMultiProtocol(enabled) ==
  LET pool  == funds.pool
      share == (pool["blend"] * BPS) \div Deployed(pool)
      whole(v) == [w \in Venues |-> IF w = v THEN BPS ELSE 0]
      nothing  == [w \in Venues |-> 0]
      bps == CASE ~enabled                   -> nothing
               [] enabled /\ funds.protocol \in Venues -> whole(funds.protocol)
               [] enabled /\ funds.protocol \notin Venues ->
                    IF Deployed(pool) = 0 THEN nothing
                    ELSE [w \in Venues |-> IF w = "blend" THEN share ELSE BPS - share]
  IN
  /\ enabled \/ pool["blend"] = 0 \/ pool["dex"] = 0
  /\ mode' = [multi |-> enabled, bps |-> bps]
  /\ funds' = SyncSummary(funds)
  /\ UNCHANGED <<book, wallet, holders, lastDeposit, locks, breaker,
                 lastRebalance, migration, calls, ledger, accrued>>

\* Step 1: leave the part of each position above its target.
Excess(f, target, v) == IF f.pool[v] > target[v] THEN f.pool[v] - target[v] ELSE 0

Trim(f, target, pays) ==
  WithdrawFrom(WithdrawFrom(f, "blend", Excess(f, target, "blend"), pays),
               "dex", Excess(f, target, "dex"), pays)

\* Step 2: top a venue up from what is on hand.
Want(f, target, v) ==
  IF target[v] > f.pool[v] THEN Lesser(target[v] - f.pool[v], f.idle) ELSE 0

TopUp(f, target, v, takes) == SupplyTo(f, v, Want(f, target, v), takes)

MultiStatus(attempted, moved) ==
  CASE attempted = 0                     -> "noop"
    [] attempted > 0 /\ moved = 0        -> "failed"
    [] moved > 0 /\ moved < attempted    -> "partial"
    [] attempted > 0 /\ moved >= attempted -> "success"

RebalanceMulti(bps, minOut, pays, takes) ==
  LET target  == SplitByBps(Custody(funds), bps)
      trimmed == Trim(funds, target, pays)
      blended == TopUp(trimmed, target, "blend", takes)
      topped  == TopUp(blended, target, "dex", takes)
      attempted == Excess(funds, target, "blend") + Excess(funds, target, "dex")
                     + Want(trimmed, target, "blend") + Want(blended, target, "dex")
      moved == (trimmed.idle - funds.idle) + (trimmed.idle - topped.idle)
  IN
  /\ NotPaused
  /\ mode.multi
  /\ ValidAllocation(bps)
  /\ CooldownElapsed
  /\ \A v \in Venues : bps[v] > 0 => v \in ConfiguredVenues
  /\ \A v \in Venues : MinOutMet(Excess(funds, target, v), pays[v], minOut)
  /\ MinOutMet(Want(trimmed, target, "blend"), takes["blend"], minOut)
  /\ MinOutMet(Want(blended, target, "dex"), takes["dex"], minOut)
  /\ funds' = SyncSummary(topped)
  /\ mode' = [mode EXCEPT !.bps = bps]
  /\ breaker' = Outcome(breaker, MultiStatus(attempted, moved))
  /\ lastRebalance' = ledger
  /\ UNCHANGED <<book, wallet, holders, lastDeposit, locks, migration, calls,
                 ledger, accrued>>

-----------------------------------------------------------------------------
(* harvest: take the whole position out and put it back.  In "multi" the   *)
(* code has no branch that puts it back.                                   *)

Resupplied(f, taken, p, takes) ==
  IF taken > 0 /\ p \in Venues THEN SupplyTo(f, p, taken, takes) ELSE f

HarvestRoundTrip(minOut, pays, takes) ==
  LET p       == funds.protocol
      exited  == WithdrawFromProtocol(funds, p, pays)
      taken   == exited.idle - funds.idle
  IN
  /\ CooldownElapsed
  /\ p # "none"
  /\ Admitted(<<"rebalance", "global">>)
  /\ ExitMeetsMinOut(funds, p, pays, minOut)
  /\ p \in Venues => MinOutMet(taken, takes[p], minOut)
  /\ funds' = Resupplied(exited, taken, p, takes)
  /\ lastRebalance' = ledger
  /\ Charge(<<"rebalance", "global">>)
  /\ UNCHANGED <<book, wallet, holders, lastDeposit, locks, governance, ledger,
                 accrued>>

Harvest(minOut, pays, takes) ==
  NotPaused /\ HarvestRoundTrip(minOut, pays, takes)

\* The owner's harvest skips the pause check, so it also runs when active.
EmergencyHarvest(minOut, pays, takes) == HarvestRoundTrip(minOut, pays, takes)

-----------------------------------------------------------------------------
(***************************************************************************)
(* Asset reports of the agent, and the owner's pause and migration         *)
(* switches.                                                               *)
(***************************************************************************)

Greater(m, n) == IF m >= n THEN m ELSE n

\* Mutant of CountedAssets: trusts the local tracker instead of asking the pool.
CountedFromTracker ==
  funds.idle + (IF funds.protocol \in ConfiguredVenues
                  THEN funds.deployed[funds.protocol] ELSE 0)

(* What update_total_assets counts: the idle balance and the position in   *)
(* the active venue.  "multi" has no branch, so nothing deployed counts.   *)
CountedAssets ==
  funds.idle + (IF funds.protocol \in ConfiguredVenues
                  THEN funds.pool[funds.protocol] ELSE 0)

\* Mutant of DecreaseAllowed: what the report says is not compared with anything.
DecreaseUnchecked(newTotal, decreaseBps) == TRUE

\* A decrease needs the owner's signature too and is capped by a share of the old total
\* that the caller chooses: never below 1%, and with no upper bound.
DecreaseAllowed(newTotal, decreaseBps) ==
  book.totalAssets - newTotal
    <= (book.totalAssets * Greater(decreaseBps, 100)) \div BPS

ReportYield(newTotal) ==
  /\ newTotal >= book.totalAssets
  /\ newTotal <= CountedAssets
  /\ book' = [book EXCEPT !.totalAssets = newTotal]
  /\ UNCHANGED <<funds, wallet, holders, lastDeposit, locks, governance,
                 lastRebalance, calls, ledger, accrued>>

ReportLoss(newTotal, decreaseBps) ==
  /\ newTotal < book.totalAssets
  /\ DecreaseAllowed(newTotal, decreaseBps)
  /\ newTotal <= CountedAssets
  /\ book' = [book EXCEPT !.totalAssets = newTotal]
  /\ UNCHANGED <<funds, wallet, holders, lastDeposit, locks, governance,
                 lastRebalance, calls, ledger, accrued>>

-----------------------------------------------------------------------------
(* Pause control. *)

SetBreaker(b) ==
  /\ breaker' = b
  /\ UNCHANGED <<accounting, holders, lastDeposit, locks, mode, lastRebalance,
                 migration, calls, ledger, accrued>>

Pause == SetBreaker([breaker EXCEPT !.paused = TRUE])

(* Does nothing, but does not fail, when the vault is already paused. *)
EmergencyPause == SetBreaker([breaker EXCEPT !.paused = TRUE])

(* The failure counter survives an unpause. *)
Unpause ==
  /\ breaker.paused
  /\ SetBreaker([breaker EXCEPT !.paused = FALSE])

(* Lifts any pause, whoever set it. *)
ResetCircuitBreaker == SetBreaker([paused |-> FALSE, failures |-> 0])

-----------------------------------------------------------------------------
(* Migration control; there is no way to unset the target. *)

SetMigration(m) ==
  /\ migration' = m
  /\ UNCHANGED <<accounting, holders, lastDeposit, locks, breaker, mode,
                 lastRebalance, calls, ledger, accrued>>

SetMigrationTarget        == SetMigration([migration EXCEPT !.target = TRUE])
SetMigrationPaused(value) == SetMigration([migration EXCEPT !.paused = value])
================================================================================
