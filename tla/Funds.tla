-------------------------------- MODULE Funds --------------------------------
(***************************************************************************)
(* Where the vault's USDC is, and the legs that move it between the vault  *)
(* and its two yield venues (the helpers at the end of lib.rs).            *)
(*                                                                         *)
(* A `funds' record f stands for the token balances and the three storage  *)
(* keys the legs touch:                                                    *)
(*   f.idle       the vault's own USDC balance                             *)
(*   f.pool[v]    the vault's position in venue v, what the pool's         *)
(*                `balance' call answers                                   *)
(*   f.protocol   CurrentProtocol                                          *)
(*   f.deployed   DeployedToBlend and DeployedToDex, the local trackers    *)
(*                                                                         *)
(* A venue is an external contract.  The code only trusts the change of    *)
(* its own token balance around a call, so a call may move anything from   *)
(* nothing to the amount asked: pays[v] bounds what venue v hands back     *)
(* during one transaction, takes[v] what it accepts.                       *)
(*                                                                         *)
(* Every leg is a function from the record before to the record after; the *)
(* amount a leg moved is the difference of the two.                        *)
(***************************************************************************)
EXTENDS Integers

Venues    == {"blend", "dex"}
Protocols == Venues \cup {"none", "multi"}

BPS == 10000

Lesser(m, n) == IF m <= n THEN m ELSE n

Deployed(pool) == pool["blend"] + pool["dex"]

\* What the vault owns in all, idle or deployed.
Custody(f) == f.idle + Deployed(f.pool)

FundsType == [idle : Nat, pool : [Venues -> Nat], protocol : Protocols,
              deployed : [Venues -> Nat]]

(* get_protocol_balance *)
ProtocolBalance(f, p) ==
  CASE p \in Venues -> f.pool[p]
    [] p = "multi"  -> Deployed(f.pool)
    [] p = "none"   -> 0

(* derive_protocol_summary *)
DeriveSummary(pool) ==
  CASE pool["blend"] > 0 /\ pool["dex"] > 0 -> "multi"
    [] pool["blend"] > 0 /\ pool["dex"] = 0 -> "blend"
    [] pool["blend"] = 0 /\ pool["dex"] > 0 -> "dex"
    [] pool["blend"] = 0 /\ pool["dex"] = 0 -> "none"

\* Mutant of SyncSummary: CurrentProtocol stays what the last leg made it.
SyncTrackersOnly(f) == [f EXCEPT !.deployed = f.pool]

(* sync_deployed_split, alone and followed by set_current_protocol *)
Sync(f)        == [f EXCEPT !.deployed = f.pool]
SyncSummary(f) == [f EXCEPT !.deployed = f.pool,
                            !.protocol = DeriveSummary(f.pool)]

(* require_min_out: a leg that is entered (asked > 0) and moves less than  *)
(* the caller's minimum aborts the whole transaction.                      *)
MinOutMet(asked, limit, minOut) == asked > 0 => Lesser(asked, limit) >= minOut

(* supply_to_blend, supply_to_dex *)
SupplyTo(f, v, asked, takes) ==
  LET supplied == Lesser(asked, takes[v]) IN
  IF supplied <= 0 THEN f
  ELSE [f EXCEPT !.idle     = @ - supplied,
                 !.pool[v]  = @ + supplied,
                 !.protocol = v]

(* withdraw_from_blend, withdraw_from_dex; only a leg that empties its     *)
(* venue touches CurrentProtocol.                                          *)
WithdrawFrom(f, v, asked, pays) ==
  LET withdrawn == Lesser(Lesser(asked, f.pool[v]), pays[v]) IN
  IF withdrawn <= 0 THEN f
  ELSE [f EXCEPT !.idle     = @ + withdrawn,
                 !.pool[v]  = @ - withdrawn,
                 !.protocol = IF f.pool[v] = withdrawn THEN "none" ELSE @]

\* The `amount == 0' form of the two: ask for the whole position.
Exit(f, v, pays) == WithdrawFrom(f, v, f.pool[v], pays)

(* withdraw_from_protocol: leave the active protocol altogether. *)
WithdrawFromProtocol(f, p, pays) ==
  CASE f.protocol # p \/ p = "none"    -> f
    [] f.protocol = p /\ p \in Venues  -> Exit(f, p, pays)
    [] f.protocol = p /\ p = "multi"   ->
         SyncSummary(Exit(Exit(f, "blend", pays), "dex", pays))

\* The minimum-out checks of the legs WithdrawFromProtocol enters.
ExitMeetsMinOut(f, p, pays, minOut) ==
  \A v \in Venues :
    f.protocol = p /\ p \in {v, "multi"} => MinOutMet(f.pool[v], pays[v], minOut)

(* split_by_bps *)
SplitByBps(total, bps) ==
  [v \in Venues |-> IF total <= 0 THEN 0 ELSE (total * bps[v]) \div BPS]

\* Mutant of ProportionalAsk: both shares rounded down, the rest never asked.
ProportionalFloors(pool, needed) ==
  LET target == Lesser(needed, Deployed(pool))
  IN  [v \in Venues |-> (target * pool[v]) \div Deployed(pool)]

(* withdraw_proportionally: what is asked of each venue.  The DEX takes the *)
(* remainder of the division, and neither is asked for more than it holds. *)
ProportionalAsk(pool, needed) ==
  LET target    == Lesser(needed, Deployed(pool))
      fromBlend == (target * pool["blend"]) \div Deployed(pool)
      fromDex   == Lesser(target - fromBlend, pool["dex"])
      spilled   == Lesser(target - fromDex, pool["blend"])
  IN  [v \in Venues |-> IF v = "blend" THEN spilled ELSE fromDex]

WithdrawProportionally(f, needed, pays) ==
  LET ask == ProportionalAsk(f.pool, needed) IN
  IF needed <= 0 \/ Deployed(f.pool) <= 0 THEN f
  ELSE SyncSummary(WithdrawFrom(WithdrawFrom(f, "blend", ask["blend"], pays),
                                "dex", ask["dex"], pays))

(* withdraw_amount_from_protocol *)
WithdrawAmountFromProtocol(f, p, amount, pays) ==
  CASE p = "multi"  -> WithdrawProportionally(f, amount, pays)
    [] p \in Venues -> WithdrawFrom(f, p, amount, pays)
    [] p = "none"   -> f
=============================================================================
