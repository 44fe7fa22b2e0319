--------------------------------- MODULE Vault ---------------------------------
(***************************************************************************)
(* The NeuroWealth vault: the entry points of UserOps and AllocationOps   *)
(* AdminOps over one storage, interleaved with ledger closes and yield.    *)
(***************************************************************************)
EXTENDS UserOps, AllocationOps, Functions

\* What callers may ask for; an empty set leaves an entry point out.
CONSTANTS
  DepositAmounts, BatchAmounts, WithdrawAmounts,
  LockAmounts, LockPeriods,   \* LOCK_30/90/180_DAYS_LEDGERS
  Targets,                    \* arguments of rebalance
  Allocations,                \* arguments of rebalance_multi
  MinOuts,
  LeastReport,                \* the smallest total the agent reports
  DecreaseCaps,               \* max_decrease_bps of a loss report, any u32
  Limits,                     \* what a venue may pay or take in one call
  PauseControl, MultiControl, MigrationControl  \* does the owner use these?

ASSUME InputsAssumption ==
  /\ DepositAmounts \subseteq Int /\ BatchAmounts \subseteq Int
  /\ WithdrawAmounts \subseteq Int
  /\ LockAmounts \subseteq Int /\ LockPeriods \subseteq Nat \ {0}
  /\ Targets \subseteq Protocols
  /\ Allocations \subseteq [Venues -> Nat]
  /\ MinOuts \subseteq Nat
  /\ LeastReport \in Int /\ DecreaseCaps \subseteq Nat
  /\ Limits \subseteq Nat
  /\ {PauseControl, MultiControl, MigrationControl} \subseteq BOOLEAN

\* A venue without a pool is never called.
VenueLimits == {l \in [Venues -> Limits \cup {0}] :
                  /\ \A v \in ConfiguredVenues : l[v] \in Limits
                  /\ \A v \in Venues \ ConfiguredVenues : l[v] = 0}
Entries     == [user : Users, amount : BatchAmounts]

UserStep ==
  \/ \E u \in Users, a \in DepositAmounts : Deposit(u, a)
  \/ \E e1, e2 \in Entries : BatchDeposit(e1, e2)
  \/ \E u \in Users, a \in WithdrawAmounts, pays \in VenueLimits : Withdraw(u, a, pays)
  \/ \E u \in Users, pays \in VenueLimits : WithdrawAll(u, pays)
  \/ \E u \in Users, a \in WithdrawAmounts, pays \in VenueLimits :
       EmergencyWithdraw(u, a, pays)
  \/ \E u \in Users, n \in LockAmounts, d \in LockPeriods : LockShares(u, n, d)
  \/ \E u \in Users : UnlockShares(u)
  \/ \E u \in Users : MigrateShares(u)

AllocationStep ==
  \/ /\ breaker.failures < MaxFailures
     /\ \/ \E p \in Targets, m \in MinOuts, pays, takes \in VenueLimits :
             Rebalance(p, m, pays, takes)
        \/ \E bps \in Allocations, m \in MinOuts, pays, takes \in VenueLimits :
             RebalanceMulti(bps, m, pays, takes)
  \/ \E m \in MinOuts, pays, takes \in VenueLimits : Harvest(m, pays, takes)
  \/ \E m \in MinOuts, pays, takes \in VenueLimits : EmergencyHarvest(m, pays, takes)
  \/ MultiControl /\ \E enabled \in BOOLEAN : EnableMultiProtocol(enabled)

AdminStep ==
  \/ \E n \in LeastReport..Custody(funds) + 1 : ReportYield(n)
  \/ \E n \in LeastReport..book.totalAssets, cap \in DecreaseCaps : ReportLoss(n, cap)
  \/ PauseControl /\ (Pause \/ EmergencyPause \/ Unpause \/ ResetCircuitBreaker)
  \/ MigrationControl /\ (SetMigrationTarget
                            \/ \E value \in BOOLEAN : SetMigrationPaused(value))

Environment == CloseLedger \/ \E v \in Venues : Accrue(v)

Next == UserStep \/ AllocationStep \/ AdminStep \/ Environment

Spec == Init /\ [][Next]_vars

-----------------------------------------------------------------------------
(* Type invariant. *)

BookType == [shares : [Users -> Nat], totalShares : Nat, totalAssets : Nat,
             totalDeposits : Nat]

\* Every variable holds what the storage keys and token balances can hold, and no
\* holding, total or balance goes negative: nothing refuses a negative report as such,
\* so it takes the cap on a decrease to stop one, which it does when WithinWhole.
TypeOK ==
  /\ book \in BookType
  /\ funds \in FundsType
  /\ wallet \in [Payers -> Nat]
  /\ holders \subseteq Users
  /\ lastDeposit \in [Users -> Nat]
  /\ locks \in [Users -> [amount : Int, expiry : Nat]]
  /\ breaker \in [paused : BOOLEAN, failures : Nat]
  /\ mode \in [multi : BOOLEAN, bps : [Venues -> 0..BPS]]
  /\ lastRebalance \in Nat
  /\ migration \in [target : BOOLEAN, paused : BOOLEAN, received : Nat]
  /\ calls \in [Buckets -> [start : Nat, calls : Nat]]
  /\ ledger \in Nat \ {0}
  /\ accrued \in Nat

\* The owner never signs for a decrease of more than the whole, which the code does not
\* ask for.  The theorems assume it, and all runs but one keep to it.
WithinWhole == DecreaseCaps \subseteq 0..BPS

\* What the doc of update_total_assets says without any such condition (lib.rs:7431):
\* it panics "if new_total is negative".
TotalNeverNegative == book.totalAssets >= 0

-----------------------------------------------------------------------------
(* Accounting. *)

\* I-1 of ARCHITECTURE.md: TotalShares is the sum of the users' shares, after
\* any interleaving of deposits, batches, redemptions and migrations; and
\* UserSharesIndex, which yield attribution pages through, has every holder.
LedgerConsistent ==
  /\ FoldFunction(LAMBDA m, n : m + n, 0, book.shares) = book.totalShares
  /\ \A u \in Users : book.shares[u] > 0 => u \in holders

\* What the shares are priced at exists: TotalAssets never exceeds the USDC
\* the vault holds and has deployed, whatever the venues withheld.
Solvency == book.totalAssets <= Custody(funds)

\* I-3 and the first half of I-6: without loss reports and migrations the assets
\* cover the principal, although a redemption takes yield out of TotalDeposits too,
\* and a share is worth at least one unit, through every floor of a mint and ceiling
\* of a burn.
AssetsCover ==
  /\ book.totalAssets >= book.totalDeposits
  /\ book.totalAssets >= book.totalShares

\* A step that mints or burns shares never lowers the price of a share, so
\* rounding never takes from the holders who are not part of it.
PriceNeverFalls ==
  [][book'.shares # book.shares /\ book.totalShares > 0 /\ book'.totalShares > 0
       => book'.totalAssets * book.totalShares
            >= book.totalAssets * book'.totalShares]_vars

\* Seen from the outside the vault is a pool of backed shares, whatever the entry
\* points, venues and batches do inside: what one call does to shares, assets and
\* custody together is a purchase, a redemption, a profit, a revaluation, or nothing.
Pool == INSTANCE BackedShares WITH
          Holders <- Users, shares <- book.shares, supply <- book.totalShares,
          assets <- book.totalAssets, backing <- Custody(funds)

SharesAreBacked == Pool!SharesSpec

\* A depositor loses less than one share and one unit of USDC to rounding:
\* the value gained by a deposit of `paid' is above paid - 1 - price.
DepositorKeepsValue ==
  [][\A u \in Users :
       LET paid == wallet[u] - wallet'[u]
           kept == Value(book', u) - Value(book, u)
       IN  book'.shares[u] > book.shares[u] /\ paid > 0
             => (paid - kept - 1) * book'.totalShares <= book'.totalAssets]_vars

-----------------------------------------------------------------------------
(* Caps, locks and redemption. *)

\* A step that mints leaves TotalAssets within the TVL cap and a user whose
\* shares grew within the deposit cap, batches that credit a user twice
\* included: the TVL cap is checked once per batch, the other entry by entry.
\* Not so for the first deposit after everyone has left, which takes over the
\* assets nobody has shares of, nor, by rounding, for a user credited before
\* another one in the same batch.
CapsHold ==
  [][book'.totalShares > book.totalShares =>
       /\ TvlCap > 0 => book'.totalAssets <= TvlCap
       /\ UserDepositCap > 0 /\ book.totalShares > 0 =>
            \A u \in Users :
              book'.shares = [book.shares EXCEPT ![u] = book'.shares[u]]
                /\ book'.shares[u] > book.shares[u]
                => Value(book', u) <= UserDepositCap]_vars

\* While the vault is active, no withdrawal cuts into locked shares, although
\* the check is made on the assets asked for and the burn is rounded up.
LockedSharesStay ==
  [][\A u \in Users :
       /\ locks[u].amount > 0 /\ ~breaker.paused
       /\ book'.shares[u] < book.shares[u]
       /\ migration' = migration
       => book'.shares[u] >= locks[u].amount]_vars

\* Nobody is stranded: when the venues pay, a holder of an active vault with no
\* lock and no used-up rate limit passes every check of withdraw_all, is paid all
\* the shares are worth and keeps none of them, whatever is deployed where and
\* however the recall divides by two.
EveryoneCanLeave ==
  \A u \in Users :
    LET recalled == Recall(Value(book, u), funds.pool) IN
    /\ ~breaker.paused /\ locks[u].amount <= 0
    /\ Value(book, u) > 0
    /\ Admitted(<<"withdraw", u>>)
    => /\ AllowsWithdrawAll(u, recalled)
       /\ PaidForAll(u, recalled) = Value(book, u)
       /\ BurnedForAll(u, recalled) = book.shares[u]

\* The same in a paused vault, by the emergency exit and whatever the locks: asked
\* for everything, it burns no more than the holder has and pays it in full.
EmergencyExitOpen ==
  \A u \in Users :
    LET worth    == Value(book, u)
        recalled == Recall(worth, funds.pool)
    IN  breaker.paused /\ worth > 0
        => /\ AllowsEmergencyWithdraw(u, worth, recalled)
           /\ Lesser(worth, recalled.idle) = worth
           /\ WorthOf(book, BurnedFor(book, worth)) = worth

-----------------------------------------------------------------------------
(* Venues. *)

\* CurrentProtocol leads to every deployed unit: no venue holds funds that the
\* exit and recall legs would not look for.  It is "multi" only when both do, and
\* single-protocol mode never has both venues funded.
FundsReachable ==
  /\ \A v \in Venues : funds.pool[v] > 0 => funds.protocol \in {v, "multi"}
  /\ funds.protocol = "multi" => \A v \in Venues : funds.pool[v] > 0
  /\ ~mode.multi => funds.pool["blend"] = 0 \/ funds.pool["dex"] = 0

\* One cooldown governs four entry points.  What moves venue funds and redeems nothing
\* finds it elapsed, a harvest that brings all of it back and only restarts it included;
\* and what leaves more at a venue restarts it.  A paused vault mints nothing and leaves
\* no venue with more than it had: the owner's emergency_harvest supplies in a paused
\* vault as well, but only what it has just taken out.
DeploymentsGuarded ==
  [][LET moved == funds'.pool # funds.pool /\ accrued' = accrued
         grown == moved /\ \E v \in Venues : funds'.pool[v] > funds.pool[v]
     IN  /\ (moved /\ book' = book) \/ grown \/ lastRebalance' # lastRebalance
              => (lastRebalance > 0 => ledger - lastRebalance >= MinRebalanceInterval)
         /\ grown => ~breaker.paused /\ lastRebalance' = ledger
         /\ book'.totalShares > book.totalShares => ~breaker.paused]_vars

\* A run of failed rebalances trips the breaker: a step that counts a failure
\* at or above the threshold leaves the vault paused.
BreakerTrips ==
  [][breaker'.failures > breaker.failures
       /\ breaker'.failures >= MaxConsecutiveFailures => breaker'.paused]_vars
================================================================================
