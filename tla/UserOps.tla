-------------------------------- MODULE UserOps --------------------------------
(***************************************************************************)
(* Entry points the depositors call, and the batch deposit the agent makes *)
(* for them.                                                               *)
(***************************************************************************)
EXTENDS VaultState

NoRecord == [amount |-> 0, expiry |-> 0]

(* add_to_user_index is called when a user without shares deposits. *)
Indexed(b, u, index) == IF b.shares[u] = 0 THEN index \cup {u} ELSE index

-----------------------------------------------------------------------------
(* Deposits. *)

Deposit(u, a) ==
  LET minted == MintedFor(book, a) IN
  /\ NotPaused
  /\ DepositSizeOk(a)
  /\ WithinUserCap(book, u, a)
  /\ WithinTvlCap(book, a)
  /\ Admitted(<<"deposit", u>>)
  /\ wallet[u] >= a
  /\ minted > 0
  /\ wallet' = [wallet EXCEPT ![u] = @ - a]
  /\ funds' = [funds EXCEPT !.idle = @ + a]
  /\ book' = Mint(book, u, minted, a)
  /\ holders' = Indexed(book, u, holders)
  /\ lastDeposit' = [lastDeposit EXCEPT ![u] = ledger]
  /\ Charge(<<"deposit", u>>)
  /\ UNCHANGED <<locks, governance, lastRebalance, ledger, accrued>>

\* The state one entry of a batch works on; `paid' is what the agent has
\* paid for the entries before it.
BatchStart == [book |-> book, paid |-> 0, holders |-> holders, last |-> lastDeposit]

EntryValid(b, e) == DepositSizeOk(e.amount) /\ WithinUserCap(b, e.user, e.amount)

\* A valid entry is paid for first, and refunded when it mints nothing.
EntryPayable(s, e) == EntryValid(s.book, e) => wallet[Agent] - s.paid >= e.amount

\* Mutant of CreditEntry: the supply written is the one read before the loop.
CreditEntryStale(s, e) ==
  LET minted == MintedFor(s.book, e.amount) IN
  IF ~EntryValid(s.book, e) \/ minted = 0 THEN s
  ELSE [book    |-> [Mint(s.book, e.user, minted, e.amount)
                       EXCEPT !.totalShares = book.totalShares + minted],
        paid    |-> s.paid + e.amount,
        holders |-> Indexed(s.book, e.user, s.holders),
        last    |-> [s.last EXCEPT ![e.user] = ledger]]

CreditEntry(s, e) ==
  LET minted == MintedFor(s.book, e.amount) IN
  IF ~EntryValid(s.book, e) \/ minted = 0 THEN s
  ELSE [book    |-> Mint(s.book, e.user, minted, e.amount),
        paid    |-> s.paid + e.amount,
        holders |-> Indexed(s.book, e.user, s.holders),
        last    |-> [s.last EXCEPT ![e.user] = ledger]]

ValidAmount(b, e) == IF EntryValid(b, e) THEN e.amount ELSE 0

(* A batch of two entries; an entry that is not valid is skipped, so the   *)
(* pair also stands for a batch of one.  The TVL cap is checked once, on   *)
(* the sum of the entries valid before any is credited.                    *)
BatchDeposit(first, second) ==
  LET checked == ValidAmount(book, first) + ValidAmount(book, second)
      mid     == CreditEntry(BatchStart, first)
      end     == CreditEntry(mid, second)
  IN
  /\ NotPaused
  /\ Admitted(<<"batch", Agent>>)
  /\ checked > 0 => WithinTvlCap(book, checked)
  /\ EntryPayable(BatchStart, first)
  /\ EntryPayable(mid, second)
  /\ book' = end.book
  /\ wallet' = [wallet EXCEPT ![Agent] = @ - end.paid]
  /\ funds' = [funds EXCEPT !.idle = @ + end.paid]
  /\ holders' = end.holders
  /\ lastDeposit' = end.last
  /\ Charge(<<"batch", Agent>>)
  /\ UNCHANGED <<locks, governance, lastRebalance, ledger, accrued>>

-----------------------------------------------------------------------------
(* Withdrawals. *)

\* Mutant of Recall: a paused vault calls no venue.
RecallWhenActive(amount, pays) ==
  IF breaker.paused \/ funds.protocol = "none" \/ funds.idle >= amount THEN funds
  ELSE WithdrawAmountFromProtocol(funds, funds.protocol, amount - funds.idle, pays)

\* Pull what is missing from the active protocol.
Recall(amount, pays) ==
  IF funds.protocol = "none" \/ funds.idle >= amount THEN funds
  ELSE WithdrawAmountFromProtocol(funds, funds.protocol, amount - funds.idle, pays)

\* What is left to pay out of after the recall, capped at what was asked.
Available(recalled, amount) ==
  IF funds.protocol = "none" THEN amount ELSE Lesser(amount, recalled.idle)

\* The burn and payout that end every withdrawal.
PayOut(u, recalled, burned, paid) ==
  /\ book' = Burn(book, u, burned, paid)
  /\ funds' = [recalled EXCEPT !.idle = @ - paid]
  /\ wallet' = [wallet EXCEPT ![u] = @ + paid]

\* The checks behind a redemption of `actual'; at its end the token transfer
\* fails when the vault does not hold what it owes.
Redeemable(u, recalled, actual) ==
  LET burned == BurnedFor(book, actual) IN
  /\ actual > 0
  /\ book.totalShares > 0 /\ book.totalAssets > 0
  /\ burned > 0 /\ book.shares[u] >= burned
  /\ WorthOf(book, burned) <= recalled.idle

\* Burn the shares `actual' is worth (rounded up) and pay what they are worth.
RedeemAssets(u, recalled, actual) ==
  LET burned == BurnedFor(book, actual)
  IN  PayOut(u, recalled, burned, WorthOf(book, burned))

HoldingPeriodElapsed(u) ==
  MinHoldingPeriod > 0 /\ lastDeposit[u] > 0
    => ledger - lastDeposit[u] >= MinHoldingPeriod

\* Mutant of WithinUnlocked: compares with everything the user holds.
WithinHoldings(u, a) ==
  locks[u].amount > 0 => a <= WorthOf(book, book.shares[u])

WithinUnlocked(u, a) ==
  locks[u].amount > 0 => a <= WorthOf(book, book.shares[u] - locks[u].amount)

Withdraw(u, a, pays) ==
  LET recalled == Recall(a, pays) IN
  /\ NotPaused
  /\ a > 0
  /\ Admitted(<<"withdraw", u>>)
  /\ HoldingPeriodElapsed(u)
  /\ WithinUnlocked(u, a)
  /\ Redeemable(u, recalled, Available(recalled, a))
  /\ RedeemAssets(u, recalled, Available(recalled, a))
  /\ Charge(<<"withdraw", u>>)
  /\ UNCHANGED <<holders, lastDeposit, locks, governance, lastRebalance,
                 ledger, accrued>>

\* What withdraw_all redeems: every share that is not locked.
Unlocked(u) == IF locks[u].amount > 0 THEN book.shares[u] - locks[u].amount
                                      ELSE book.shares[u]
Entitled(u) == WorthOf(book, Unlocked(u))

\* A recall that brings back too little leaves the rest of the shares alone.
FallsShort(u, recalled)   == funds.protocol # "none" /\ recalled.idle < Entitled(u)
PaidForAll(u, recalled)   == IF FallsShort(u, recalled) THEN recalled.idle
                                                        ELSE Entitled(u)
BurnedForAll(u, recalled) == IF FallsShort(u, recalled)
                               THEN BurnedFor(book, recalled.idle) ELSE Unlocked(u)

AllowsWithdrawAll(u, recalled) ==
  /\ NotPaused
  /\ Admitted(<<"withdraw", u>>)
  /\ Unlocked(u) > 0
  /\ book.totalShares > 0 /\ book.totalAssets > 0
  /\ PaidForAll(u, recalled) > 0 /\ PaidForAll(u, recalled) <= recalled.idle
  /\ BurnedForAll(u, recalled) > 0

WithdrawAll(u, pays) ==
  LET recalled == Recall(Entitled(u), pays) IN
  /\ AllowsWithdrawAll(u, recalled)
  /\ PayOut(u, recalled, BurnedForAll(u, recalled), PaidForAll(u, recalled))
  /\ Charge(<<"withdraw", u>>)
  /\ UNCHANGED <<holders, lastDeposit, locks, governance, lastRebalance,
                 ledger, accrued>>

(* The way out of a paused vault: neither locks, the holding period nor    *)
(* the rate limit apply, and an idle vault pays what it has.               *)
AllowsEmergencyWithdraw(u, a, recalled) ==
  /\ breaker.paused
  /\ a > 0
  /\ Redeemable(u, recalled, Lesser(a, recalled.idle))

EmergencyWithdraw(u, a, pays) ==
  LET recalled == Recall(a, pays) IN
  /\ AllowsEmergencyWithdraw(u, a, recalled)
  /\ RedeemAssets(u, recalled, Lesser(a, recalled.idle))
  /\ UNCHANGED <<holders, lastDeposit, locks, governance, lastRebalance,
                 calls, ledger, accrued>>

-----------------------------------------------------------------------------
(* Share locking and migration. *)

(* Nothing in lock_shares asks for a positive number of shares. *)
LockShares(u, n, period) ==
  /\ locks[u].amount = 0
  /\ n <= book.shares[u]
  /\ locks' = [locks EXCEPT ![u] = [amount |-> n, expiry |-> ledger + period]]
  /\ UNCHANGED <<accounting, holders, lastDeposit, governance, lastRebalance,
                 calls, ledger, accrued>>

UnlockShares(u) ==
  /\ locks[u].amount > 0
  /\ ledger >= locks[u].expiry
  /\ locks' = [locks EXCEPT ![u] = NoRecord]
  /\ UNCHANGED <<accounting, holders, lastDeposit, governance, lastRebalance,
                 calls, ledger, accrued>>

(* The target vault runs the same deposit entry point, which takes the     *)
(* assets from the user's own wallet.                                      *)
TargetDeposit(u, a) ==
  /\ DepositSizeOk(a)
  /\ wallet[u] >= a
  /\ wallet' = [wallet EXCEPT ![u] = @ - a]

(* TotalDeposits keeps the principal of the shares that left. *)
MigrateShares(u) ==
  LET assets == Value(book, u) IN
  /\ ~migration.paused
  /\ migration.target
  /\ book.shares[u] > 0
  /\ assets <= funds.idle
  /\ book' = [book EXCEPT !.shares[u]   = 0,
                          !.totalShares = @ - book.shares[u],
                          !.totalAssets = @ - assets]
  /\ funds' = [funds EXCEPT !.idle = @ - assets]
  /\ TargetDeposit(u, assets)
  /\ migration' = [migration EXCEPT !.received = @ + 2 * assets]
  /\ UNCHANGED <<holders, lastDeposit, locks, breaker, mode, lastRebalance,
                 calls, ledger, accrued>>
=============================================================================
