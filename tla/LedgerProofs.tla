------------------------------ MODULE LedgerProofs ------------------------------
(***************************************************************************)
(* What a step of the vault may do to the share ledger, for any set of      *)
(* users, any parameters and any venues: the price of a share, the caps,    *)
(* the locked shares, and what a depositor loses to rounding.               *)
(*                                                                         *)
(* LedgerSteps sorts the entry points by what they do to the ledger: a      *)
(* deposit credits one user, a batch two one after the other, a withdrawal  *)
(* redeems, a migration takes a holding out, a report replaces TotalAssets. *)
(* Each property is then argued once for each of these five.                *)
(***************************************************************************)
EXTENDS VaultProofs

-----------------------------------------------------------------------------
(* The five ways the ledger changes. *)

\* User u is credited assets a, and the book becomes c.
Credits(b, c, u, a) ==
  /\ BookOK(b) /\ BookOK(c) /\ u \in Users /\ a \in Nat
  /\ DepositSizeOk(a) /\ WithinUserCap(b, u, a)
  /\ MintedFor(b, a) \in Nat \ {0}
  /\ c = Mint(b, u, MintedFor(b, a), a)

DepositSteps ==
  \E u \in Users, a \in Nat :
    /\ Credits(book, book', u, a) /\ WithinTvlCap(book, a)
    /\ NotPaused
    /\ wallet' = [wallet EXCEPT ![u] = wallet[u] - a]

\* An entry of a batch is credited or skipped.
EntrySteps(b, c, e) == c = b \/ Credits(b, c, e.user, e.amount)

BatchSteps ==
  \E e1, e2 \in Entries, mid \in BookType :
    /\ EntrySteps(book, mid, e1) /\ EntrySteps(mid, book', e2)
    /\ ValidAmount(book, e1) + ValidAmount(book, e2) > 0
         => WithinTvlCap(book, ValidAmount(book, e1) + ValidAmount(book, e2))
    /\ NotPaused
    /\ \A u \in Users : wallet'[u] = wallet[u]

RedeemSteps ==
  \E u \in Users : \E recalled, burned, paid :
    /\ Redeems(u, recalled, burned, paid)
    /\ ~breaker.paused /\ locks[u].amount > 0
         => book.shares[u] - burned >= locks[u].amount

\* Shares of u leave with their value.
MigrationSteps ==
  \E u \in Users :
    /\ book.shares[u] > 0
    /\ book' = [book EXCEPT !.shares[u]   = 0,
                            !.totalShares = book.totalShares - book.shares[u],
                            !.totalAssets = book.totalAssets - Value(book, u)]
    /\ migration.target /\ migration' # migration

ReportSteps ==
  \E n \in Nat :
    /\ book' = [book EXCEPT !.totalAssets = n] /\ funds' = funds
    /\ n >= book.totalAssets \/ \E cap \in DecreaseCaps : DecreaseAllowed(n, cap)

LedgerSteps == \/ UNCHANGED book \/ DepositSteps \/ BatchSteps \/ RedeemSteps
               \/ MigrationSteps \/ ReportSteps

\* Deposits are the first of them.
LEMMA DepositIsOne ==
  ASSUME Inv, NEW u \in Users, NEW a \in Int, Deposit(u, a)
  PROVE  DepositSteps
  <1>1. a \in Nat /\ DepositSizeOk(a)
    BY DEF Deposit, DepositSizeOk
  <1>2. MintedFor(book, a) \in Nat
    BY <1>1, InvParts, MintedType
  <1>3. MintedFor(book, a) \in Nat \ {0} /\ book' = Mint(book, u, MintedFor(book, a), a)
    BY <1>2 DEF Deposit
  <1>4. BookOK(book) /\ BookOK(book')
    BY <1>1, <1>2, <1>3, InvParts, MintOK
  <1>5. Credits(book, book', u, a)
    BY <1>1, <1>3, <1>4 DEF Credits, Deposit
  <1> QED
    BY <1>1, <1>5 DEF DepositSteps, Deposit

LEMMA EntryIsOne ==
  ASSUME NEW s, BookOK(s.book), NEW e \in Entries
  PROVE  EntrySteps(s.book, CreditEntry(s, e).book, e) /\ BookOK(CreditEntry(s, e).book)
  <1> DEFINE minted == MintedFor(s.book, e.amount)
             c == CreditEntry(s, e).book
  <1>1. e.user \in Users /\ e.amount \in Int
    BY InputsAssumption DEF Entries
  <1>2. CASE ~EntryValid(s.book, e) \/ minted = 0
    BY <1>2 DEF CreditEntry, EntrySteps
  <1>3. CASE EntryValid(s.book, e) /\ minted # 0
    <2>1. e.amount \in Nat /\ DepositSizeOk(e.amount) /\ WithinUserCap(s.book, e.user, e.amount)
      BY <1>1, <1>3 DEF EntryValid, DepositSizeOk
    <2>2. minted \in Nat \ {0}
      BY <1>3, <2>1, MintedType
    <2>3. c = Mint(s.book, e.user, minted, e.amount)
      BY <1>3 DEF CreditEntry
    <2>4. BookOK(c)
      BY <1>1, <2>1, <2>2, <2>3, MintOK
    <2> QED
      BY <1>1, <2>1, <2>2, <2>3, <2>4 DEF EntrySteps, Credits
  <1> QED
    BY <1>2, <1>3

LEMMA BatchIsOne ==
  ASSUME Inv, NEW e1 \in Entries, NEW e2 \in Entries, BatchDeposit(e1, e2)
  PROVE  BatchSteps
  <1> DEFINE mid == CreditEntry(BatchStart, e1)
             end == CreditEntry(mid, e2)
  <1>1. BatchStart.book = book /\ BookOK(book)
    BY InvParts DEF BatchStart
  <1>2. EntrySteps(book, mid.book, e1) /\ BookOK(mid.book)
    BY <1>1, EntryIsOne
  <1>3. EntrySteps(mid.book, end.book, e2)
    BY <1>2, EntryIsOne
  <1>4. /\ book' = end.book /\ NotPaused
        /\ ValidAmount(book, e1) + ValidAmount(book, e2) > 0
             => WithinTvlCap(book, ValidAmount(book, e1) + ValidAmount(book, e2))
        /\ wallet' = [wallet EXCEPT ![Agent] = wallet[Agent] - end.paid]
    BY DEF BatchDeposit
  <1>5. \A u \in Users : wallet'[u] = wallet[u]
    BY <1>4, InvParts, ParametersAssumption DEF Payers
  <1>6. mid.book \in BookType
    BY <1>2 DEF BookOK
  <1> HIDE DEF mid, end
  <1> QED
    BY <1>2, <1>3, <1>4, <1>5, <1>6 DEF BatchSteps

\* A payout from the locked user's free value burns no locked share.
LEMMA LockedShareNotBurned ==
  ASSUME NEW s \in Nat, NEW l \in Nat \ {0}, NEW actual \in Nat, NEW a \in Nat \ {0},
         actual <= a, NEW TS \in Nat \ {0}, NEW TA \in Nat \ {0},
         a <= AssetsFromShares(s - l, TS, TA)
  PROVE  s - SharesCeil(actual, TS, TA) >= l
  <1> DEFINE v == AssetsFromShares(s - l, TS, TA)
  <1>0. a <= v
    OBVIOUS
  <1>1. s - l > 0
    <2>1. SUFFICES ASSUME s - l < 0 PROVE FALSE
      BY DEF AssetsFromShares
    <2>2. v = ((s - l) * TA) \div TS
      BY <2>1 DEF AssetsFromShares
    <2>3. (s - l) * TA \in Int /\ (s - l) * TA <= 0
      BY <2>1
    <2>4. v \in Int /\ v * TS <= 0
      BY <2>2, <2>3, DivBounds
    <2> HIDE DEF v
    <2>5. v <= 0
      BY <2>4
    <2> QED
      BY <1>0, <2>4, <2>5
  <1> DEFINE u == s - l
  <1>2. u \in Nat
    BY <1>1
  <1> HIDE DEF u
  <1>3. v \in Nat /\ v * TS <= u * TA
    BY <1>2, FloorPays DEF u
  <1> HIDE DEF v
  <1>4. actual * TS <= v * TS
    BY <1>0, <1>3, MulMono
  <1>5. actual * TS <= u * TA
    BY <1>2, <1>3, <1>4
  <1>6. SharesCeil(actual, TS, TA) <= u /\ SharesCeil(actual, TS, TA) \in Nat
    BY <1>2, <1>5, CeilWithinHolding, CeilBurns
  <1> QED
    BY <1>6 DEF u

LEMMA WithdrawIsOne ==
  ASSUME Inv, NEW u \in Users, NEW a \in Int, NEW pays \in Flows, Withdraw(u, a, pays)
  PROVE  RedeemSteps
  <1> DEFINE recalled == Recall(a, pays)
             actual == Available(recalled, a)
             burned == BurnedFor(book, actual)
             paid   == WorthOf(book, burned)
  <1>1. /\ a \in Nat \ {0} /\ WithinUnlocked(u, a)
        /\ Redeemable(u, recalled, actual) /\ RedeemAssets(u, recalled, actual)
    BY DEF Withdraw
  <1>2. Moved(funds, recalled) /\ recalled.idle \in Nat
    BY <1>1, InvParts, RecallMoves
  <1> HIDE DEF recalled
  <1>3. actual \in Nat /\ actual <= a
    BY <1>1, <1>2 DEF Available, Lesser
  <1> HIDE DEF actual
  <1>4. Redeems(u, recalled, burned, paid)
    BY <1>1, <1>2, <1>3, RedeemAssetsRedeems
  <1>5. ASSUME locks[u].amount > 0
        PROVE  book.shares[u] - burned >= locks[u].amount
    <2>1. /\ book.shares[u] \in Nat /\ locks[u].amount \in Nat \ {0}
          /\ book.totalShares \in Nat \ {0} /\ book.totalAssets \in Nat \ {0}
      BY <1>4, <1>5, InvParts DEF BookOK, BookType, Inv, TypeOK, Redeems
    <2>2. a <= WorthOf(book, book.shares[u] - locks[u].amount)
      BY <1>1, <1>5 DEF WithinUnlocked
    <2> QED
      BY <1>1, <1>3, <2>1, <2>2, LockedShareNotBurned DEF WorthOf, BurnedFor
  <1> HIDE DEF burned, paid
  <1> QED
    BY <1>4, <1>5 DEF RedeemSteps

LEMMA EmergencyWithdrawIsOne ==
  ASSUME Inv, NEW u \in Users, NEW a \in Int, NEW pays \in Flows,
         EmergencyWithdraw(u, a, pays)
  PROVE  RedeemSteps
  <1> DEFINE recalled == Recall(a, pays)
             actual == Lesser(a, recalled.idle)
             burned == BurnedFor(book, actual)
             paid   == WorthOf(book, burned)
  <1>1. /\ a \in Nat /\ breaker.paused
        /\ Redeemable(u, recalled, actual) /\ RedeemAssets(u, recalled, actual)
    BY DEF EmergencyWithdraw, AllowsEmergencyWithdraw
  <1>2. Moved(funds, recalled) /\ recalled.idle \in Nat
    BY <1>1, InvParts, RecallMoves
  <1> HIDE DEF recalled
  <1>3. actual \in Nat
    BY <1>1, <1>2 DEF Lesser
  <1> HIDE DEF actual
  <1>4. Redeems(u, recalled, burned, paid)
    BY <1>1, <1>2, <1>3, RedeemAssetsRedeems
  <1> HIDE DEF burned, paid
  <1> QED
    BY <1>1, <1>4 DEF RedeemSteps

LEMMA MigrateIsOne ==
  ASSUME Inv, NEW u \in Users, MigrateShares(u)
  PROVE  MigrationSteps
  <1> DEFINE assets == Value(book, u)
  <1>1. /\ book.shares[u] > 0 /\ migration.target
        /\ book' = [book EXCEPT !.shares[u]   = 0,
                                !.totalShares = book.totalShares - book.shares[u],
                                !.totalAssets = book.totalAssets - assets]
        /\ DepositSizeOk(assets)
        /\ migration' = [migration EXCEPT !.received = migration.received + 2 * assets]
    BY DEF MigrateShares, TargetDeposit
  <1>2. book.shares[u] \in Nat /\ assets \in Nat
    <2>1. book.shares[u] \in Nat
      BY InvParts DEF BookOK, BookType
    <2> QED
      BY <2>1, InvParts, WorthWithinAssets DEF Value
  <1>3. migration' # migration
    <2>1. migration.received \in Nat /\ assets > 0
      BY <1>1 DEF DepositSizeOk, Inv, TypeOK
    <2> HIDE DEF assets
    <2>2. migration'.received = migration.received + 2 * assets
      BY <1>1 DEF Inv, TypeOK
    <2> QED
      BY <1>2, <2>1, <2>2
  <1> QED
    BY <1>1, <1>3 DEF MigrationSteps

LEMMA AdminLeavesOrReports ==
  ASSUME Inv, AdminStep
  PROVE  UNCHANGED book \/ ReportSteps
  <1>1. ASSUME NEW n \in LeastReport..Custody(funds) + 1, ReportYield(n)
        PROVE  ReportSteps
    <2>1. n \in Nat
      BY <1>1, ReportRange, ReportedType
    <2> QED
      BY <1>1, <2>1 DEF ReportYield, ReportSteps
  <1>2. ASSUME NEW n \in LeastReport..book.totalAssets, NEW cap \in DecreaseCaps,
               ReportLoss(n, cap)
        PROVE  ReportSteps
    <2>1. n \in Nat
      BY <1>2, ReportRange, ReportedType
    <2> QED
      BY <1>2, <2>1 DEF ReportLoss, ReportSteps
  <1> QED
    BY <1>1, <1>2 DEF AdminStep, Pause, EmergencyPause, Unpause, ResetCircuitBreaker,
       SetBreaker, SetMigrationTarget, SetMigrationPaused, SetMigration, accounting

\* Every step changes the ledger in one of the five ways, or not at all.
LEMMA StepsOfTheLedger ==
  ASSUME Inv, [Next]_vars
  PROVE  LedgerSteps
  <1>1. CASE UNCHANGED vars
    BY <1>1 DEF vars, LedgerSteps
  <1>2. CASE UserStep
    <2>1. DepositAmounts \subseteq Int /\ WithdrawAmounts \subseteq Int
      BY InputsAssumption
    <2>2. ASSUME NEW u \in Users, NEW pays \in VenueLimits, WithdrawAll(u, pays)
          PROVE  RedeemSteps
      BY <2>2, VenueLimitsType, WithdrawAllRedeems DEF RedeemSteps
    <2>3. ASSUME NEW u \in Users,
                 \/ \E n \in LockAmounts, d \in LockPeriods : LockShares(u, n, d)
                 \/ UnlockShares(u)
          PROVE  UNCHANGED book
      BY <2>3 DEF LockShares, UnlockShares, accounting
    <2> QED
      BY <1>2, <2>1, <2>2, <2>3, VenueLimitsType, DepositIsOne, BatchIsOne,
         WithdrawIsOne, EmergencyWithdrawIsOne, MigrateIsOne DEF UserStep, LedgerSteps
  <1>3. CASE AllocationStep
    <2>1. UNCHANGED book
      BY <1>3 DEF AllocationStep, Rebalance, RebalanceMulti, Harvest, EmergencyHarvest,
         HarvestRoundTrip, EnableMultiProtocol
    <2> QED
      BY <2>1 DEF LedgerSteps
  <1>4. CASE AdminStep
    BY <1>4, AdminLeavesOrReports DEF LedgerSteps
  <1>5. CASE Environment
    BY <1>5 DEF Environment, CloseLedger, Accrue, LedgerSteps
  <1> QED
    BY <1>1, <1>2, <1>3, <1>4, <1>5 DEF Next

-----------------------------------------------------------------------------
(* The price of a share. *)

\* From book b to book c no share loses value.
PriceKept(b, c) ==
  b.totalShares > 0 /\ c.totalShares > 0
    => c.totalAssets * b.totalShares >= b.totalAssets * c.totalShares

\* What a mint does to the totals.
LEMMA CreditTotals ==
  ASSUME NEW b, NEW c, NEW u, NEW a, Credits(b, c, u, a)
  PROVE  /\ c.totalShares = b.totalShares + MintedFor(b, a)
         /\ c.totalAssets = b.totalAssets + a
         /\ c.shares = [b.shares EXCEPT ![u] = b.shares[u] + MintedFor(b, a)]
         /\ u \in Users /\ a \in Nat /\ MintedFor(b, a) \in Nat \ {0}
         /\ b.totalShares \in Nat /\ b.totalAssets \in Nat /\ b.shares \in [Users -> Nat]
         /\ c.totalShares \in Nat \ {0} /\ c.totalAssets \in Nat
         /\ c.shares \in [Users -> Nat]
  <1>1. b \in BookType /\ c \in BookType /\ c = Mint(b, u, MintedFor(b, a), a)
        /\ u \in Users /\ a \in Nat /\ MintedFor(b, a) \in Nat \ {0}
    BY DEF Credits, BookOK
  <1> DEFINE minted == MintedFor(b, a)
  <1> HIDE DEF minted
  <1>2. /\ c.totalShares = b.totalShares + minted
        /\ c.totalAssets = b.totalAssets + a
        /\ c.shares = [b.shares EXCEPT ![u] = b.shares[u] + minted]
    BY <1>1 DEF Mint, BookType, minted
  <1>3. /\ b.totalShares \in Nat /\ b.totalAssets \in Nat /\ b.shares \in [Users -> Nat]
        /\ c.totalShares \in Nat /\ c.totalAssets \in Nat /\ c.shares \in [Users -> Nat]
    BY <1>1 DEF BookType
  <1>4. c.totalShares # 0
    BY <1>1, <1>2, <1>3 DEF minted
  <1> QED
    BY <1>1, <1>2, <1>3, <1>4 DEF minted

\* And to the holdings: u has more, the others have what they had.
LEMMA CreditShares ==
  ASSUME NEW b, NEW c, NEW u, NEW a, Credits(b, c, u, a), NEW w \in Users
  PROVE  /\ b.shares[w] \in Nat /\ c.shares[w] \in Nat
         /\ c.shares[w] >= b.shares[w]
         /\ c.shares[w] > b.shares[w] <=> w = u
  <1> DEFINE minted == MintedFor(b, a)
             n == b.shares[u] + minted
  <1>1. /\ u \in Users /\ minted \in Nat \ {0}
        /\ b.shares \in [Users -> Nat] /\ c.shares = [b.shares EXCEPT ![u] = n]
    BY CreditTotals
  <1> HIDE DEF minted
  <1>2. n \in Nat /\ n > b.shares[u] /\ b.shares[w] \in Nat
    BY <1>1
  <1> HIDE DEF n
  <1>3. CASE w = u
    <2>1. c.shares[w] = n
      BY <1>1, <1>3
    <2> QED
      BY <1>2, <1>3, <2>1
  <1>4. CASE w # u
    <2>1. c.shares[w] = b.shares[w]
      BY <1>1, <1>4
    <2> QED
      BY <1>2, <1>4, <2>1
  <1> QED
    BY <1>3, <1>4

LEMMA CreditKeepsPrice ==
  ASSUME NEW b, NEW c, NEW u, NEW a, Credits(b, c, u, a)
  PROVE  PriceKept(b, c)
  <1> DEFINE minted == MintedFor(b, a)
  <1>1. /\ c.totalShares = b.totalShares + minted /\ c.totalAssets = b.totalAssets + a
        /\ a \in Nat /\ b.totalShares \in Nat /\ b.totalAssets \in Nat
    BY CreditTotals
  <1>2. SUFFICES ASSUME b.totalShares > 0
                 PROVE  c.totalAssets * b.totalShares >= b.totalAssets * c.totalShares
    BY DEF PriceKept
  <1>3. (b.totalAssets + a) * b.totalShares >= b.totalAssets * (b.totalShares + minted)
    <2>1. b.totalShares \in Nat \ {0}
      BY <1>1, <1>2
    <2> QED
      BY <1>1, <2>1, MintKeepsPrice DEF MintedFor
  <1> HIDE DEF minted
  <1> QED
    BY <1>1, <1>3

LEMMA EntriesKeepPrice ==
  ASSUME NEW b \in BookType, NEW mid, NEW c, NEW e1, NEW e2,
         EntrySteps(b, mid, e1), EntrySteps(mid, c, e2)
  PROVE  PriceKept(b, c)
  <1>1. PriceKept(b, b)
    BY DEF PriceKept, BookType
  <1>2. CASE mid = b \/ c = mid
    BY <1>1, <1>2, CreditKeepsPrice DEF EntrySteps
  <1>3. CASE Credits(b, mid, e1.user, e1.amount) /\ Credits(mid, c, e2.user, e2.amount)
    <2>1. PriceKept(b, mid) /\ PriceKept(mid, c)
      BY <1>3, CreditKeepsPrice
    <2>2. /\ b.totalShares \in Nat /\ b.totalAssets \in Nat
          /\ mid.totalShares \in Nat \ {0} /\ mid.totalAssets \in Nat
          /\ c.totalShares \in Nat \ {0} /\ c.totalAssets \in Nat
      BY <1>3, CreditTotals
    <2>3. SUFFICES ASSUME b.totalShares > 0 PROVE PriceKept(b, c)
      BY DEF PriceKept
    <2>4. mid.totalAssets * b.totalShares >= b.totalAssets * mid.totalShares
      BY <2>1, <2>2, <2>3 DEF PriceKept
    <2>5. c.totalAssets * mid.totalShares >= mid.totalAssets * c.totalShares
      BY <2>1, <2>2 DEF PriceKept
    <2>6. c.totalAssets * b.totalShares >= b.totalAssets * c.totalShares
      BY <2>2, <2>4, <2>5, PriceTransitive
    <2> QED
      BY <2>6 DEF PriceKept
  <1> QED
    BY <1>2, <1>3 DEF EntrySteps

\* A redemption and a migration take their shares' part at most.
LEMMA BurnTotals ==
  ASSUME Inv, RedeemSteps \/ MigrationSteps
  PROVE  \E burned \in Nat \ {0}, paid \in Nat :
           /\ book'.totalShares = book.totalShares - burned
           /\ book'.totalAssets = book.totalAssets - paid
           /\ burned <= book.totalShares /\ paid <= book.totalAssets
           /\ paid * book.totalShares <= burned * book.totalAssets
           /\ \E u \in Users :
                book'.shares = [book.shares EXCEPT ![u] = book.shares[u] - burned]
  <1>0. book \in BookType /\ SumsTo(book.shares, book.totalShares)
    BY InvParts DEF BookOK
  <1>1. CASE RedeemSteps
    <2>0. PICK u \in Users : \E recalled, burned, paid : Redeems(u, recalled, burned, paid)
      BY <1>1 DEF RedeemSteps
    <2>1. PICK recalled, burned, paid : Redeems(u, recalled, burned, paid)
      BY <2>0
    <2>2. /\ burned \in Nat \ {0} /\ paid \in Nat /\ burned <= book.shares[u]
          /\ paid <= book.totalAssets
          /\ paid * book.totalShares <= burned * book.totalAssets
          /\ book' = Burn(book, u, burned, paid)
      BY <2>1 DEF Redeems, PayOut
    <2>3. book.shares[u] <= book.totalShares
      BY <1>0, HoldingWithinTotal DEF BookType
    <2>4. /\ book'.totalShares = book.totalShares - burned
          /\ book'.totalAssets = book.totalAssets - paid
          /\ book'.shares = [book.shares EXCEPT ![u] = book.shares[u] - burned]
      BY <1>0, <2>2 DEF Burn, BookType
    <2>5. burned <= book.totalShares
      BY <1>0, <2>2, <2>3 DEF BookType
    <2> QED
      BY <2>2, <2>4, <2>5
  <1>2. CASE MigrationSteps
    <2>1. PICK u \in Users :
            /\ book.shares[u] > 0
            /\ book' = [book EXCEPT !.shares[u]   = 0,
                                    !.totalShares = book.totalShares - book.shares[u],
                                    !.totalAssets = book.totalAssets - Value(book, u)]
      BY <1>2 DEF MigrationSteps
    <2> DEFINE burned == book.shares[u]
               paid   == Value(book, u)
    <2>2. burned \in Nat \ {0} /\ burned <= book.totalShares
      BY <1>0, <2>1, HoldingWithinTotal DEF BookType
    <2>3. paid \in Nat /\ paid <= book.totalAssets
      BY <2>2, InvParts, WorthWithinAssets DEF Value
    <2>4. paid * book.totalShares <= burned * book.totalAssets
      BY <1>0, <2>2, FloorPays DEF Value, WorthOf, BookType
    <2>5. /\ book'.totalShares = book.totalShares - burned
          /\ book'.totalAssets = book.totalAssets - paid
          /\ book'.shares = [book.shares EXCEPT ![u] = 0]
      BY <1>0, <2>1 DEF BookType
    <2>6. burned - burned = 0
      BY <2>2
    <2> HIDE DEF paid
    <2> QED
      BY <2>2, <2>3, <2>4, <2>5, <2>6
  <1> QED
    BY <1>1, <1>2

LEMMA LedgerStepsKeepPrice ==
  ASSUME Inv, LedgerSteps, book'.shares # book.shares
  PROVE  PriceKept(book, book')
  <1>0. book \in BookType
    BY InvParts DEF BookOK
  <1>1. CASE DepositSteps
    BY <1>1, CreditKeepsPrice DEF DepositSteps
  <1>2. CASE BatchSteps
    BY <1>0, <1>2, EntriesKeepPrice DEF BatchSteps
  <1>3. CASE RedeemSteps \/ MigrationSteps
    <2>1. PICK burned \in Nat \ {0}, paid \in Nat :
            /\ book'.totalShares = book.totalShares - burned
            /\ book'.totalAssets = book.totalAssets - paid
            /\ paid * book.totalShares <= burned * book.totalAssets
      BY <1>3, BurnTotals
    <2>2. (book.totalAssets - paid) * book.totalShares
            >= book.totalAssets * (book.totalShares - burned)
      BY <1>0, <2>1, BurnKeepsPrice DEF BookType
    <2> QED
      BY <2>1, <2>2 DEF PriceKept
  <1>4. CASE ReportSteps
    BY <1>0, <1>4 DEF ReportSteps, BookType
  <1> QED
    BY <1>1, <1>2, <1>3, <1>4 DEF LedgerSteps

\* No deposit, batch, redemption or migration ever lowers the price of a share,
\* whatever the totals have drifted to.
THEOREM PriceHolds ==
  ASSUME WithinWhole
  PROVE  Spec => PriceNeverFalls
  <1>1. ASSUME Inv, [Next]_vars
        PROVE  [book'.shares # book.shares /\ book.totalShares > 0 /\ book'.totalShares > 0
                  => book'.totalAssets * book.totalShares
                       >= book.totalAssets * book'.totalShares]_vars
    BY <1>1, StepsOfTheLedger, LedgerStepsKeepPrice DEF PriceKept
  <1> QED
    BY <1>1, Invariance, PTL DEF Spec, PriceNeverFalls

-----------------------------------------------------------------------------
(* Assets cover shares and principal. *)

\* A step that changes nothing.
LEMMA Stutters ==
  ASSUME UNCHANGED vars
  PROVE  /\ book' = book /\ funds' = funds /\ wallet' = wallet /\ migration' = migration
         /\ breaker' = breaker /\ mode' = mode /\ lastRebalance' = lastRebalance
         /\ ledger' = ledger /\ accrued' = accrued
  BY DEF vars

\* The depositors' entry points leave what the owner and the agent set.
LEMMA UserStepKeeps ==
  ASSUME UserStep
  PROVE  /\ breaker' = breaker /\ lastRebalance' = lastRebalance /\ ledger' = ledger
         /\ migration' = migration \/ migration.target
  <1> DEFINE kept == /\ breaker' = breaker /\ lastRebalance' = lastRebalance
                     /\ ledger' = ledger /\ (migration' = migration \/ migration.target)
  <1>1. ASSUME NEW u, NEW a, Deposit(u, a) PROVE kept
    BY <1>1 DEF Deposit, governance
  <1>2. ASSUME NEW e1, NEW e2, BatchDeposit(e1, e2) PROVE kept
    BY <1>2 DEF BatchDeposit, governance
  <1>3. ASSUME NEW u, NEW a, NEW pays, Withdraw(u, a, pays) PROVE kept
    BY <1>3 DEF Withdraw, governance
  <1>4. ASSUME NEW u, NEW pays, WithdrawAll(u, pays) PROVE kept
    BY <1>4 DEF WithdrawAll, governance
  <1>5. ASSUME NEW u, NEW a, NEW pays, EmergencyWithdraw(u, a, pays) PROVE kept
    BY <1>5 DEF EmergencyWithdraw, governance
  <1>6. ASSUME NEW u, NEW n, NEW d, LockShares(u, n, d) PROVE kept
    BY <1>6 DEF LockShares, governance
  <1>7. ASSUME NEW u, UnlockShares(u) PROVE kept
    BY <1>7 DEF UnlockShares, governance
  <1>8. ASSUME NEW u, MigrateShares(u) PROVE kept
    BY <1>8 DEF MigrateShares
  <1> HIDE DEF kept
  <1>9. kept
    BY <1>1, <1>2, <1>3, <1>4, <1>5, <1>6, <1>7, <1>8 DEF UserStep
  <1> QED
    BY <1>9 DEF kept

\* Nobody migrates before the owner sets a target.
LEMMA NoTargetStays ==
  ASSUME MigrationControl = FALSE, ~migration.target, [Next]_vars
  PROVE  ~migration'.target
  <1>1. CASE UNCHANGED vars
    BY <1>1, Stutters
  <1>2. CASE UserStep
    BY <1>2, UserStepKeeps
  <1>3. CASE AllocationStep
    BY <1>3 DEF AllocationStep, Rebalance, RebalanceMulti, Harvest, EmergencyHarvest,
       HarvestRoundTrip, EnableMultiProtocol, governance
  <1>4. CASE AdminStep
    BY <1>4 DEF AdminStep, ReportYield, ReportLoss, Pause, EmergencyPause, Unpause,
       ResetCircuitBreaker, SetBreaker, governance
  <1>5. CASE Environment
    BY <1>5 DEF Environment, CloseLedger, Accrue
  <1> QED
    BY <1>1, <1>2, <1>3, <1>4, <1>5 DEF Next

\* AssetsCover, of any book.
Covered(b) == b.totalAssets >= b.totalDeposits /\ b.totalAssets >= b.totalShares

LEMMA CreditCovers ==
  ASSUME NEW b, NEW c, NEW u, NEW a, Credits(b, c, u, a), Covered(b)
  PROVE  Covered(c)
  <1> DEFINE minted == MintedFor(b, a)
  <1>1. /\ c.totalShares = b.totalShares + minted /\ c.totalAssets = b.totalAssets + a
        /\ a \in Nat /\ b.totalShares \in Nat /\ b.totalAssets \in Nat /\ minted \in Nat
    BY CreditTotals
  <1>2. c.totalDeposits = b.totalDeposits + a /\ b.totalDeposits \in Nat
    BY DEF Credits, BookOK, BookType, Mint
  <1>3. minted <= a
    BY <1>1, MintedWithinDeposit DEF MintedFor, Covered
  <1> HIDE DEF minted
  <1> QED
    BY <1>1, <1>2, <1>3 DEF Covered

LEMMA LedgerStepsCover ==
  ASSUME Inv, LedgerSteps, Covered(book), DecreaseCaps = {}, ~migration.target
  PROVE  Covered(book')
  <1>0. book \in BookType
    BY InvParts DEF BookOK
  <1>1. CASE DepositSteps
    BY <1>1, CreditCovers DEF DepositSteps
  <1>2. CASE BatchSteps
    <2>1. PICK e1 \in Entries, e2 \in Entries, mid \in BookType :
            EntrySteps(book, mid, e1) /\ EntrySteps(mid, book', e2)
      BY <1>2 DEF BatchSteps
    <2>2. Covered(mid)
      BY <2>1, CreditCovers DEF EntrySteps
    <2> QED
      BY <2>1, <2>2, CreditCovers DEF EntrySteps
  <1>3. CASE RedeemSteps
    <2>0. PICK u \in Users : \E recalled, burned, paid : Redeems(u, recalled, burned, paid)
      BY <1>3 DEF RedeemSteps
    <2>1. PICK recalled, burned, paid : Redeems(u, recalled, burned, paid)
      BY <2>0
    <2>2. /\ burned \in Nat /\ paid \in Nat /\ burned <= book.shares[u]
          /\ paid <= book.totalAssets /\ book.totalShares \in Nat \ {0}
          /\ book.totalAssets \in Nat /\ book.totalDeposits \in Nat
          /\ paid * book.totalShares <= burned * book.totalAssets
          /\ book' = Burn(book, u, burned, paid)
      BY <1>0, <2>1 DEF Redeems, PayOut, BookType
    <2>3. burned <= book.totalShares
      BY <1>0, <2>2, InvParts, HoldingWithinTotal DEF BookType, BookOK
    <2>4. /\ book'.totalShares = book.totalShares - burned
          /\ book'.totalAssets = book.totalAssets - paid
          /\ book'.totalDeposits = IF book.totalDeposits >= paid
                                     THEN book.totalDeposits - paid ELSE 0
      BY <1>0, <2>2 DEF Burn, BookType
    <2>5. book.totalAssets - paid >= book.totalShares - burned
      BY <2>2, <2>3, BurnKeepsCover DEF Covered
    <2> QED
      BY <2>2, <2>4, <2>5 DEF Covered
  <1>4. CASE MigrationSteps
    BY <1>4 DEF MigrationSteps
  <1>5. CASE ReportSteps
    BY <1>0, <1>5 DEF ReportSteps, BookType, Covered
  <1>6. CASE UNCHANGED book
    BY <1>6
  <1> QED
    BY <1>1, <1>2, <1>3, <1>4, <1>5, <1>6 DEF LedgerSteps

\* I-3 and the first half of I-6: the assets cover the principal and a share is worth
\* at least one unit, as long as no loss is reported and nothing is migrated.  (A loss
\* report takes assets away from their principal by design, and a migration leaves the
\* principal of what it takes.)
THEOREM AssetsAlwaysCover ==
  ASSUME DecreaseCaps = {}, MigrationControl = FALSE
  PROVE  Spec => []AssetsCover
  <1> DEFINE I == Inv /\ AssetsCover /\ ~migration.target
  <1>0. WithinWhole
    BY DEF WithinWhole
  <1>1. Init => I
    <2>1. Init => AssetsCover /\ ~migration.target
      BY DEF Init, AssetsCover
    <2> QED
      BY <1>0, <2>1, InitEstablishes
  <1>2. I /\ [Next]_vars => I'
    <2>1. SUFFICES ASSUME I, [Next]_vars PROVE AssetsCover'
      BY NextPreserves, NoTargetStays
    <2>2. Covered(book')
      BY <2>1, StepsOfTheLedger, LedgerStepsCover DEF AssetsCover, Covered
    <2> QED
      BY <2>2 DEF AssetsCover, Covered
  <1>3. I => AssetsCover
    OBVIOUS
  <1> QED
    BY <1>1, <1>2, <1>3, PTL DEF Spec

-----------------------------------------------------------------------------
(* Locked shares. *)

\* Only a redemption of u, or a migration, takes shares of u.
LEMMA LedgerStepsKeepLocks ==
  ASSUME Inv, LedgerSteps, NEW u \in Users, locks[u].amount > 0, ~breaker.paused,
         book'.shares[u] < book.shares[u], migration' = migration
  PROVE  book'.shares[u] >= locks[u].amount
  <1>0. book \in BookType /\ book.shares[u] \in Nat
    BY InvParts DEF BookOK, BookType
  <1>1. ASSUME NEW b, NEW c, NEW w, NEW a, Credits(b, c, w, a)
        PROVE  /\ b.shares[u] \in Nat /\ c.shares[u] \in Nat
               /\ c.shares[u] >= b.shares[u]
    BY <1>1, CreditShares
  <1>2. CASE DepositSteps
    <2>1. PICK w \in Users, a \in Nat : Credits(book, book', w, a)
      BY <1>2 DEF DepositSteps
    <2>2. book'.shares[u] >= book.shares[u] /\ book'.shares[u] \in Nat
      BY <1>1, <2>1
    <2> QED
      BY <1>0, <2>2
  <1>3. CASE BatchSteps
    <2>1. PICK e1 \in Entries, e2 \in Entries, mid \in BookType :
            EntrySteps(book, mid, e1) /\ EntrySteps(mid, book', e2)
      BY <1>3 DEF BatchSteps
    <2>2. mid.shares[u] >= book.shares[u] /\ mid.shares[u] \in Nat
      BY <1>0, <1>1, <2>1 DEF EntrySteps
    <2>3. book'.shares[u] >= mid.shares[u] /\ book'.shares[u] \in Nat
      BY <1>1, <2>1, <2>2 DEF EntrySteps
    <2> QED
      BY <1>0, <2>2, <2>3
  <1>4. CASE RedeemSteps
    <2>0. PICK w \in Users : \E recalled, burned, paid :
            /\ Redeems(w, recalled, burned, paid)
            /\ ~breaker.paused /\ locks[w].amount > 0
                 => book.shares[w] - burned >= locks[w].amount
      BY <1>4 DEF RedeemSteps
    <2>1. PICK recalled, burned, paid :
            /\ Redeems(w, recalled, burned, paid)
            /\ ~breaker.paused /\ locks[w].amount > 0
                 => book.shares[w] - burned >= locks[w].amount
      BY <2>0
    <2>2. book'.shares = [book.shares EXCEPT ![w] = book.shares[w] - burned]
      BY <1>0, <2>1 DEF Redeems, PayOut, Burn, BookType
    <2>3. w = u
      BY <1>0, <2>2 DEF BookType
    <2> QED
      BY <1>0, <2>1, <2>2, <2>3 DEF BookType
  <1>5. CASE MigrationSteps
    BY <1>5 DEF MigrationSteps
  <1>6. CASE ReportSteps
    BY <1>0, <1>6 DEF ReportSteps, BookType
  <1>7. CASE UNCHANGED book
    BY <1>0, <1>7
  <1> QED
    BY <1>2, <1>3, <1>4, <1>5, <1>6, <1>7 DEF LedgerSteps

\* In an active vault no withdrawal cuts into locked shares, at any price and for any
\* rounding, although the check compares assets and not shares.
THEOREM LockedSharesHold ==
  ASSUME WithinWhole
  PROVE  Spec => LockedSharesStay
  <1>1. ASSUME Inv, [Next]_vars
        PROVE  [\A u \in Users :
                  /\ locks[u].amount > 0 /\ ~breaker.paused
                  /\ book'.shares[u] < book.shares[u]
                  /\ migration' = migration
                  => book'.shares[u] >= locks[u].amount]_vars
    BY <1>1, StepsOfTheLedger, LedgerStepsKeepLocks
  <1> QED
    BY <1>1, Invariance, PTL DEF Spec, LockedSharesStay

-----------------------------------------------------------------------------
(* The caps. *)

\* A credit adds no more than was paid to what the user could redeem ...
LEMMA CreditWorthAtMost ==
  ASSUME NEW b, NEW c, NEW u, NEW a, Credits(b, c, u, a), b.totalShares > 0
  PROVE  Value(c, u) \in Nat /\ Value(b, u) \in Nat /\ Value(c, u) <= Value(b, u) + a
  <1> DEFINE minted == MintedFor(b, a)
             s == b.shares[u]
  <1>1. /\ c.totalShares = b.totalShares + minted /\ c.totalAssets = b.totalAssets + a
        /\ c.shares = [b.shares EXCEPT ![u] = s + minted]
        /\ u \in Users /\ a \in Nat /\ minted \in Nat
        /\ b.totalShares \in Nat /\ b.totalAssets \in Nat /\ b.shares \in [Users -> Nat]
        /\ c.totalShares \in Nat /\ c.totalAssets \in Nat
    BY CreditTotals
  <1>2. s \in Nat /\ s <= b.totalShares /\ c.shares[u] = s + minted
    <2>1. SumsTo(b.shares, b.totalShares)
      BY DEF Credits, BookOK
    <2> QED
      BY <1>1, <2>1, HoldingWithinTotal
  <1>3. b.totalShares \in Nat \ {0}
    BY <1>1
  <1>4. minted = SharesFloor(a, b.totalShares, b.totalAssets)
    BY DEF MintedFor
  <1> HIDE DEF minted, s
  <1>5. AssetsFromShares(s + minted, b.totalShares + minted, b.totalAssets + a)
          <= AssetsFromShares(s, b.totalShares, b.totalAssets) + a
    BY <1>1, <1>2, <1>3, <1>4, MintedWorthAtMost
  <1>6. Value(c, u) \in Nat /\ Value(b, u) \in Nat
    <2>1. c.shares[u] \in Nat
      BY <1>1, <1>2
    <2> QED
      BY <1>1, <1>2, <2>1, FloorPays DEF Value, WorthOf, s
  <1> QED
    BY <1>1, <1>2, <1>5, <1>6 DEF Value, WorthOf, s

\* ... and takes nothing from anybody.
LEMMA CreditWorthKept ==
  ASSUME NEW b, NEW c, NEW u, NEW a, Credits(b, c, u, a), NEW w \in Users
  PROVE  Value(b, w) \in Nat /\ Value(c, w) \in Nat /\ Value(b, w) <= Value(c, w)
  <1>1. /\ b.totalShares \in Nat /\ b.totalAssets \in Nat
        /\ c.totalShares \in Nat \ {0} /\ c.totalAssets \in Nat
        /\ b.shares[w] \in Nat /\ c.shares[w] \in Nat /\ b.shares[w] <= c.shares[w]
    BY CreditTotals, CreditShares
  <1>2. Value(b, w) \in Nat /\ Value(c, w) \in Nat
    BY <1>1, FloorPays DEF Value, WorthOf
  <1>3. CASE b.totalShares = 0
    <2>1. Value(b, w) = 0
      BY <1>3 DEF Value, WorthOf, AssetsFromShares
    <2> QED
      BY <1>2, <2>1
  <1>4. CASE b.totalShares > 0
    <2>1. c.totalAssets * b.totalShares >= b.totalAssets * c.totalShares
      BY <1>1, <1>4, CreditKeepsPrice DEF PriceKept
    <2> QED
      BY <1>1, <1>2, <2>1, WorthNeverFalls DEF Value, WorthOf
  <1> QED
    BY <1>1, <1>3, <1>4

\* An entry that is valid after another one was valid before it.
LEMMA ValidBefore ==
  ASSUME NEW b, NEW c, NEW u, NEW a, Credits(b, c, u, a) \/ c = b,
         NEW d, NEW e, Credits(c, d, e.user, e.amount)
  PROVE  EntryValid(b, e)
  <1>1. DepositSizeOk(e.amount) /\ WithinUserCap(c, e.user, e.amount)
        /\ e.user \in Users /\ e.amount \in Nat
    BY DEF Credits
  <1>2. CASE c = b
    BY <1>1, <1>2 DEF EntryValid
  <1>3. CASE Credits(b, c, u, a)
    <2>1. /\ Value(b, e.user) \in Nat /\ Value(c, e.user) \in Nat
          /\ Value(b, e.user) <= Value(c, e.user)
      BY <1>1, <1>3, CreditWorthKept
    <2> QED
      BY <1>1, <2>1, ParametersAssumption DEF EntryValid, WithinUserCap
  <1> QED
    BY <1>2, <1>3

\* The user cap, of one credit.
LEMMA CreditWithinCap ==
  ASSUME NEW b, NEW c, NEW u, NEW a, Credits(b, c, u, a),
         b.totalShares > 0, UserDepositCap > 0
  PROVE  Value(c, u) <= UserDepositCap
  <1>1. /\ Value(c, u) \in Nat /\ Value(b, u) \in Nat
        /\ Value(c, u) <= Value(b, u) + a
    BY CreditWorthAtMost
  <1>2. Value(b, u) + a <= UserDepositCap /\ a \in Nat
    BY DEF Credits, WithinUserCap
  <1> QED
    BY <1>1, <1>2, ParametersAssumption

\* A mint that reaches anybody's shares is a deposit or a batch.
LEMMA OnlyCreditsMint ==
  ASSUME Inv, LedgerSteps, book'.totalShares > book.totalShares
  PROVE  DepositSteps \/ BatchSteps
  <1>0. book \in BookType
    BY InvParts DEF BookOK
  <1>1. CASE RedeemSteps \/ MigrationSteps
    <2>1. PICK burned \in Nat \ {0}, paid \in Nat :
            book'.totalShares = book.totalShares - burned
      BY <1>1, BurnTotals
    <2> QED
      BY <1>0, <2>1 DEF BookType
  <1>2. CASE ReportSteps
    BY <1>0, <1>2 DEF ReportSteps, BookType
  <1>3. CASE UNCHANGED book
    BY <1>0, <1>3 DEF BookType
  <1> QED
    BY <1>1, <1>2, <1>3 DEF LedgerSteps

\* The TVL cap, of a whole step.
LEMMA MintWithinTvlCap ==
  ASSUME Inv, DepositSteps \/ BatchSteps, book' # book, TvlCap > 0
  PROVE  book'.totalAssets <= TvlCap
  <1>0. book \in BookType /\ TvlCap \in Nat
    BY InvParts, ParametersAssumption DEF BookOK
  <1>1. CASE DepositSteps
    <2>1. PICK u \in Users, a \in Nat : Credits(book, book', u, a) /\ WithinTvlCap(book, a)
      BY <1>1 DEF DepositSteps
    <2>2. book'.totalAssets = book.totalAssets + a
      BY <2>1, CreditTotals
    <2> QED
      BY <2>1, <2>2 DEF WithinTvlCap
  <1>2. CASE BatchSteps
    <2>1. PICK e1 \in Entries, e2 \in Entries, mid \in BookType :
            /\ EntrySteps(book, mid, e1) /\ EntrySteps(mid, book', e2)
            /\ ValidAmount(book, e1) + ValidAmount(book, e2) > 0
                 => WithinTvlCap(book, ValidAmount(book, e1) + ValidAmount(book, e2))
      BY <1>2 DEF BatchSteps
    <2> DEFINE v1 == ValidAmount(book, e1)
               v2 == ValidAmount(book, e2)
    <2>2. ASSUME NEW e \in Entries
          PROVE  ValidAmount(book, e) \in Nat
      <3>1. e.amount \in Int
        BY InputsAssumption DEF Entries
      <3> QED
        BY <3>1 DEF ValidAmount, EntryValid, DepositSizeOk
    <2>3. ASSUME NEW b, NEW c, NEW e, Credits(b, c, e.user, e.amount)
          PROVE  /\ c.totalAssets = b.totalAssets + e.amount /\ e.amount \in Nat \ {0}
                 /\ EntryValid(b, e)
      <3>1. c.totalAssets = b.totalAssets + e.amount
        BY <2>3, CreditTotals
      <3> QED
        BY <2>3, <3>1 DEF Credits, EntryValid, DepositSizeOk
    <2>4. /\ mid = book \/ (mid.totalAssets = book.totalAssets + v1 /\ v1 > 0)
          /\ mid.totalAssets \in Nat /\ mid.totalAssets <= book.totalAssets + v1
      <3>1. v1 \in Nat /\ mid.totalAssets \in Nat
        BY <2>2 DEF BookType
      <3>2. CASE mid = book
        BY <1>0, <3>1, <3>2 DEF BookType
      <3>3. CASE Credits(book, mid, e1.user, e1.amount)
        <4>1. v1 = e1.amount
          BY <2>3, <3>3 DEF ValidAmount
        <4> QED
          BY <2>3, <3>1, <3>3, <4>1
      <3> QED
        BY <2>1, <3>2, <3>3 DEF EntrySteps
    <2>5. \/ book' = mid
          \/ book'.totalAssets = mid.totalAssets + v2 /\ v2 > 0
      <3>1. CASE Credits(mid, book', e2.user, e2.amount)
        <4>1. EntryValid(book, e2)
          BY <2>1, <3>1, ValidBefore DEF EntrySteps
        <4>2. v2 = e2.amount
          BY <4>1 DEF ValidAmount
        <4>3. book'.totalAssets = mid.totalAssets + e2.amount /\ e2.amount > 0
          BY <2>3, <3>1
        <4> HIDE DEF v2
        <4> QED
          BY <4>2, <4>3
      <3> QED
        BY <2>1, <3>1 DEF EntrySteps
    <2>6. v1 \in Nat /\ v2 \in Nat /\ (v1 + v2 > 0 => WithinTvlCap(book, v1 + v2))
      BY <2>1, <2>2
    <2> HIDE DEF v1, v2
    <2>7. v1 + v2 > 0 /\ book'.totalAssets <= book.totalAssets + (v1 + v2)
      BY <1>0, <2>4, <2>5, <2>6 DEF BookType
    <2>8. book.totalAssets + (v1 + v2) <= TvlCap
      BY <2>6, <2>7 DEF WithinTvlCap
    <2>9. book'.totalAssets \in Nat
      BY <1>0, <2>4, <2>5, <2>6 DEF BookType
    <2> QED
      BY <1>0, <2>6, <2>7, <2>8, <2>9 DEF BookType
  <1> QED
    BY <1>1, <1>2

\* The user cap, of a step that credits only u.
LEMMA MintWithinUserCap ==
  ASSUME Inv, DepositSteps \/ BatchSteps, UserDepositCap > 0, book.totalShares > 0,
         NEW u \in Users, book'.shares = [book.shares EXCEPT ![u] = book'.shares[u]],
         book'.shares[u] > book.shares[u]
  PROVE  Value(book', u) <= UserDepositCap
  <1>0. book \in BookType /\ \A w \in Users : w # u => book'.shares[w] = book.shares[w]
    BY InvParts DEF BookOK, BookType
  <1>1. CASE DepositSteps
    <2>1. PICK w \in Users, a \in Nat : Credits(book, book', w, a)
      BY <1>1 DEF DepositSteps
    <2>2. w = u
      BY <2>1, CreditShares
    <2> QED
      BY <2>1, <2>2, CreditWithinCap
  <1>2. CASE BatchSteps
    <2>1. PICK e1 \in Entries, e2 \in Entries, mid \in BookType :
            EntrySteps(book, mid, e1) /\ EntrySteps(mid, book', e2)
      BY <1>2 DEF BatchSteps
    <2>2. CASE book' = mid
      <3>1. Credits(book, book', e1.user, e1.amount)
        BY <1>0, <2>1, <2>2 DEF EntrySteps, BookType
      <3>2. e1.user = u
        BY <3>1, CreditShares
      <3> QED
        BY <3>1, <3>2, CreditWithinCap
    <2>3. CASE Credits(mid, book', e2.user, e2.amount)
      <3>1. e2.user \in Users /\ mid.totalShares \in Nat /\ book.totalShares \in Nat
        BY <1>0, <2>3 DEF Credits, BookType
      <3>2. mid.totalShares > 0
        <4>1. CASE mid = book
          BY <4>1
        <4>2. CASE Credits(book, mid, e1.user, e1.amount)
          <5>1. mid.totalShares \in Nat \ {0}
            BY <4>2, CreditTotals
          <5> QED
            BY <5>1
        <4> QED
          BY <2>1, <4>1, <4>2 DEF EntrySteps
      <3>3. mid.shares[e2.user] >= book.shares[e2.user]
            /\ book.shares[e2.user] \in Nat /\ mid.shares[e2.user] \in Nat
        BY <1>0, <2>1, <3>1, CreditShares DEF EntrySteps, BookType
      <3>4. book'.shares[e2.user] > mid.shares[e2.user] /\ book'.shares[e2.user] \in Nat
        BY <2>3, <3>1, CreditShares
      <3>5. e2.user = u
        BY <1>0, <3>1, <3>3, <3>4
      <3> QED
        BY <2>3, <3>2, <3>5, CreditWithinCap
    <2> QED
      BY <2>1, <2>2, <2>3 DEF EntrySteps
  <1> QED
    BY <1>1, <1>2

\* No mint leaves a cap behind, batches that credit a user twice included, whatever
\* the caps are and wherever the price stands.
THEOREM CapsAreKept ==
  ASSUME WithinWhole
  PROVE  Spec => CapsHold
  <1>1. ASSUME Inv, [Next]_vars, book'.totalShares > book.totalShares
        PROVE  /\ TvlCap > 0 => book'.totalAssets <= TvlCap
               /\ UserDepositCap > 0 /\ book.totalShares > 0 =>
                    \A u \in Users :
                      book'.shares = [book.shares EXCEPT ![u] = book'.shares[u]]
                        /\ book'.shares[u] > book.shares[u]
                        => Value(book', u) <= UserDepositCap
    <2>1. DepositSteps \/ BatchSteps
      BY <1>1, StepsOfTheLedger, OnlyCreditsMint
    <2>2. book' # book
      <3>1. book.totalShares \in Nat
        BY <1>1, InvParts DEF BookOK, BookType
      <3> QED
        BY <1>1, <3>1
    <2> QED
      BY <1>1, <2>1, <2>2, MintWithinTvlCap, MintWithinUserCap
  <1>2. ASSUME Inv, [Next]_vars
        PROVE  [book'.totalShares > book.totalShares =>
                 /\ TvlCap > 0 => book'.totalAssets <= TvlCap
                 /\ UserDepositCap > 0 /\ book.totalShares > 0 =>
                      \A u \in Users :
                        book'.shares = [book.shares EXCEPT ![u] = book'.shares[u]]
                          /\ book'.shares[u] > book.shares[u]
                          => Value(book', u) <= UserDepositCap]_vars
    BY <1>1, <1>2
  <1> QED
    BY <1>2, Invariance, PTL DEF Spec, CapsHold

-----------------------------------------------------------------------------
(* What a depositor keeps. *)

\* Shares are worth something.
Priced(b) == b.totalShares > 0 => b.totalAssets > 0

LEMMA CreditPrices ==
  ASSUME NEW b, NEW c, NEW u, NEW a, Credits(b, c, u, a)
  PROVE  Priced(c)
  <1>1. c.totalAssets = b.totalAssets + a /\ b.totalAssets \in Nat
    BY CreditTotals
  <1>2. a \in Nat /\ a > 0
    BY DEF Credits, DepositSizeOk
  <1> QED
    BY <1>1, <1>2 DEF Priced

\* A loss report that may not write off everything leaves something.
LEMMA LossLeaves ==
  ASSUME NEW n \in Nat, NEW cap \in 0..BPS, cap # BPS, book.totalAssets \in Nat \ {0},
         DecreaseAllowed(n, cap)
  PROVE  n > 0
  <1> DEFINE g == Greater(cap, 100)
             q == (book.totalAssets * g) \div BPS
  <1>1. g \in Nat /\ g + 1 <= BPS /\ BPS \in Nat \ {0}
    BY DEF Greater, BPS
  <1>2. book.totalAssets - n <= q
    BY DEF DecreaseAllowed
  <1> HIDE DEF g
  <1>3. q \in Int /\ q * BPS <= book.totalAssets * g
    <2>1. book.totalAssets * g \in Int
      BY <1>1
    <2> QED
      BY <1>1, <2>1, DivBounds
  <1> HIDE DEF q
  <1>4. (g + 1) * book.totalAssets <= BPS * book.totalAssets
    BY <1>1, MulMono
  <1>5. book.totalAssets * g < book.totalAssets * BPS
    BY <1>1, <1>4
  <1>6. q * BPS < book.totalAssets * BPS
    BY <1>1, <1>3, <1>5
  <1>7. q < book.totalAssets
    BY <1>1, <1>3, <1>6, MulCancel
  <1> QED
    BY <1>2, <1>3, <1>7

LEMMA LedgerStepsPrice ==
  ASSUME Inv, LedgerSteps, Priced(book), BPS \notin DecreaseCaps
  PROVE  Priced(book')
  <1>0. book \in BookType
    BY InvParts DEF BookOK
  <1>1. CASE DepositSteps
    BY <1>1, CreditPrices DEF DepositSteps
  <1>2. CASE BatchSteps
    <2>1. PICK e1 \in Entries, e2 \in Entries, mid \in BookType :
            EntrySteps(book, mid, e1) /\ EntrySteps(mid, book', e2)
      BY <1>2 DEF BatchSteps
    <2>2. Priced(mid)
      BY <2>1, CreditPrices DEF EntrySteps
    <2> QED
      BY <2>1, <2>2, CreditPrices DEF EntrySteps
  <1>3. CASE RedeemSteps \/ MigrationSteps
    <2>1. PICK burned \in Nat \ {0}, paid \in Nat :
            /\ book'.totalShares = book.totalShares - burned
            /\ book'.totalAssets = book.totalAssets - paid
            /\ burned <= book.totalShares /\ paid <= book.totalAssets
            /\ paid * book.totalShares <= burned * book.totalAssets
      BY <1>3, BurnTotals
    <2>2. book.totalShares \in Nat \ {0} /\ book.totalAssets \in Nat \ {0}
      BY <1>0, <2>1 DEF Priced, BookType
    <2>3. SUFFICES ASSUME book.totalShares - burned > 0, book.totalAssets - paid = 0
                   PROVE  FALSE
      BY <2>1, <2>2 DEF Priced
    <2>4. (book.totalAssets - paid) * book.totalShares
            >= book.totalAssets * (book.totalShares - burned)
      BY <2>1, <2>2, BurnKeepsPrice
    <2>5. book.totalAssets * (book.totalShares - burned) > 0
      BY <2>1, <2>2, <2>3
    <2> QED
      BY <2>2, <2>3, <2>4, <2>5
  <1>4. CASE ReportSteps
    <2>1. PICK n \in Nat :
            /\ book' = [book EXCEPT !.totalAssets = n]
            /\ n >= book.totalAssets \/ \E cap \in DecreaseCaps : DecreaseAllowed(n, cap)
      BY <1>4 DEF ReportSteps
    <2>2. book'.totalAssets = n /\ book'.totalShares = book.totalShares
      BY <1>0, <2>1 DEF BookType
    <2>3. SUFFICES ASSUME book.totalShares > 0 PROVE n > 0
      BY <2>2 DEF Priced
    <2>4. book.totalAssets \in Nat \ {0}
      BY <1>0, <2>3 DEF Priced, BookType
    <2>5. ASSUME NEW cap \in DecreaseCaps, DecreaseAllowed(n, cap)
          PROVE  n > 0
      <3>1. cap \in 0..BPS /\ cap # BPS
        BY InvParts DEF WithinWhole
      <3> QED
        BY <2>4, <2>5, <3>1, LossLeaves
    <2> QED
      BY <2>1, <2>4, <2>5
  <1>5. CASE UNCHANGED book
    BY <1>5 DEF Priced
  <1> QED
    BY <1>1, <1>2, <1>3, <1>4, <1>5 DEF LedgerSteps

\* A credit is worth what was paid for it, but for one share and one unit.
LEMMA CreditWorthAtLeast ==
  ASSUME NEW b, NEW c, NEW u, NEW a, Credits(b, c, u, a), Priced(b)
  PROVE  (a - (Value(c, u) - Value(b, u)) - 1) * c.totalShares <= c.totalAssets
  <1> DEFINE minted == MintedFor(b, a)
             s == b.shares[u]
  <1>1. /\ c.totalShares = b.totalShares + minted /\ c.totalAssets = b.totalAssets + a
        /\ c.shares = [b.shares EXCEPT ![u] = s + minted]
        /\ u \in Users /\ a \in Nat /\ minted \in Nat \ {0}
        /\ b.totalShares \in Nat /\ b.totalAssets \in Nat /\ b.shares \in [Users -> Nat]
    BY CreditTotals
  <1>2. s \in Nat /\ s <= b.totalShares /\ c.shares[u] = s + minted
    <2>1. SumsTo(b.shares, b.totalShares)
      BY DEF Credits, BookOK
    <2> QED
      BY <1>1, <2>1, HoldingWithinTotal
  <1>3. minted = SharesFloor(a, b.totalShares, b.totalAssets)
    BY DEF MintedFor
  <1> HIDE DEF minted, s
  <1> DEFINE v == AssetsFromShares(s, b.totalShares, b.totalAssets)
             w == AssetsFromShares(s + minted, b.totalShares + minted, b.totalAssets + a)
  <1>4. (a - (w - v) - 1) * (b.totalShares + minted) <= b.totalAssets + a
    BY <1>1, <1>2, <1>3, MintedWorthAtLeast DEF Priced
  <1>5. Value(c, u) = w /\ Value(b, u) = v
    BY <1>1, <1>2 DEF Value, WorthOf, s
  <1> HIDE DEF v, w
  <1> QED
    BY <1>1, <1>4, <1>5

LEMMA LedgerStepsKeepValue ==
  ASSUME Inv, LedgerSteps, Priced(book), NEW u \in Users,
         book'.shares[u] > book.shares[u], wallet[u] - wallet'[u] > 0
  PROVE  LET paid == wallet[u] - wallet'[u]
             kept == Value(book', u) - Value(book, u)
         IN  (paid - kept - 1) * book'.totalShares <= book'.totalAssets
  <1>0. book \in BookType /\ wallet \in [Payers -> Nat] /\ u \in Payers
    BY InvParts DEF BookOK, Payers
  <1>1. CASE DepositSteps
    <2>1. PICK w \in Users, a \in Nat :
            /\ Credits(book, book', w, a)
            /\ wallet' = [wallet EXCEPT ![w] = wallet[w] - a]
      BY <1>1 DEF DepositSteps
    <2>2. w = u
      BY <2>1, CreditShares
    <2>3. wallet[u] - wallet'[u] = a
      BY <1>0, <2>1, <2>2
    <2>4. (a - (Value(book', u) - Value(book, u)) - 1) * book'.totalShares
            <= book'.totalAssets
      BY <2>1, <2>2, CreditWorthAtLeast
    <2> QED
      BY <2>3, <2>4
  <1>2. CASE BatchSteps
    BY <1>0, <1>2 DEF BatchSteps
  <1>3. CASE RedeemSteps \/ MigrationSteps
    <2>1. PICK burned \in Nat \ {0}, w \in Users :
            book'.shares = [book.shares EXCEPT ![w] = book.shares[w] - burned]
      BY <1>3, BurnTotals
    <2> QED
      BY <1>0, <2>1 DEF BookType
  <1>4. CASE ReportSteps
    BY <1>0, <1>4 DEF ReportSteps, BookType
  <1>5. CASE UNCHANGED book
    BY <1>0, <1>5 DEF BookType
  <1> QED
    BY <1>1, <1>2, <1>3, <1>4, <1>5 DEF LedgerSteps

\* A depositor loses less than one share and one unit to rounding, at any price a
\* vault can reach whose losses are never reported as total.  (After a report that
\* writes off everything, old shares share in the next deposit.)
THEOREM DepositorsKeepValue ==
  ASSUME WithinWhole, BPS \notin DecreaseCaps
  PROVE  Spec => DepositorKeepsValue
  <1> DEFINE I == Inv /\ Priced(book)
  <1>1. Init => I
    <2>1. Init => Priced(book)
      BY DEF Init, Priced
    <2> QED
      BY <2>1, InitEstablishes
  <1>2. I /\ [Next]_vars => I'
    <2>1. ASSUME I, [Next]_vars
          PROVE  Priced(book')
      BY <2>1, StepsOfTheLedger, LedgerStepsPrice
    <2>2. ASSUME I, [Next]_vars
          PROVE  Priced(book)'
      BY <2>1, <2>2 DEF Priced
    <2> QED
      BY <2>2, NextPreserves
  <1>3. ASSUME I, [Next]_vars
        PROVE  [\A u \in Users :
                  LET paid == wallet[u] - wallet'[u]
                      kept == Value(book', u) - Value(book, u)
                  IN  book'.shares[u] > book.shares[u] /\ paid > 0
                        => (paid - kept - 1) * book'.totalShares <= book'.totalAssets]_vars
    BY <1>3, StepsOfTheLedger, LedgerStepsKeepValue
  <1> QED
    BY <1>1, <1>2, <1>3, PTL DEF Spec, DepositorKeepsValue

-----------------------------------------------------------------------------
(* The vault as a pool of backed shares. *)

\* From book b to book c somebody bought shares and nobody lost one.
Bought(b, c) ==
  /\ c.totalShares > b.totalShares /\ c.totalAssets > b.totalAssets
  /\ \A w \in Users : c.shares[w] >= b.shares[w]

LEMMA CreditBuys ==
  ASSUME NEW b, NEW c, NEW u, NEW a, Credits(b, c, u, a)
  PROVE  Bought(b, c)
  <1>1. \A w \in Users : c.shares[w] >= b.shares[w]
    BY CreditShares
  <1>2. a > 0
    BY DEF Credits, DepositSizeOk
  <1> DEFINE minted == MintedFor(b, a)
  <1>3. /\ c.totalShares = b.totalShares + minted /\ c.totalAssets = b.totalAssets + a
        /\ a \in Nat /\ b.totalShares \in Nat /\ b.totalAssets \in Nat
        /\ minted \in Nat \ {0}
    BY CreditTotals
  <1> HIDE DEF minted
  <1> QED
    BY <1>1, <1>2, <1>3 DEF Bought

\* Two credits after one another are one purchase.
LEMMA EntriesBuy ==
  ASSUME NEW b, NEW mid, NEW c, NEW e1, NEW e2,
         EntrySteps(b, mid, e1), EntrySteps(mid, c, e2)
  PROVE  c = b \/ Bought(b, c)
  <1>1. CASE mid = b \/ c = mid
    BY <1>1, CreditBuys DEF EntrySteps
  <1>2. CASE Credits(b, mid, e1.user, e1.amount) /\ Credits(mid, c, e2.user, e2.amount)
    <2>1. Bought(b, mid) /\ Bought(mid, c)
      BY <1>2, CreditBuys
    <2>2. /\ b.totalShares \in Nat /\ b.totalAssets \in Nat
          /\ mid.totalShares \in Nat /\ mid.totalAssets \in Nat
          /\ c.totalShares \in Nat /\ c.totalAssets \in Nat
      BY <1>2, CreditTotals
    <2>3. ASSUME NEW w \in Users
          PROVE  c.shares[w] >= b.shares[w]
      <3>1. b.shares[w] \in Nat /\ mid.shares[w] \in Nat /\ c.shares[w] \in Nat
        BY <1>2, CreditShares
      <3> QED
        BY <2>1, <3>1 DEF Bought
    <2> QED
      BY <2>1, <2>2, <2>3 DEF Bought
  <1> QED
    BY <1>1, <1>2 DEF EntrySteps

LEMMA PoolInit == Init => Pool!SharesInit
  <1> SUFFICES ASSUME Init PROVE Pool!SharesInit
    OBVIOUS
  <1>1. book.shares = [u \in Users |-> 0] /\ book.totalShares = 0 /\ book.totalAssets = 0
    BY DEF Init
  <1>2. Custody(funds) = 0
    BY DEF Init, Custody, Deployed, Venues
  <1> QED
    BY <1>1, <1>2 DEF Pool!SharesInit

\* A step that leaves the book alone is a profit or a revaluation, or invisible.
LEMMA QuietStep ==
  ASSUME UNCHANGED book, KeepsBacking, book.totalAssets \in Nat,
         Custody(funds) \in Nat, Custody(funds') \in Nat
  PROVE  [Pool!SharesNext]_(Pool!shareVars)
  <1>1. CASE Custody(funds') = Custody(funds)
    BY <1>1 DEF Pool!shareVars
  <1>2. CASE Custody(funds') # Custody(funds)
    <2>1. Custody(funds') > Custody(funds)
      BY <1>2 DEF KeepsBacking
    <2>2. Pool!Earn
      BY <2>1 DEF Pool!Earn
    <2> QED
      BY <2>2 DEF Pool!SharesNext
  <1> QED
    BY <1>1, <1>2

\* Whatever an entry point does, it is one step of the pool.
LEMMA StepsOfThePool ==
  ASSUME Inv, Inv', KeepsBacking, LedgerSteps
  PROVE  [Pool!SharesNext]_(Pool!shareVars)
  <1>0. /\ book \in BookType /\ book.totalAssets \in Nat /\ book.totalShares \in Nat
        /\ Custody(funds) \in Nat /\ Custody(funds') \in Nat /\ book'.totalAssets \in Nat
        /\ book' \in BookType /\ book'.totalShares \in Nat
    BY InvParts, InvPartsAfter DEF BookOK, BookType, Inv, TypeOK
  <1>1. CASE UNCHANGED book
    BY <1>0, <1>1, QuietStep
  <1>2. ASSUME book'.totalShares # book.totalShares
        PROVE  Pool!MovesTogether
    BY <1>2 DEF KeepsBacking, Pool!MovesTogether
  <1>3. ASSUME Bought(book, book'), PriceKept(book, book')
        PROVE  Pool!Buy
    <2>1. /\ book'.totalShares > book.totalShares /\ book'.totalAssets > book.totalAssets
          /\ \A w \in Users : book'.shares[w] >= book.shares[w]
      BY <1>3 DEF Bought
    <2>2. Pool!PriceStands
      BY <1>0, <1>3, <2>1 DEF PriceKept, Pool!PriceStands
    <2> QED
      BY <1>0, <1>2, <2>1, <2>2 DEF Pool!Buy
  <1>4. CASE DepositSteps
    <2>1. PICK u \in Users, a \in Nat : Credits(book, book', u, a)
      BY <1>4 DEF DepositSteps
    <2> QED
      BY <1>3, <2>1, CreditBuys, CreditKeepsPrice DEF Pool!SharesNext
  <1>5. CASE BatchSteps
    <2>1. PICK e1 \in Entries, e2 \in Entries, mid \in BookType :
            EntrySteps(book, mid, e1) /\ EntrySteps(mid, book', e2)
      BY <1>5 DEF BatchSteps
    <2>2. UNCHANGED book \/ Bought(book, book')
      BY <2>1, EntriesBuy
    <2>3. PriceKept(book, book')
      BY <1>0, <2>1, EntriesKeepPrice
    <2> QED
      BY <1>1, <1>3, <2>2, <2>3 DEF Pool!SharesNext
  <1>6. CASE RedeemSteps \/ MigrationSteps
    <2>1. PICK burned \in Nat \ {0}, paid \in Nat :
            /\ book'.totalShares = book.totalShares - burned
            /\ book'.totalAssets = book.totalAssets - paid
            /\ burned <= book.totalShares /\ paid <= book.totalAssets
            /\ paid * book.totalShares <= burned * book.totalAssets
            /\ \E u \in Users :
                 book'.shares = [book.shares EXCEPT ![u] = book.shares[u] - burned]
      BY <1>6, BurnTotals
    <2>2. PICK u \in Users :
            book'.shares = [book.shares EXCEPT ![u] = book.shares[u] - burned]
      BY <2>1
    <2>3. burned \in 1..book.shares[u]
      <3>1. /\ book.shares \in [Users -> Nat] /\ book'.shares \in [Users -> Nat]
        BY <1>0 DEF BookType
      <3>2. book'.shares[u] = book.shares[u] - burned
        BY <2>2, <3>1
      <3>3. book'.shares[u] \in Nat /\ book.shares[u] \in Nat
        BY <3>1
      <3> QED
        BY <2>1, <3>2, <3>3
    <2>4. Pool!PriceStands
      <3>1. (book.totalAssets - paid) * book.totalShares
              >= book.totalAssets * (book.totalShares - burned)
        BY <1>0, <2>1, BurnKeepsPrice
      <3> QED
        BY <2>1, <3>1 DEF Pool!PriceStands
    <2>5. Pool!MovesTogether /\ book'.totalAssets <= book.totalAssets
      BY <1>0, <1>2, <2>1
    <2>6. Pool!Redeem
      BY <2>1, <2>2, <2>3, <2>4, <2>5 DEF Pool!Redeem
    <2> QED
      BY <2>6 DEF Pool!SharesNext
  <1>7. CASE ReportSteps
    <2>1. PICK n \in Nat : book' = [book EXCEPT !.totalAssets = n] /\ funds' = funds
      BY <1>7 DEF ReportSteps
    <2>2. book'.shares = book.shares /\ book'.totalShares = book.totalShares
      BY <1>0, <2>1 DEF BookType
    <2>3. CASE book'.totalAssets <= Custody(funds)
      <3>1. Pool!Revalue
        BY <2>1, <2>2, <2>3 DEF Pool!Revalue
      <3> QED
        BY <3>1 DEF Pool!SharesNext
    <2>4. CASE book'.totalAssets = book.totalAssets
      <3>1. UNCHANGED book
        BY <1>0, <2>2, <2>4, <2>1 DEF BookType
      <3> QED
        BY <1>1, <3>1
    <2> QED
      BY <1>0, <2>1, <2>3, <2>4 DEF KeepsBacking
  <1> QED
    BY <1>1, <1>4, <1>5, <1>6, <1>7 DEF LedgerSteps

\* The vault implements the pool of backed shares: no entry point, batch, recall, loss
\* report or migration is anything but a purchase, a redemption, a profit or a report.
THEOREM VaultIsAPool ==
  ASSUME WithinWhole
  PROVE  Spec => SharesAreBacked
  <1>1. ASSUME Inv, [Next]_vars
        PROVE  [Pool!SharesNext]_(Pool!shareVars)
    <2>1. Inv' /\ KeepsBacking
      BY <1>1, NextKeeps DEF Keeps
    <2> QED
      BY <1>1, <2>1, StepsOfTheLedger, StepsOfThePool
  <1> QED
    BY <1>1, PoolInit, Invariance, PTL
       DEF Spec, SharesAreBacked, Pool!SharesSpec
================================================================================
