------------------------------ MODULE VaultProofs ------------------------------
(***************************************************************************)
(* Type correctness and solvency of the vault, for any set of users, any   *)
(* parameters and any venues.                                              *)
(*                                                                         *)
(* TypeOK is not inductive: that a redemption leaves TotalShares and       *)
(* TotalAssets natural needs that no user holds more than TotalShares,     *)
(* which holds because TotalShares is the sum of the holdings.  What that  *)
(* sum does when one holding changes is in module VaultLemmas.             *)
(*                                                                         *)
(* Solvency is kept apart from the invariant: what is proved of every step *)
(* is that TotalAssets rises by no more than what the vault holds, which   *)
(* also serves module AssetProofs, where the pools of other tokens are     *)
(* counted in TotalAssets.                                                 *)
(***************************************************************************)
EXTENDS Vault, VaultLemmas

-----------------------------------------------------------------------------
(* The ledger. *)

\* I-1 of ARCHITECTURE.md: total is the sum of the holdings.
SumsTo(shares, total) == Total(shares) = total

BookOK(b) == b \in BookType /\ SumsTo(b.shares, b.totalShares)

\* Whoever has shares is in the index.
IndexOK(b, index) == \A u \in Users : b.shares[u] > 0 => u \in index

Inv == TypeOK /\ LedgerConsistent /\ WithinWhole

\* TotalAssets moves with what the vault holds; or the shares stay what they are, and
\* either the vault has more than before, or TotalAssets is set to no more than it has.
KeepsBacking ==
  \/ book'.totalAssets - book.totalAssets = Custody(funds') - Custody(funds)
  \/ /\ book'.shares = book.shares /\ book'.totalShares = book.totalShares
     /\ \/ book'.totalAssets = book.totalAssets /\ Custody(funds') > Custody(funds)
        \/ book'.totalAssets <= Custody(funds) /\ Custody(funds') = Custody(funds)

\* What every step of the vault keeps.
Keeps == Inv' /\ KeepsBacking

-----------------------------------------------------------------------------
(* Sums of holdings. *)

\* Nobody holds more than the total.
LEMMA HoldingWithinTotal ==
  ASSUME NEW shares \in [Users -> Nat], NEW total \in Nat, SumsTo(shares, total),
         NEW u \in Users
  PROVE  shares[u] <= total
  BY ParametersAssumption, TotalBounds DEF SumsTo

\* Before the first deposit everybody holds nothing.
LEMMA EmptySum ==
  SumsTo([u \in Users |-> 0], 0)
  <1> DEFINE f == [u \in Users |-> 0]
  <1>1. f \in [Users -> Int] /\ \A u \in Users : f[u] = 0
    OBVIOUS
  <1> HIDE DEF f
  <1> QED
    BY <1>1, ParametersAssumption, TotalOfNothing DEF SumsTo, f

\* Changing one holding changes the total by as much.
LEMMA SumAfterChange ==
  ASSUME NEW shares \in [Users -> Nat], NEW total \in Nat, SumsTo(shares, total),
         NEW u \in Users, NEW d \in Int, shares[u] + d \in Nat
  PROVE  /\ SumsTo([shares EXCEPT ![u] = shares[u] + d], total + d)
         /\ total + d \in Nat
  <1> DEFINE n == shares[u] + d
             h == [shares EXCEPT ![u] = n]
  <1>1. shares \in [Users -> Int] /\ n \in Int /\ IsFiniteSet(Users)
    BY ParametersAssumption
  <1>2. h \in [Users -> Nat] /\ n - shares[u] = d
    OBVIOUS
  <1> HIDE DEF n
  <1>3. Total(h) = Total(shares) + (n - shares[u])
    BY <1>1, TotalAfterChange
  <1> HIDE DEF h
  <1>4. Total(h) \in Nat
    BY <1>1, <1>2, TotalBounds
  <1>5. Total(h) = total + d
    BY <1>2, <1>3 DEF SumsTo
  <1> QED
    BY <1>4, <1>5 DEF SumsTo, h, n

-----------------------------------------------------------------------------
(* The ledger operations. *)

\* A mint of natural amounts.
LEMMA MintOK ==
  ASSUME NEW b, BookOK(b), NEW u \in Users, NEW minted \in Nat, NEW assets \in Nat
  PROVE  BookOK(Mint(b, u, minted, assets))
  <1> DEFINE shares == [b.shares EXCEPT ![u] = b.shares[u] + minted]
             g == Mint(b, u, minted, assets)
  <1>1. b \in BookType /\ SumsTo(b.shares, b.totalShares)
    BY DEF BookOK
  <1>2. b.shares \in [Users -> Nat] /\ b.totalShares \in Nat
    BY <1>1 DEF BookType
  <1>3. SumsTo(shares, b.totalShares + minted)
    BY <1>1, <1>2, SumAfterChange
  <1>4. shares \in [Users -> Nat]
    BY <1>2
  <1>5. g = [shares        |-> shares,
             totalShares   |-> b.totalShares + minted,
             totalAssets   |-> b.totalAssets + assets,
             totalDeposits |-> b.totalDeposits + assets]
    <2>1. g = [b EXCEPT !.shares        = shares,
                        !.totalShares   = b.totalShares + minted,
                        !.totalAssets   = b.totalAssets + assets,
                        !.totalDeposits = b.totalDeposits + assets]
      BY <1>1 DEF Mint, BookType
    <2> QED
      BY <1>1, <2>1 DEF BookType
  <1> QED
    BY <1>1, <1>3, <1>4, <1>5 DEF BookOK, BookType

\* A burn of shares the user has, paid out of assets the book has.
LEMMA BurnOK ==
  ASSUME NEW b, BookOK(b), NEW u \in Users, NEW burned \in Nat, NEW paid \in Nat,
         burned <= b.shares[u], paid <= b.totalAssets
  PROVE  BookOK(Burn(b, u, burned, paid))
  <1> DEFINE shares == [b.shares EXCEPT ![u] = b.shares[u] - burned]
             g == Burn(b, u, burned, paid)
  <1>1. b \in BookType /\ SumsTo(b.shares, b.totalShares)
    BY DEF BookOK
  <1>2. b.shares \in [Users -> Nat] /\ b.totalShares \in Nat
    BY <1>1 DEF BookType
  <1>3. b.shares[u] - burned \in Nat
    BY <1>2
  <1>4. /\ SumsTo([b.shares EXCEPT ![u] = b.shares[u] + (-burned)],
                  b.totalShares + (-burned))
        /\ b.totalShares + (-burned) \in Nat
    BY <1>1, <1>2, <1>3, SumAfterChange
  <1>5. /\ b.shares[u] + (-burned) = b.shares[u] - burned
        /\ b.totalShares + (-burned) = b.totalShares - burned
    BY <1>2
  <1>6. SumsTo(shares, b.totalShares - burned) /\ b.totalShares - burned \in Nat
    BY <1>4, <1>5
  <1>7. shares \in [Users -> Nat]
    BY <1>2, <1>3
  <1>8. /\ b.totalAssets - paid \in Nat
        /\ (IF b.totalDeposits >= paid THEN b.totalDeposits - paid ELSE 0) \in Nat
    BY <1>1 DEF BookType
  <1>9. g = [shares        |-> shares,
             totalShares   |-> b.totalShares - burned,
             totalAssets   |-> b.totalAssets - paid,
             totalDeposits |-> IF b.totalDeposits >= paid
                                 THEN b.totalDeposits - paid ELSE 0]
    <2> DEFINE left == IF b.totalDeposits >= paid THEN b.totalDeposits - paid ELSE 0
    <2>1. g = [b EXCEPT !.shares        = shares,
                        !.totalShares   = b.totalShares - burned,
                        !.totalAssets   = b.totalAssets - paid,
                        !.totalDeposits = left]
      BY <1>1 DEF Burn, BookType
    <2> HIDE DEF left, shares, g
    <2>2. g = [shares        |-> shares,
               totalShares   |-> b.totalShares - burned,
               totalAssets   |-> b.totalAssets - paid,
               totalDeposits |-> left]
      BY <1>1, <2>1 DEF BookType
    <2> QED
      BY <2>2 DEF left
  <1> QED
    BY <1>6, <1>7, <1>8, <1>9 DEF BookOK, BookType

\* The shares of one user are never worth more than TotalAssets.
LEMMA WorthWithinAssets ==
  ASSUME NEW b, BookOK(b), NEW u \in Users, NEW s \in Nat, s <= b.shares[u]
  PROVE  WorthOf(b, s) \in Nat /\ WorthOf(b, s) <= b.totalAssets
  <1>1. /\ b.shares \in [Users -> Nat] /\ b.totalShares \in Nat
        /\ b.totalAssets \in Nat /\ SumsTo(b.shares, b.totalShares)
    BY DEF BookOK, BookType
  <1>2. b.shares[u] <= b.totalShares /\ b.shares[u] \in Nat
    BY <1>1, HoldingWithinTotal
  <1>3. s <= b.totalShares
    BY <1>1, <1>2
  <1> QED
    BY <1>1, <1>3, FloorPays, FullPay DEF WorthOf

\* A deposit mints a natural number of shares.
LEMMA MintedType ==
  ASSUME NEW b, BookOK(b), NEW a \in Nat
  PROVE  MintedFor(b, a) \in Nat
  BY FloorMints DEF MintedFor, BookOK, BookType

\* So does a withdrawal burn one.
LEMMA BurnedType ==
  ASSUME NEW b, BookOK(b), NEW a \in Nat
  PROVE  BurnedFor(b, a) \in Nat
  BY CeilBurns DEF BurnedFor, BookOK, BookType

-----------------------------------------------------------------------------
(* Consequences of the invariant that every action needs. *)

\* The book and the funds, taken out of the invariant.
LEMMA InvParts ==
  ASSUME Inv
  PROVE  /\ BookOK(book) /\ funds \in FundsType /\ wallet \in [Payers -> Nat]
         /\ book.totalAssets \in Nat /\ Custody(funds) \in Nat
         /\ IndexOK(book, holders) /\ ledger \in Nat /\ WithinWhole
  <1>1. BookOK(book) /\ IndexOK(book, holders)
    BY DEF Inv, TypeOK, LedgerConsistent, BookOK, IndexOK, SumsTo, Total
  <1> QED
    BY <1>1 DEF Inv, TypeOK, BookOK, BookType, FundsType, Custody, Deployed, Venues

\* The same after a step, as far as the backing needs it.
LEMMA InvPartsAfter ==
  ASSUME Inv'
  PROVE  book'.totalAssets \in Nat /\ Custody(funds') \in Nat
  <1>1. book' \in BookType /\ funds' \in FundsType
    BY DEF Inv, TypeOK
  <1> QED
    BY <1>1 DEF BookType, FundsType, Custody, Deployed, Venues

\* The invariant, put together again.
LEMMA InvAgain ==
  ASSUME Inv, TypeOK', BookOK(book'), IndexOK(book', holders')
  PROVE  Inv'
  <1>1. FoldFunction(LAMBDA m, n : m + n, 0, book'.shares) = book'.totalShares
    BY Zenon DEF BookOK, SumsTo, Total
  <1>2. \A u \in Users : book'.shares[u] > 0 => u \in holders'
    BY DEF IndexOK
  <1>3. LedgerConsistent'
    BY <1>1, <1>2 DEF LedgerConsistent, FoldFunction, FoldFunctionOnSet, MapThenFoldSet
  <1> QED
    BY <1>3 DEF Inv, WithinWhole

LEMMA InvAfter ==
  ASSUME Inv, TypeOK', BookOK(book'), IndexOK(book', holders'), KeepsBacking
  PROVE  Keeps
  BY InvAgain DEF Keeps

\* A credited user is indexed, and stays so.
LEMMA IndexedOK ==
  ASSUME NEW b, b \in BookType, NEW index, IndexOK(b, index), NEW u \in Users, NEW c,
         \A w \in Users : w # u => c.shares[w] = b.shares[w]
  PROVE  IndexOK(c, Indexed(b, u, index))
  <1>1. \A w \in Users : b.shares[w] \in Nat
    BY DEF BookType
  <1> QED
    BY <1>1 DEF IndexOK, Indexed

\* A user whose shares shrink needs no entry he had not.
LEMMA IndexKept ==
  ASSUME NEW b, b \in BookType, NEW index, IndexOK(b, index), NEW c,
         \A w \in Users : c.shares[w] > 0 => b.shares[w] > 0
  PROVE  IndexOK(c, index)
  BY DEF IndexOK

\* What a venue pays or takes is a natural number.
LEMMA VenueLimitsType ==
  ASSUME NEW l \in VenueLimits
  PROVE  l \in Flows
  <1>1. l \in [Venues -> Limits \cup {0}]
    BY DEF VenueLimits
  <1>2. \A n \in Limits : n \in Nat
    BY InputsAssumption
  <1>3. \A v \in Venues : l[v] \in Nat
    <2>1. TAKE v \in Venues
    <2>2. l[v] \in Limits \/ l[v] = 0
      BY <1>1, Zenon
    <2> QED
      BY <1>2, <2>2
  <1> QED
    BY <1>1, <1>3 DEF Flows

\* Rate limit buckets keep their type.
LEMMA ChargeType ==
  ASSUME TypeOK, NEW k \in Buckets, Charge(k)
  PROVE  calls' \in [Buckets -> [start : Nat, calls : Nat]]
  <1> DEFINE max == MaxCalls[k[1]]
  <1>1. calls[k] \in [start : Nat, calls : Nat] /\ ledger \in Nat
    BY DEF TypeOK
  <1>2. Charged(calls[k], ledger, WindowLedgers, max) \in [start : Nat, calls : Nat]
    BY <1>1 DEF Charged, Window
  <1> QED
    BY <1>2 DEF Charge, TypeOK

\* A recall moves USDC from the venues to the vault, and nothing else.
LEMMA RecallMoves ==
  ASSUME funds \in FundsType, NEW amount \in Nat, NEW pays \in Flows
  PROVE  Moved(funds, Recall(amount, pays)) /\ Recall(amount, pays).idle \in Nat
  <1>1. CASE funds.protocol = "none" \/ funds.idle >= amount
    BY <1>1, MovedReflexive DEF Recall, FundsType
  <1>2. CASE ~(funds.protocol = "none" \/ funds.idle >= amount)
    <2>1. funds.protocol \in Protocols /\ amount - funds.idle \in Nat
      BY <1>2 DEF FundsType
    <2>2. Recall(amount, pays)
            = WithdrawAmountFromProtocol(funds, funds.protocol, amount - funds.idle, pays)
      BY <1>2 DEF Recall
    <2> DEFINE g == WithdrawAmountFromProtocol(funds, funds.protocol,
                                               amount - funds.idle, pays)
    <2>3. Moved(funds, g)
      BY <2>1, WithdrawAmountMoves
    <2> HIDE DEF g
    <2>4. g.idle \in Nat
      BY <2>3 DEF Moved, FundsType
    <2> QED
      BY <2>2, <2>3, <2>4 DEF g
  <1> QED
    BY <1>1, <1>2

\* Paying into or out of the vault's own balance.
LEMMA IdleChange ==
  ASSUME NEW f \in FundsType, NEW n \in Nat
  PROVE  /\ [f EXCEPT !.idle = f.idle + n] \in FundsType
         /\ Custody([f EXCEPT !.idle = f.idle + n]) = Custody(f) + n
         /\ n <= f.idle => /\ [f EXCEPT !.idle = f.idle - n] \in FundsType
                           /\ Custody([f EXCEPT !.idle = f.idle - n]) = Custody(f) - n
  BY DEF FundsType, Custody, Deployed, Venues

\* A credited amount raises TotalAssets and the idle balance alike.
LEMMA CreditSolvent ==
  ASSUME Inv, NEW n \in Nat, book'.totalAssets = book.totalAssets + n,
         funds' = [funds EXCEPT !.idle = funds.idle + n]
  PROVE  funds' \in FundsType /\ KeepsBacking
  <1>1. funds' \in FundsType /\ Custody(funds') = Custody(funds) + n
    BY InvParts, IdleChange
  <1> QED
    BY <1>1, InvParts DEF KeepsBacking

\* The end of every withdrawal: u is paid no more than the price of the shares
\* burned, which are the user's.
Redeems(u, recalled, burned, paid) ==
  /\ Moved(funds, recalled) /\ PayOut(u, recalled, burned, paid)
  /\ burned \in Nat \ {0} /\ burned <= book.shares[u]
  /\ paid \in Nat /\ paid <= book.totalAssets /\ paid <= recalled.idle
  /\ book.totalShares > 0 /\ book.totalAssets > 0
  /\ paid * book.totalShares <= burned * book.totalAssets

LEMMA PayOutOK ==
  ASSUME Inv, NEW u \in Users, NEW recalled, NEW burned, NEW paid,
         Redeems(u, recalled, burned, paid)
  PROVE  /\ BookOK(book') /\ funds' \in FundsType /\ wallet' \in [Payers -> Nat]
         /\ KeepsBacking /\ IndexOK(book', holders)
  <1>1. /\ book' = Burn(book, u, burned, paid) /\ paid <= recalled.idle
        /\ burned \in Nat /\ burned <= book.shares[u]
        /\ paid \in Nat /\ paid <= book.totalAssets
    BY DEF PayOut, Redeems
  <1>2. recalled \in FundsType /\ Custody(recalled) = Custody(funds)
    BY DEF Moved, Redeems
  <1>3. BookOK(book')
    BY <1>1, InvParts, BurnOK
  <1>4. /\ [recalled EXCEPT !.idle = recalled.idle - paid] \in FundsType
        /\ Custody([recalled EXCEPT !.idle = recalled.idle - paid])
             = Custody(recalled) - paid
    BY <1>1, <1>2, IdleChange
  <1>5. funds' \in FundsType /\ Custody(funds') = Custody(funds) - paid
    BY <1>2, <1>4 DEF PayOut, Redeems
  <1>6. book'.totalAssets = book.totalAssets - paid
    BY <1>1, InvParts DEF Burn, BookOK, BookType
  <1>7. KeepsBacking
    <2>1. book.totalAssets \in Nat /\ Custody(funds) \in Nat
      BY InvParts
    <2> QED
      BY <1>1, <1>5, <1>6, <2>1 DEF KeepsBacking
  <1>8. wallet' \in [Payers -> Nat]
    <2>1. wallet' = [wallet EXCEPT ![u] = wallet[u] + paid] /\ u \in Payers
      BY DEF PayOut, Payers, Redeems
    <2> QED
      BY <1>1, <2>1, InvParts
  <1>9. IndexOK(book', holders)
    <2>1. \A w \in Users : book'.shares[w] > 0 => book.shares[w] > 0
      BY <1>1, InvParts DEF Burn, BookOK, BookType
    <2> QED
      BY <2>1, InvParts, IndexKept DEF BookOK
  <1> QED
    BY <1>3, <1>5, <1>7, <1>8, <1>9

-----------------------------------------------------------------------------
(* The depositors' entry points. *)

LEMMA DepositPreserves ==
  ASSUME Inv, NEW u \in Users, NEW a \in Int, Deposit(u, a)
  PROVE  Keeps
  <1>1. a \in Nat /\ wallet[u] >= a
    BY DEF Deposit, DepositSizeOk
  <1> DEFINE minted == MintedFor(book, a)
  <1>2. minted \in Nat /\ book' = Mint(book, u, minted, a)
    BY <1>1, InvParts, MintedType DEF Deposit
  <1> HIDE DEF minted
  <1>3. BookOK(book')
    BY <1>1, <1>2, InvParts, MintOK
  <1>4. book'.totalAssets = book.totalAssets + a
    BY <1>2, InvParts DEF Mint, BookOK, BookType
  <1>5. funds' = [funds EXCEPT !.idle = funds.idle + a]
    BY DEF Deposit
  <1>6. funds' \in FundsType /\ KeepsBacking
    BY <1>1, <1>4, <1>5, CreditSolvent
  <1>7. wallet' \in [Payers -> Nat]
    <2>1. wallet' = [wallet EXCEPT ![u] = wallet[u] - a] /\ u \in Payers
      BY DEF Deposit, Payers
    <2>2. wallet[u] - a \in Nat
      BY <1>1, <2>1, InvParts
    <2> QED
      BY <2>1, <2>2, InvParts
  <1>8. calls' \in [Buckets -> [start : Nat, calls : Nat]]
    <2>1. <<"deposit", u>> \in Buckets
      BY DEF Buckets
    <2> QED
      BY <2>1, ChargeType DEF Deposit, Inv
  <1>9. holders' \subseteq Users /\ lastDeposit' \in [Users -> Nat]
    BY DEF Inv, TypeOK, Deposit, Indexed
  <1>10. UNCHANGED <<locks, breaker, mode, lastRebalance, migration, ledger, accrued>>
    BY DEF Deposit, governance
  <1>11. TypeOK'
    BY <1>3, <1>6, <1>7, <1>8, <1>9, <1>10 DEF Inv, TypeOK, BookOK
  <1>12. IndexOK(book', holders')
    <2>1. holders' = Indexed(book, u, holders)
      BY DEF Deposit
    <2>2. \A w \in Users : w # u => book'.shares[w] = book.shares[w]
      BY <1>2, InvParts DEF Mint, BookOK, BookType
    <2> QED
      BY <2>1, <2>2, InvParts, IndexedOK DEF BookOK
  <1> QED
    BY <1>3, <1>6, <1>11, <1>12, InvAfter

LEMMA RedeemAssetsRedeems ==
  ASSUME Inv, NEW u \in Users, NEW recalled, Moved(funds, recalled),
         NEW actual \in Nat, Redeemable(u, recalled, actual),
         RedeemAssets(u, recalled, actual)
  PROVE  LET burned == BurnedFor(book, actual)
         IN  Redeems(u, recalled, burned, WorthOf(book, burned))
  <1> DEFINE burned == BurnedFor(book, actual)
             paid   == WorthOf(book, burned)
  <1>1. burned \in Nat
    BY InvParts, BurnedType
  <1>2. /\ burned <= book.shares[u] /\ burned > 0 /\ PayOut(u, recalled, burned, paid)
        /\ paid <= recalled.idle
    <2>1. book.shares[u] \in Nat
      BY InvParts DEF BookOK, BookType
    <2> QED
      BY <1>1, <2>1 DEF RedeemAssets, Redeemable
  <1>3. book.totalShares > 0 /\ book.totalAssets > 0
    BY DEF Redeemable
  <1> HIDE DEF burned
  <1>4. paid \in Nat /\ paid <= book.totalAssets
    BY <1>1, <1>2, InvParts, WorthWithinAssets
  <1>5. paid * book.totalShares <= burned * book.totalAssets
    <2>1. book.totalShares \in Nat /\ book.totalAssets \in Nat
      BY InvParts DEF BookOK, BookType
    <2> QED
      BY <1>1, <2>1, FloorPays DEF WorthOf
  <1> HIDE DEF paid
  <1>6. Redeems(u, recalled, burned, paid)
    BY <1>1, <1>2, <1>3, <1>4, <1>5 DEF Redeems
  <1> QED
    BY <1>6 DEF burned, paid

LEMMA RedeemAssetsOK ==
  ASSUME Inv, NEW u \in Users, NEW recalled, Moved(funds, recalled),
         NEW actual \in Nat, Redeemable(u, recalled, actual),
         RedeemAssets(u, recalled, actual)
  PROVE  /\ BookOK(book') /\ funds' \in FundsType /\ wallet' \in [Payers -> Nat]
         /\ KeepsBacking /\ IndexOK(book', holders)
  BY RedeemAssetsRedeems, PayOutOK

LEMMA WithdrawPreserves ==
  ASSUME Inv, NEW u \in Users, NEW a \in Int, NEW pays \in Flows, Withdraw(u, a, pays)
  PROVE  Keeps
  <1> DEFINE recalled == Recall(a, pays)
  <1>1. /\ a \in Nat /\ Redeemable(u, recalled, Available(recalled, a))
        /\ RedeemAssets(u, recalled, Available(recalled, a))
    BY DEF Withdraw
  <1>2. Moved(funds, recalled) /\ recalled.idle \in Nat
    BY <1>1, InvParts, RecallMoves
  <1> HIDE DEF recalled
  <1>3. Available(recalled, a) \in Nat
    BY <1>1, <1>2 DEF Available, Lesser
  <1>4. /\ BookOK(book') /\ funds' \in FundsType /\ wallet' \in [Payers -> Nat]
        /\ KeepsBacking /\ IndexOK(book', holders)
    BY <1>1, <1>2, <1>3, RedeemAssetsOK
  <1>5. calls' \in [Buckets -> [start : Nat, calls : Nat]]
    <2>1. <<"withdraw", u>> \in Buckets
      BY DEF Buckets
    <2> QED
      BY <2>1, ChargeType DEF Withdraw, Inv
  <1>6. UNCHANGED <<holders, lastDeposit, locks, breaker, mode, lastRebalance,
                    migration, ledger, accrued>>
    BY DEF Withdraw, governance
  <1>7. TypeOK'
    BY <1>4, <1>5, <1>6 DEF Inv, TypeOK, BookOK
  <1> QED
    BY <1>4, <1>6, <1>7, InvAfter

\* What is known of a batch after some of its entries.
BatchOK(s) ==
  /\ BookOK(s.book)
  /\ s.paid \in Nat /\ s.paid <= wallet[Agent]
  /\ s.book.totalAssets = book.totalAssets + s.paid
  /\ s.holders \subseteq Users /\ IndexOK(s.book, s.holders)
  /\ s.last \in [Users -> Nat]

LEMMA CreditEntryOK ==
  ASSUME Inv, NEW s, BatchOK(s), NEW e \in Entries, EntryPayable(s, e)
  PROVE  BatchOK(CreditEntry(s, e))
  <1> DEFINE minted == MintedFor(s.book, e.amount)
  <1>1. e.user \in Users /\ e.amount \in Int
    BY InputsAssumption DEF Entries
  <1>2. CASE ~EntryValid(s.book, e) \/ minted = 0
    BY <1>2 DEF CreditEntry
  <1>3. CASE EntryValid(s.book, e) /\ minted # 0
    <2> DEFINE t == CreditEntry(s, e)
    <2>1. e.amount \in Nat /\ wallet[Agent] - s.paid >= e.amount
      BY <1>1, <1>3 DEF EntryValid, DepositSizeOk, EntryPayable
    <2>2. minted \in Nat
      BY <2>1, MintedType DEF BatchOK
    <2>3. /\ t.book = Mint(s.book, e.user, minted, e.amount)
          /\ t.paid = s.paid + e.amount
          /\ t.holders = Indexed(s.book, e.user, s.holders)
          /\ t.last = [s.last EXCEPT ![e.user] = ledger]
      BY <1>3 DEF CreditEntry
    <2> HIDE DEF minted, t
    <2>4. BookOK(t.book)
      <3>1. BookOK(s.book)
        BY DEF BatchOK
      <3> QED
        BY <1>1, <2>1, <2>2, <2>3, <3>1, MintOK
    <2>5. t.book.totalAssets = book.totalAssets + t.paid
      <3>1. t.book.totalAssets = s.book.totalAssets + e.amount
        BY <2>3 DEF Mint, BatchOK, BookOK, BookType
      <3> QED
        BY <2>1, <2>3, <3>1, InvParts DEF BatchOK
    <2>6. t.paid \in Nat /\ t.paid <= wallet[Agent]
      <3>1. wallet[Agent] \in Nat
        BY InvParts DEF Payers
      <3> QED
        BY <2>1, <2>3, <3>1 DEF BatchOK
    <2>7. t.holders \subseteq Users /\ t.last \in [Users -> Nat]
      <3>1. ledger \in Nat
        BY DEF Inv, TypeOK
      <3> QED
        BY <1>1, <2>3, <3>1 DEF BatchOK, Indexed
    <2>8. IndexOK(t.book, t.holders)
      <3>1. \A w \in Users : w # e.user => t.book.shares[w] = s.book.shares[w]
        BY <2>3 DEF Mint, BatchOK, BookOK, BookType
      <3>2. s.book \in BookType /\ IndexOK(s.book, s.holders)
        BY DEF BatchOK, BookOK
      <3> QED
        BY <1>1, <2>3, <3>1, <3>2, IndexedOK
    <2> QED
      BY <2>4, <2>5, <2>6, <2>7, <2>8 DEF BatchOK, t
  <1> QED
    BY <1>2, <1>3

LEMMA BatchDepositPreserves ==
  ASSUME Inv, NEW e1 \in Entries, NEW e2 \in Entries, BatchDeposit(e1, e2)
  PROVE  Keeps
  <1> DEFINE mid == CreditEntry(BatchStart, e1)
             end == CreditEntry(mid, e2)
  <1>1. BatchOK(BatchStart)
    <2>1. wallet[Agent] \in Nat
      BY InvParts DEF Payers
    <2> QED
      BY <2>1, InvParts DEF BatchOK, BatchStart, Inv, TypeOK
  <1>2. EntryPayable(BatchStart, e1) /\ EntryPayable(mid, e2)
    BY DEF BatchDeposit
  <1>3. BatchOK(mid)
    BY <1>1, <1>2, CreditEntryOK
  <1> HIDE DEF mid
  <1>4. BatchOK(end)
    BY <1>2, <1>3, CreditEntryOK
  <1>5. /\ book' = end.book
        /\ wallet' = [wallet EXCEPT ![Agent] = wallet[Agent] - end.paid]
        /\ funds' = [funds EXCEPT !.idle = funds.idle + end.paid]
        /\ holders' = end.holders
        /\ lastDeposit' = end.last
        /\ Charge(<<"batch", Agent>>)
        /\ UNCHANGED <<locks, breaker, mode, lastRebalance, migration, ledger, accrued>>
    BY DEF BatchDeposit, governance, mid
  <1> HIDE DEF end
  <1>6. /\ BookOK(book') /\ IndexOK(book', holders')
        /\ holders' \subseteq Users /\ lastDeposit' \in [Users -> Nat]
    BY <1>4, <1>5 DEF BatchOK
  <1>7. funds' \in FundsType /\ KeepsBacking
    BY <1>4, <1>5, CreditSolvent DEF BatchOK
  <1>8. wallet' \in [Payers -> Nat]
    <2>1. wallet[Agent] - end.paid \in Nat
      BY <1>4, InvParts DEF BatchOK, Payers
    <2> QED
      BY <1>5, <2>1, InvParts
  <1>9. calls' \in [Buckets -> [start : Nat, calls : Nat]]
    <2>1. <<"batch", Agent>> \in Buckets
      BY DEF Buckets
    <2> QED
      BY <1>5, <2>1, ChargeType DEF Inv
  <1>10. TypeOK'
    BY <1>5, <1>6, <1>7, <1>8, <1>9 DEF Inv, TypeOK, BookOK
  <1> QED
    BY <1>6, <1>7, <1>10, InvAfter

\* withdraw_all burns at most the shares that are not locked.
LEMMA WithdrawAllRedeems ==
  ASSUME Inv, NEW u \in Users, NEW pays \in Flows, WithdrawAll(u, pays)
  PROVE  \E recalled, burned, paid :
           /\ Redeems(u, recalled, burned, paid)
           /\ locks[u].amount > 0 => book.shares[u] - burned >= locks[u].amount
  <1> DEFINE unlocked == Unlocked(u)
             entitled == WorthOf(book, unlocked)
             recalled == Recall(entitled, pays)
             short    == FallsShort(u, recalled)
             paid     == PaidForAll(u, recalled)
             burned   == BurnedForAll(u, recalled)
  <1>1. /\ unlocked > 0 /\ book.totalShares > 0 /\ book.totalAssets > 0
        /\ burned > 0 /\ paid <= recalled.idle /\ PayOut(u, recalled, burned, paid)
    BY DEF WithdrawAll, AllowsWithdrawAll, Entitled
  <1>2. /\ unlocked \in Nat /\ unlocked <= book.shares[u] /\ book.shares[u] \in Nat
        /\ locks[u].amount > 0 => unlocked = book.shares[u] - locks[u].amount
        /\ locks[u].amount \in Int
    <2>1. book.shares[u] \in Nat /\ locks[u].amount \in Int
      BY InvParts DEF BookOK, BookType, Inv, TypeOK
    <2> QED
      BY <1>1, <2>1 DEF Unlocked
  <1>0. /\ short => /\ paid = recalled.idle /\ burned = BurnedFor(book, recalled.idle)
                    /\ recalled.idle < entitled
        /\ ~short => paid = entitled /\ burned = unlocked
    BY DEF PaidForAll, BurnedForAll, FallsShort, Entitled
  <1> HIDE DEF unlocked, short, paid, burned
  <1>3. entitled \in Nat /\ entitled <= book.totalAssets
    BY <1>2, InvParts, WorthWithinAssets
  <1>4. /\ book.totalShares \in Nat \ {0} /\ book.totalAssets \in Nat \ {0}
        /\ entitled * book.totalShares <= unlocked * book.totalAssets
    <2>1. book.totalShares \in Nat \ {0} /\ book.totalAssets \in Nat \ {0}
      BY <1>1, InvParts DEF BookOK, BookType
    <2> QED
      BY <1>2, <2>1, FloorPays DEF WorthOf
  <1> HIDE DEF entitled
  <1>5. Moved(funds, recalled) /\ recalled.idle \in Nat
    BY <1>3, InvParts, RecallMoves
  <1> HIDE DEF recalled
  <1>6. /\ paid \in Nat /\ paid <= book.totalAssets
        /\ burned \in Nat /\ burned <= unlocked
        /\ paid * book.totalShares <= burned * book.totalAssets
    <2>1. CASE ~short
      <3>1. paid = entitled /\ burned = unlocked
        BY <1>0, <2>1
      <3> QED
        BY <1>2, <1>3, <1>4, <3>1
    <2>2. CASE short
      <3>1. paid = recalled.idle /\ burned = BurnedFor(book, recalled.idle)
            /\ recalled.idle <= entitled
        BY <1>0, <1>3, <1>5, <2>2
      <3>2. paid \in Nat /\ paid <= book.totalAssets
        BY <1>3, <1>4, <1>5, <3>1
      <3>3. paid * book.totalShares <= entitled * book.totalShares
        BY <1>3, <1>4, <3>1, <3>2, MulMono
      <3>4. paid * book.totalShares <= unlocked * book.totalAssets
        BY <1>2, <1>3, <1>4, <3>2, <3>3
      <3>5. BurnedFor(book, paid) <= unlocked
        BY <1>2, <1>4, <3>2, <3>4, CeilWithinHolding DEF BurnedFor
      <3>6. BurnedFor(book, paid) \in Nat
        BY <3>2, InvParts, BurnedType
      <3>7. paid * book.totalShares <= burned * book.totalAssets
        <4>1. burned = SharesCeil(paid, book.totalShares, book.totalAssets)
          BY <3>1 DEF BurnedFor
        <4>2. /\ book.totalShares \in Nat /\ book.totalShares > 0
              /\ book.totalAssets \in Nat /\ book.totalAssets > 0
          BY <1>4
        <4>3. paid * book.totalShares
                <= SharesCeil(paid, book.totalShares, book.totalAssets) * book.totalAssets
          BY <3>2, <4>2, CeilBurns
        <4> QED
          BY <4>1, <4>3
      <3> QED
        BY <1>2, <3>1, <3>2, <3>5, <3>6, <3>7
    <2> QED
      BY <2>1, <2>2
  <1>7. Redeems(u, recalled, burned, paid)
    BY <1>1, <1>2, <1>5, <1>6 DEF Redeems
  <1>8. locks[u].amount > 0 => book.shares[u] - burned >= locks[u].amount
    BY <1>2, <1>6
  <1> QED
    BY <1>7, <1>8

LEMMA WithdrawAllPreserves ==
  ASSUME Inv, NEW u \in Users, NEW pays \in Flows, WithdrawAll(u, pays)
  PROVE  Keeps
  <1>1. /\ BookOK(book') /\ funds' \in FundsType /\ wallet' \in [Payers -> Nat]
        /\ KeepsBacking /\ IndexOK(book', holders)
    BY WithdrawAllRedeems, PayOutOK
  <1>2. /\ Charge(<<"withdraw", u>>)
        /\ UNCHANGED <<holders, lastDeposit, locks, breaker, mode, lastRebalance,
                       migration, ledger, accrued>>
    BY DEF WithdrawAll, governance
  <1>3. calls' \in [Buckets -> [start : Nat, calls : Nat]]
    <2>1. <<"withdraw", u>> \in Buckets
      BY DEF Buckets
    <2> QED
      BY <1>2, <2>1, ChargeType DEF Inv
  <1>4. TypeOK'
    BY <1>1, <1>2, <1>3 DEF Inv, TypeOK, BookOK
  <1> QED
    BY <1>1, <1>2, <1>4, InvAfter

LEMMA EmergencyWithdrawPreserves ==
  ASSUME Inv, NEW u \in Users, NEW a \in Int, NEW pays \in Flows,
         EmergencyWithdraw(u, a, pays)
  PROVE  Keeps
  <1> DEFINE recalled == Recall(a, pays)
  <1>1. /\ a \in Nat /\ Redeemable(u, recalled, Lesser(a, recalled.idle))
        /\ RedeemAssets(u, recalled, Lesser(a, recalled.idle))
    BY DEF EmergencyWithdraw, AllowsEmergencyWithdraw
  <1>2. Moved(funds, recalled) /\ recalled.idle \in Nat
    BY <1>1, InvParts, RecallMoves
  <1> HIDE DEF recalled
  <1>3. Lesser(a, recalled.idle) \in Nat
    BY <1>1, <1>2 DEF Lesser
  <1>4. /\ BookOK(book') /\ funds' \in FundsType /\ wallet' \in [Payers -> Nat]
        /\ KeepsBacking /\ IndexOK(book', holders)
    BY <1>1, <1>2, <1>3, RedeemAssetsOK
  <1>5. UNCHANGED <<holders, lastDeposit, locks, breaker, mode, lastRebalance,
                    migration, calls, ledger, accrued>>
    BY DEF EmergencyWithdraw, governance
  <1>6. TypeOK'
    BY <1>4, <1>5 DEF Inv, TypeOK, BookOK
  <1> QED
    BY <1>4, <1>5, <1>6, InvAfter

LEMMA LockPreserves ==
  ASSUME Inv, NEW u \in Users,
         \/ \E n \in LockAmounts, d \in LockPeriods : LockShares(u, n, d)
         \/ UnlockShares(u)
  PROVE  Keeps
  <1>1. /\ UNCHANGED <<book, funds, wallet, holders, lastDeposit, breaker, mode,
                       lastRebalance, migration, calls, ledger, accrued>>
        /\ locks' \in [Users -> [amount : Int, expiry : Nat]]
    <2>1. ASSUME NEW n \in LockAmounts, NEW d \in LockPeriods, LockShares(u, n, d)
          PROVE  /\ UNCHANGED <<book, funds, wallet, holders, lastDeposit, breaker,
                                mode, lastRebalance, migration, calls, ledger, accrued>>
                 /\ locks' \in [Users -> [amount : Int, expiry : Nat]]
      <3>1. n \in Int /\ ledger + d \in Nat
        BY InputsAssumption DEF Inv, TypeOK
      <3> QED
        BY <2>1, <3>1 DEF LockShares, accounting, governance, Inv, TypeOK
    <2>2. CASE UnlockShares(u)
      BY <2>2 DEF UnlockShares, NoRecord, accounting, governance, Inv, TypeOK
    <2> QED
      BY <2>1, <2>2
  <1>2. TypeOK' /\ KeepsBacking
    BY <1>1, InvParts DEF Inv, TypeOK, KeepsBacking
  <1> QED
    BY <1>1, <1>2, InvParts, InvAfter

LEMMA MigrateSharesPreserves ==
  ASSUME Inv, NEW u \in Users, MigrateShares(u)
  PROVE  Keeps
  <1> DEFINE assets == Value(book, u)
             held   == book.shares[u]
             shares == [book.shares EXCEPT ![u] = 0]
  <1>1. /\ book \in BookType /\ held \in Nat
        /\ SumsTo(book.shares, book.totalShares)
    BY InvParts DEF BookOK, BookType
  <1>2. assets \in Nat /\ assets <= book.totalAssets
    BY <1>1, InvParts, WorthWithinAssets DEF Value
  <1>3. SumsTo(shares, book.totalShares - held) /\ book.totalShares - held \in Nat
    <2>1. held + (-held) = 0 /\ book.totalShares + (-held) = book.totalShares - held
      BY <1>1 DEF BookType
    <2>2. /\ SumsTo([book.shares EXCEPT ![u] = held + (-held)],
                    book.totalShares + (-held))
          /\ book.totalShares + (-held) \in Nat
      BY <1>1, <2>1, SumAfterChange DEF BookType
    <2> QED
      BY <2>1, <2>2
  <1>4. /\ assets <= funds.idle
        /\ funds' = [funds EXCEPT !.idle = funds.idle - assets]
        /\ wallet[u] >= assets
        /\ wallet' = [wallet EXCEPT ![u] = wallet[u] - assets]
        /\ migration' = [migration EXCEPT !.received = migration.received + 2 * assets]
        /\ UNCHANGED <<holders, lastDeposit, locks, breaker, mode, lastRebalance,
                       calls, ledger, accrued>>
    BY DEF MigrateShares, TargetDeposit
  <1>5. book' = [shares        |-> shares,
                 totalShares   |-> book.totalShares - held,
                 totalAssets   |-> book.totalAssets - assets,
                 totalDeposits |-> book.totalDeposits]
    <2>1. book' = [book EXCEPT !.shares      = shares,
                               !.totalShares = book.totalShares - held,
                               !.totalAssets = book.totalAssets - assets]
      BY <1>1 DEF MigrateShares, BookType
    <2> HIDE DEF shares, held, assets
    <2> QED
      BY <1>1, <2>1 DEF BookType
  <1> HIDE DEF assets, held
  <1>6. BookOK(book')
    <2>1. book.totalAssets - assets \in Nat /\ shares \in [Users -> Nat]
      BY <1>1, <1>2 DEF BookType
    <2> QED
      BY <1>1, <1>3, <1>5, <2>1 DEF BookOK, BookType
  <1>7. funds' \in FundsType /\ Custody(funds') = Custody(funds) - assets
    BY <1>2, <1>4, InvParts, IdleChange
  <1>8. KeepsBacking
    BY <1>2, <1>5, <1>7, InvParts DEF KeepsBacking
  <1>9. wallet' \in [Payers -> Nat]
    <2>1. u \in Payers /\ wallet[u] - assets \in Nat
      BY <1>2, <1>4, InvParts DEF Payers
    <2> QED
      BY <1>4, <2>1, InvParts
  <1>10. TypeOK'
    BY <1>2, <1>4, <1>6, <1>7, <1>9 DEF Inv, TypeOK, BookOK
  <1>11. IndexOK(book', holders')
    <2>1. \A w \in Users : book'.shares[w] > 0 => book.shares[w] > 0
      BY <1>1, <1>5 DEF BookType
    <2> QED
      BY <1>1, <1>4, <2>1, InvParts, IndexKept
  <1> QED
    BY <1>6, <1>8, <1>10, <1>11, InvAfter

-----------------------------------------------------------------------------
(* The entry points that move USDC to and from the venues.  They leave the *)
(* book alone, so what is left to show is the type of what they write.     *)

\* A step that moves funds without touching the book.
LEMMA MovePreserves ==
  ASSUME Inv, Moved(funds, funds'),
         breaker' \in [paused : BOOLEAN, failures : Nat],
         mode' \in [multi : BOOLEAN, bps : [Venues -> 0..BPS]],
         lastRebalance' \in Nat,
         calls' \in [Buckets -> [start : Nat, calls : Nat]],
         UNCHANGED <<book, wallet, holders, lastDeposit, locks, migration, ledger,
                     accrued>>
  PROVE  Keeps
  <1>1. funds' \in FundsType /\ Custody(funds') = Custody(funds)
    BY DEF Moved
  <1>2. TypeOK'
    BY <1>1 DEF Inv, TypeOK
  <1>3. KeepsBacking
    BY <1>1, InvParts DEF KeepsBacking
  <1> QED
    BY <1>2, <1>3, InvParts, InvAfter

\* The circuit breaker keeps its type.
LEMMA OutcomeType ==
  ASSUME NEW b \in [paused : BOOLEAN, failures : Nat],
         NEW status \in {"success", "failed", "partial", "noop"}
  PROVE  Outcome(b, status) \in [paused : BOOLEAN, failures : Nat]
  <1>1. CASE status = "failed"
    BY <1>1, ParametersAssumption DEF Outcome
  <1>2. CASE status = "success"
    BY <1>2 DEF Outcome
  <1>3. CASE status \in {"partial", "noop"}
    BY <1>3 DEF Outcome
  <1> QED
    BY <1>1, <1>2, <1>3

LEMMA SupplyAllMoves ==
  ASSUME NEW f \in FundsType, NEW v \in Venues, NEW takes \in Flows
  PROVE  LET g == SupplyAll(f, v, takes) IN Moved(f, g) /\ g.idle <= f.idle
  <1>1. CASE f.idle > 0
    <2>1. f.idle \in Int /\ f.idle <= f.idle
      BY DEF FundsType
    <2> QED
      BY <1>1, <2>1, SupplyMoves DEF SupplyAll
  <1>2. CASE ~(f.idle > 0)
    BY <1>2 DEF SupplyAll, Moved, FundsType, Custody, Protocols
  <1> QED
    BY <1>1, <1>2

\* The breaker is left alone, or told one of the four outcomes.
BreakerStep ==
  \/ UNCHANGED breaker
  \/ \E status \in {"success", "failed", "partial", "noop"} :
       breaker' = Outcome(breaker, status)

LEMMA BreakerType ==
  ASSUME Inv, BreakerStep
  PROVE  breaker' \in [paused : BOOLEAN, failures : Nat]
  BY OutcomeType DEF BreakerStep, Inv, TypeOK

\* What a rebalance does to the funds and to the breaker.
LEMMA RebalanceShape ==
  ASSUME Inv, NEW target, NEW minOut, NEW pays \in Flows, NEW takes \in Flows,
         Rebalance(target, minOut, pays, takes)
  PROVE  Moved(funds, funds') /\ BreakerStep
  <1> DEFINE old    == funds.protocol
             leaves == old # target /\ old # "none"
             exited == IF leaves THEN WithdrawFromProtocol(funds, old, pays) ELSE funds
             moved  == IF target = "none" THEN ToIdle(exited)
                       ELSE SupplyAll(exited, target, takes)
             status == IF target = "none" THEN ToIdleStatus(old)
                       ELSE SupplyStatus(exited, moved)
  <1>1. /\ target \in {"none", "blend", "dex"}
        /\ \/ funds' = exited /\ UNCHANGED breaker
           \/ funds' = Sync(moved) /\ breaker' = Outcome(breaker, status)
    BY DEF Rebalance
  <1>2. Moved(funds, exited) /\ exited \in FundsType
    <2>1. funds \in FundsType /\ old \in Protocols
      BY InvParts DEF FundsType
    <2> QED
      BY <2>1, WithdrawFromProtocolMoves, MovedReflexive DEF Moved
  <1> HIDE DEF exited
  <1>3. Moved(exited, moved) /\ moved.idle <= exited.idle
    <2>1. CASE target = "none"
      BY <1>2, <2>1 DEF ToIdle, Moved, FundsType, Custody, Protocols
    <2>2. CASE target \in Venues
      <3>1. target # "none"
        BY <2>2 DEF Venues
      <3> QED
        BY <1>2, <2>2, <3>1, SupplyAllMoves
    <2> QED
      BY <1>1, <2>1, <2>2 DEF Venues
  <1>4. moved \in FundsType
    BY <1>3 DEF Moved
  <1> HIDE DEF moved
  <1>5. Moved(funds, funds')
    BY <1>1, <1>2, <1>3, <1>4, SyncMoves, MovedTransitive
  <1>6. status \in {"success", "failed", "partial", "noop"}
    <2>1. exited.idle \in Nat /\ moved.idle \in Nat
      BY <1>2, <1>4 DEF FundsType
    <2> QED
      BY <1>3, <2>1 DEF ToIdleStatus, SupplyStatus
  <1> HIDE DEF status
  <1>7. BreakerStep
    BY <1>1, <1>6 DEF BreakerStep
  <1> QED
    BY <1>5, <1>7

LEMMA RebalancePreserves ==
  ASSUME Inv, NEW target, NEW minOut, NEW pays \in Flows, NEW takes \in Flows,
         Rebalance(target, minOut, pays, takes)
  PROVE  Keeps
  <1>1. /\ Charge(<<"rebalance", "global">>)
        /\ lastRebalance' \in {lastRebalance, ledger}
        /\ UNCHANGED <<book, wallet, holders, lastDeposit, locks, mode, migration,
                       ledger, accrued>>
    BY DEF Rebalance
  <1>2. Moved(funds, funds') /\ breaker' \in [paused : BOOLEAN, failures : Nat]
    BY RebalanceShape, BreakerType
  <1>3. calls' \in [Buckets -> [start : Nat, calls : Nat]]
    <2>1. <<"rebalance", "global">> \in Buckets
      BY DEF Buckets
    <2> QED
      BY <1>1, <2>1, ChargeType DEF Inv
  <1> QED
    BY <1>1, <1>2, <1>3, MovePreserves DEF Inv, TypeOK

LEMMA EnableMultiPreserves ==
  ASSUME Inv, NEW enabled \in BOOLEAN, EnableMultiProtocol(enabled)
  PROVE  Keeps
  <1> DEFINE pool  == funds.pool
             share == (pool["blend"] * BPS) \div Deployed(pool)
  <1>1. /\ funds' = SyncSummary(funds)
        /\ UNCHANGED <<book, wallet, holders, lastDeposit, locks, breaker,
                       lastRebalance, migration, calls, ledger, accrued>>
    BY DEF EnableMultiProtocol
  <1>2. Deployed(pool) # 0 => share \in 0..BPS
    <2>1. pool["blend"] \in Nat /\ pool["dex"] \in Nat
      BY InvParts DEF FundsType, Venues
    <2>2. Deployed(pool) \in Nat /\ pool["blend"] <= Deployed(pool)
      BY <2>1 DEF Deployed
    <2>3. SUFFICES ASSUME Deployed(pool) # 0
                   PROVE  share \in 0..BPS
      OBVIOUS
    <2> DEFINE d == Deployed(pool)
               n == pool["blend"] * BPS
    <2>4. n \in Nat /\ d \in Nat \ {0} /\ share = n \div d
      BY <2>1, <2>2, <2>3 DEF BPS
    <2> HIDE DEF share, d, n
    <2>5. share \in Int /\ share * d <= n /\ n < (share + 1) * d
      BY <2>4, DivBounds
    <2>6. share * d < (BPS + 1) * d
      BY <2>1, <2>2, <2>4, <2>5 DEF BPS, d, n
    <2>7. share < BPS + 1
      BY <2>4, <2>5, <2>6, MulCancel DEF BPS
    <2>8. 0 * d < (share + 1) * d
      BY <2>1, <2>4, <2>5 DEF BPS
    <2>9. 0 < share + 1
      BY <2>4, <2>5, <2>8, MulCancel
    <2> QED
      BY <2>5, <2>7, <2>9 DEF BPS
  <1> HIDE DEF share
  <1>3. mode' \in [multi : BOOLEAN, bps : [Venues -> 0..BPS]]
    <2> DEFINE whole(v) == [w \in Venues |-> IF w = v THEN BPS ELSE 0]
               nothing  == [w \in Venues |-> 0]
               split    == [w \in Venues |-> IF w = "blend" THEN share ELSE BPS - share]
    <2>1. nothing \in [Venues -> 0..BPS] /\ \A v : whole(v) \in [Venues -> 0..BPS]
      BY DEF BPS
    <2>2. ASSUME Deployed(pool) # 0
          PROVE  split \in [Venues -> 0..BPS]
      <3>1. share \in 0..BPS
        BY <1>2, <2>2
      <3>2. BPS - share \in 0..BPS
        BY <3>1 DEF BPS
      <3> QED
        BY <3>1, <3>2
    <2> HIDE DEF whole, nothing, split
    <2>3. \/ mode' = [multi |-> enabled, bps |-> nothing]
          \/ mode' = [multi |-> enabled, bps |-> whole(funds.protocol)]
          \/ Deployed(pool) # 0 /\ mode' = [multi |-> enabled, bps |-> split]
      BY DEF EnableMultiProtocol, whole, nothing, split, share
    <2> QED
      BY <2>1, <2>2, <2>3
  <1>4. Moved(funds, funds')
    BY <1>1, InvParts, SyncMoves
  <1> QED
    BY <1>1, <1>3, <1>4, MovePreserves DEF Inv, TypeOK

\* The targets of a split are whole amounts.
LEMMA SplitType ==
  ASSUME NEW total \in Nat, NEW bps \in [Venues -> Nat]
  PROVE  SplitByBps(total, bps) \in [Venues -> Int]
  <1>1. ASSUME NEW v \in Venues
        PROVE  (total * bps[v]) \div BPS \in Int
    <2> DEFINE n == total * bps[v]
    <2>1. n \in Nat /\ BPS \in Nat \ {0}
      BY DEF BPS
    <2> HIDE DEF n
    <2>2. n \div BPS \in Int
      BY <2>1, DivBounds
    <2> QED
      BY <2>2 DEF n
  <1> QED
    BY <1>1 DEF SplitByBps

\* A venue asks for no less than nothing, and to top it up no more than idle.
LEMMA LegAmounts ==
  ASSUME NEW f \in FundsType, NEW target \in [Venues -> Int], NEW v \in Venues
  PROVE  /\ Excess(f, target, v) \in Nat
         /\ Want(f, target, v) \in Nat /\ Want(f, target, v) <= f.idle
  BY DEF Excess, Want, Lesser, FundsType

LEMMA TrimMoves ==
  ASSUME NEW f \in FundsType, NEW target \in [Venues -> Int], NEW pays \in Flows
  PROVE  LET g == Trim(f, target, pays) IN Moved(f, g) /\ g.idle >= f.idle
  <1>1. Excess(f, target, "blend") \in Int /\ Excess(f, target, "dex") \in Int
    BY LegAmounts DEF Venues
  <1> QED
    BY <1>1, BothWithdrawMoves DEF Trim

LEMMA TopUpMoves ==
  ASSUME NEW f \in FundsType, NEW target \in [Venues -> Int], NEW v \in Venues,
         NEW takes \in Flows
  PROVE  LET g == TopUp(f, target, v, takes) IN Moved(f, g) /\ g.idle <= f.idle
  BY LegAmounts, SupplyMoves DEF TopUp

LEMMA RebalanceMultiShape ==
  ASSUME Inv, NEW bps \in Allocations, NEW minOut, NEW pays \in Flows,
         NEW takes \in Flows, RebalanceMulti(bps, minOut, pays, takes)
  PROVE  Moved(funds, funds') /\ BreakerStep
  <1> DEFINE target  == SplitByBps(Custody(funds), bps)
             trimmed == Trim(funds, target, pays)
             blended == TopUp(trimmed, target, "blend", takes)
             topped  == TopUp(blended, target, "dex", takes)
             attempted == Excess(funds, target, "blend") + Excess(funds, target, "dex")
                            + Want(trimmed, target, "blend") + Want(blended, target, "dex")
             moved == (trimmed.idle - funds.idle) + (trimmed.idle - topped.idle)
             status == MultiStatus(attempted, moved)
  <1>1. funds' = SyncSummary(topped) /\ breaker' = Outcome(breaker, status)
    BY DEF RebalanceMulti
  <1>2. funds \in FundsType /\ bps \in [Venues -> Nat] /\ target \in [Venues -> Int]
    <2>1. bps \in [Venues -> Nat] /\ Custody(funds) \in Nat
      BY InputsAssumption, InvParts
    <2> QED
      BY <2>1, InvParts, SplitType
  <1> HIDE DEF target
  <1>3. Moved(funds, trimmed) /\ trimmed \in FundsType /\ trimmed.idle >= funds.idle
    BY <1>2, TrimMoves DEF Moved
  <1> HIDE DEF trimmed
  <1>4. Moved(trimmed, blended) /\ blended \in FundsType /\ blended.idle <= trimmed.idle
    BY <1>2, <1>3, TopUpMoves DEF Moved, Venues
  <1> HIDE DEF blended
  <1>5. Moved(blended, topped) /\ topped \in FundsType /\ topped.idle <= blended.idle
    BY <1>2, <1>4, TopUpMoves DEF Moved, Venues
  <1> HIDE DEF topped
  <1>6. Moved(funds, funds')
    <2>1. Moved(funds, topped)
      BY <1>3, <1>4, <1>5, MovedTransitive
    <2> QED
      BY <1>1, <1>5, <2>1, SyncMoves, MovedTransitive
  <1>7. status \in {"success", "failed", "partial", "noop"}
    <2>1. attempted \in Nat
      BY <1>2, <1>3, <1>4, LegAmounts DEF Venues
    <2>2. moved \in Nat
      BY <1>2, <1>3, <1>4, <1>5 DEF FundsType
    <2> HIDE DEF attempted, moved
    <2> QED
      BY <2>1, <2>2 DEF MultiStatus
  <1> HIDE DEF status
  <1> QED
    BY <1>1, <1>6, <1>7 DEF BreakerStep

LEMMA RebalanceMultiPreserves ==
  ASSUME Inv, NEW bps \in Allocations, NEW minOut, NEW pays \in Flows,
         NEW takes \in Flows, RebalanceMulti(bps, minOut, pays, takes)
  PROVE  Keeps
  <1>1. /\ ValidAllocation(bps)
        /\ mode' = [mode EXCEPT !.bps = bps]
        /\ lastRebalance' = ledger
        /\ UNCHANGED <<book, wallet, holders, lastDeposit, locks, migration, calls,
                       ledger, accrued>>
    BY DEF RebalanceMulti
  <1>2. Moved(funds, funds') /\ breaker' \in [paused : BOOLEAN, failures : Nat]
    BY RebalanceMultiShape, BreakerType
  <1>3. mode' \in [multi : BOOLEAN, bps : [Venues -> 0..BPS]]
    <2>1. bps \in [Venues -> 0..BPS]
      BY <1>1, InputsAssumption DEF ValidAllocation
    <2> QED
      BY <1>1, <2>1 DEF Inv, TypeOK
  <1> QED
    BY <1>1, <1>2, <1>3, MovePreserves DEF Inv, TypeOK

LEMMA HarvestPreserves ==
  ASSUME Inv, NEW minOut, NEW pays \in Flows, NEW takes \in Flows,
         HarvestRoundTrip(minOut, pays, takes)
  PROVE  Keeps
  <1> DEFINE p      == funds.protocol
             exited == WithdrawFromProtocol(funds, p, pays)
             taken  == exited.idle - funds.idle
  <1>1. /\ Charge(<<"rebalance", "global">>)
        /\ funds' = Resupplied(exited, taken, p, takes)
        /\ lastRebalance' = ledger
        /\ UNCHANGED <<book, wallet, holders, lastDeposit, locks, breaker, mode,
                       migration, ledger, accrued>>
    BY DEF HarvestRoundTrip, governance
  <1>2. funds \in FundsType /\ p \in Protocols
    BY InvParts DEF FundsType
  <1>3. Moved(funds, exited) /\ exited \in FundsType /\ exited.idle >= funds.idle
    BY <1>2, WithdrawFromProtocolMoves DEF Moved
  <1> HIDE DEF exited
  <1>4. taken \in Int /\ taken <= exited.idle
    BY <1>2, <1>3 DEF FundsType
  <1> HIDE DEF taken
  <1>5. Moved(exited, Resupplied(exited, taken, p, takes))
    BY <1>3, <1>4, SupplyMoves, MovedReflexive DEF Resupplied
  <1>6. Moved(funds, funds')
    BY <1>1, <1>3, <1>5, MovedTransitive
  <1>7. calls' \in [Buckets -> [start : Nat, calls : Nat]]
    <2>1. <<"rebalance", "global">> \in Buckets
      BY DEF Buckets
    <2> QED
      BY <1>1, <2>1, ChargeType DEF Inv
  <1> QED
    BY <1>1, <1>6, <1>7, MovePreserves DEF Inv, TypeOK

-----------------------------------------------------------------------------
(* Reports, switches and the environment. *)

\* A report sets TotalAssets to no more than what was counted.
LEMMA ReportPreserves ==
  ASSUME Inv, NEW newTotal \in Nat, newTotal <= CountedAssets,
         book' = [book EXCEPT !.totalAssets = newTotal],
         UNCHANGED <<funds, wallet, holders, lastDeposit, locks, governance,
                     lastRebalance, calls, ledger, accrued>>
  PROVE  Keeps
  <1>1. /\ book' \in BookType /\ book'.totalAssets = newTotal
        /\ book'.shares = book.shares /\ book'.totalShares = book.totalShares
    BY InvParts DEF BookOK, BookType
  <1>2. UNCHANGED <<funds, wallet, holders, lastDeposit, locks, breaker, mode,
                    migration, lastRebalance, calls, ledger, accrued>>
    BY DEF governance
  <1>3. CountedAssets <= Custody(funds)
    <2>1. /\ funds.idle \in Nat /\ funds.pool["blend"] \in Nat
          /\ funds.pool["dex"] \in Nat
      BY InvParts DEF FundsType, Venues
    <2>2. CASE funds.protocol \in ConfiguredVenues
      <3>1. funds.protocol \in {"blend", "dex"}
        BY <2>2, ParametersAssumption DEF Venues
      <3> QED
        BY <2>1, <2>2, <3>1 DEF CountedAssets, Custody, Deployed
    <2>3. CASE funds.protocol \notin ConfiguredVenues
      BY <2>1, <2>3 DEF CountedAssets, Custody, Deployed
    <2> QED
      BY <2>2, <2>3
  <1>4. CountedAssets \in Int
    BY InvParts, ParametersAssumption DEF CountedAssets, FundsType
  <1>5. KeepsBacking
    BY <1>1, <1>2, <1>3, <1>4, InvParts DEF KeepsBacking
  <1>6. TypeOK'
    BY <1>1, <1>2 DEF Inv, TypeOK
  <1>7. BookOK(book') /\ IndexOK(book', holders')
    BY <1>1, <1>2, InvParts DEF BookOK, IndexOK
  <1> QED
    BY <1>5, <1>6, <1>7, InvAfter

\* A decrease of at most the whole leaves nothing negative.
LEMMA DecreaseLeaves ==
  ASSUME NEW n \in Int, NEW cap \in 0..BPS, book.totalAssets \in Nat,
         DecreaseAllowed(n, cap)
  PROVE  n >= 0
  <1> DEFINE g == Greater(cap, 100)
             q == (book.totalAssets * g) \div BPS
  <1>1. g \in Nat /\ g <= BPS /\ BPS \in Nat \ {0}
    BY DEF Greater, BPS
  <1>2. book.totalAssets - n <= q
    BY DEF DecreaseAllowed
  <1> HIDE DEF g
  <1>3. q \in Int /\ q * BPS <= book.totalAssets * g
    <2>1. book.totalAssets * g \in Int
      BY <1>1
    <2> QED
      BY <1>1, <2>1, DivBounds
  <1> HIDE DEF q
  <1>4. g * book.totalAssets <= BPS * book.totalAssets
    BY <1>1, MulMono
  <1>5. q * BPS < (book.totalAssets + 1) * BPS
    BY <1>1, <1>3, <1>4
  <1>6. q < book.totalAssets + 1
    BY <1>1, <1>3, <1>5, MulCancel
  <1> QED
    BY <1>2, <1>3, <1>6

\* So what either report sets is a natural number.
LEMMA ReportedType ==
  ASSUME Inv, NEW n \in Int,
         ReportYield(n) \/ \E cap \in DecreaseCaps : ReportLoss(n, cap)
  PROVE  n \in Nat
  <1>1. ASSUME NEW cap \in DecreaseCaps, ReportLoss(n, cap)
        PROVE  n \in Nat
    <2>1. cap \in 0..BPS /\ book.totalAssets \in Nat /\ DecreaseAllowed(n, cap)
      BY <1>1, InvParts DEF WithinWhole, ReportLoss
    <2> QED
      BY <2>1, DecreaseLeaves
  <1> QED
    BY <1>1, InvParts DEF ReportYield

\* The range of the reports is one of integers.
LEMMA ReportRange ==
  ASSUME Inv
  PROVE  /\ LeastReport..Custody(funds) + 1 \subseteq Int
         /\ LeastReport..book.totalAssets \subseteq Int
  BY InvParts, InputsAssumption

LEMMA AdminPreserves ==
  ASSUME Inv, AdminStep
  PROVE  Keeps
  <1>1. ASSUME NEW n \in Int,
               ReportYield(n) \/ \E cap \in DecreaseCaps : ReportLoss(n, cap)
        PROVE  Keeps
    BY <1>1, ReportedType, ReportPreserves DEF ReportYield, ReportLoss
  <1>2. ASSUME NEW b \in [paused : BOOLEAN, failures : Nat], SetBreaker(b)
        PROVE  Keeps
    <2>1. TypeOK' /\ KeepsBacking /\ book' = book /\ holders' = holders
      BY <1>2, InvParts DEF SetBreaker, accounting, Inv, TypeOK,
                             KeepsBacking
    <2> QED
      BY <2>1, InvParts, InvAfter
  <1>3. ASSUME NEW m \in [target : BOOLEAN, paused : BOOLEAN, received : Nat],
               SetMigration(m)
        PROVE  Keeps
    <2>1. TypeOK' /\ KeepsBacking /\ book' = book /\ holders' = holders
      BY <1>3, InvParts DEF SetMigration, accounting, Inv, TypeOK,
                             KeepsBacking
    <2> QED
      BY <2>1, InvParts, InvAfter
  <1>4. breaker \in [paused : BOOLEAN, failures : Nat]
        /\ migration \in [target : BOOLEAN, paused : BOOLEAN, received : Nat]
    BY DEF Inv, TypeOK
  <1>5. CASE \E n \in LeastReport..Custody(funds) + 1 : ReportYield(n)
    BY <1>1, <1>5, ReportRange
  <1>6. CASE \E n \in LeastReport..book.totalAssets, cap \in DecreaseCaps :
               ReportLoss(n, cap)
    BY <1>1, <1>6, ReportRange
  <1>7. CASE Pause \/ EmergencyPause \/ Unpause \/ ResetCircuitBreaker
    <2>1. /\ [breaker EXCEPT !.paused = TRUE] \in [paused : BOOLEAN, failures : Nat]
          /\ [breaker EXCEPT !.paused = FALSE] \in [paused : BOOLEAN, failures : Nat]
          /\ [paused |-> FALSE, failures |-> 0] \in [paused : BOOLEAN, failures : Nat]
      BY <1>4
    <2> QED
      BY <1>2, <1>7, <2>1 DEF Pause, EmergencyPause, Unpause, ResetCircuitBreaker
  <1>8. CASE SetMigrationTarget \/ \E value \in BOOLEAN : SetMigrationPaused(value)
    <2>1. ASSUME NEW value \in BOOLEAN
          PROVE  /\ [migration EXCEPT !.target = TRUE]
                      \in [target : BOOLEAN, paused : BOOLEAN, received : Nat]
                 /\ [migration EXCEPT !.paused = value]
                      \in [target : BOOLEAN, paused : BOOLEAN, received : Nat]
      BY <1>4
    <2> QED
      BY <1>3, <1>8, <2>1 DEF SetMigrationTarget, SetMigrationPaused
  <1> QED
    BY <1>5, <1>6, <1>7, <1>8 DEF AdminStep

LEMMA EnvironmentPreserves ==
  ASSUME Inv, Environment
  PROVE  Keeps
  <1>1. CASE CloseLedger
    <2>1. TypeOK' /\ KeepsBacking /\ book' = book /\ holders' = holders
      BY <1>1, InvParts DEF CloseLedger, Inv, TypeOK, KeepsBacking
    <2> QED
      BY <2>1, InvParts, InvAfter
  <1>2. ASSUME NEW v \in Venues, Accrue(v)
        PROVE  Keeps
    <2> DEFINE pool == [funds.pool EXCEPT ![v] = funds.pool[v] + 1]
    <2>1. pool \in [Venues -> Nat] /\ Deployed(pool) = Deployed(funds.pool) + 1
      BY InvParts DEF FundsType, Deployed, Venues
    <2>2. funds' = [funds EXCEPT !.pool = pool]
      BY <1>2, InvParts DEF Accrue, FundsType
    <2> HIDE DEF pool
    <2>3. funds' \in FundsType /\ Custody(funds') = Custody(funds) + 1
      BY <2>1, <2>2, InvParts DEF FundsType, Custody, Deployed, Venues
    <2>4. UNCHANGED <<book, wallet, holders, lastDeposit, locks, breaker, mode,
                      lastRebalance, migration, calls, ledger>>
          /\ accrued' = accrued + 1
      BY <1>2 DEF Accrue
    <2>5. TypeOK'
      BY <2>3, <2>4 DEF Inv, TypeOK
    <2>6. KeepsBacking
      BY <2>3, <2>4, InvParts DEF KeepsBacking
    <2> QED
      BY <2>4, <2>5, <2>6, InvParts, InvAfter
  <1> QED
    BY <1>1, <1>2 DEF Environment

-----------------------------------------------------------------------------
(* The invariant. *)

LEMMA InitEstablishes ==
  ASSUME Init, WithinWhole
  PROVE  Inv
  <1>1. /\ book.shares = [u \in Users |-> 0] /\ book.totalShares = 0
        /\ book.totalAssets = 0 /\ book \in BookType
    BY DEF Init, BookType
  <1>2. funds \in FundsType /\ Custody(funds) = 0
    BY DEF Init, FundsType, Custody, Deployed, Protocols, Venues
  <1>3. calls \in [Buckets -> [start : Nat, calls : Nat]]
    BY DEF Init, NoBucket
  <1>4. mode \in [multi : BOOLEAN, bps : [Venues -> 0..BPS]]
    BY DEF Init, BPS
  <1>5. TypeOK
    BY <1>1, <1>2, <1>3, <1>4, ParametersAssumption DEF Init, TypeOK
  <1>7. LedgerConsistent
    <2>1. SumsTo(book.shares, book.totalShares)
      BY <1>1, EmptySum
    <2>2. \A u \in Users : ~(book.shares[u] > 0)
      BY <1>1
    <2> QED
      BY <2>1, <2>2, Zenon DEF LedgerConsistent, SumsTo, Total
  <1> QED
    BY <1>5, <1>7 DEF Inv

LEMMA UserStepPreserves ==
  ASSUME Inv, UserStep
  PROVE  Keeps
  <1>1. DepositAmounts \subseteq Int /\ WithdrawAmounts \subseteq Int
    BY InputsAssumption
  <1> QED
    BY <1>1, VenueLimitsType, DepositPreserves, BatchDepositPreserves,
       WithdrawPreserves, WithdrawAllPreserves, EmergencyWithdrawPreserves,
       LockPreserves, MigrateSharesPreserves DEF UserStep

LEMMA AllocationStepPreserves ==
  ASSUME Inv, AllocationStep
  PROVE  Keeps
  BY VenueLimitsType, RebalancePreserves, RebalanceMultiPreserves,
     HarvestPreserves, EnableMultiPreserves
     DEF AllocationStep, Harvest, EmergencyHarvest

LEMMA NextKeeps ==
  ASSUME Inv, [Next]_vars
  PROVE  Keeps
  <1>1. CASE UNCHANGED vars
    <2>1. TypeOK' /\ KeepsBacking /\ book' = book /\ holders' = holders
      BY <1>1, InvParts DEF vars, Inv, TypeOK, KeepsBacking
    <2> QED
      BY <2>1, InvParts, InvAfter
  <1>2. CASE Next
    BY <1>2, UserStepPreserves, AllocationStepPreserves, AdminPreserves,
       EnvironmentPreserves DEF Next
  <1> QED
    BY <1>1, <1>2

LEMMA NextPreserves ==
  ASSUME Inv, [Next]_vars
  PROVE  Inv'
  BY NextKeeps DEF Keeps

\* The inductive invariant of the vault: the shares of the users sum to TotalShares and the
\* index names every holder, with the types these need, after any sequence of entry points.
THEOREM Invariance ==
  ASSUME WithinWhole
  PROVE  Spec => []Inv
  <1>1. Init => Inv
    BY InitEstablishes
  <1>2. Inv /\ [Next]_vars => Inv'
    BY NextPreserves
  <1> QED
    BY <1>1, <1>2, PTL DEF Spec

\* As long as the owner signs for no decrease of more than the whole, every reachable
\* state is well typed and no holding, total or balance of the vault ever becomes
\* negative, negative reports included: it is the cap on the decrease that refuses them.
THEOREM TypeCorrectness ==
  ASSUME WithinWhole
  PROVE  Spec => []TypeOK
  <1>1. Inv => TypeOK
    BY DEF Inv
  <1> QED
    BY <1>1, Invariance, PTL

\* TotalAssets never exceeds what the vault holds and has deployed, whatever
\* the venues withhold and in whatever order the entry points are called.
THEOREM Solvent ==
  ASSUME WithinWhole
  PROVE  Spec => []Solvency
  <1>1. Init => Inv /\ Solvency
    <2>1. ASSUME Init PROVE Solvency
      BY <2>1 DEF Init, Solvency, Custody, Deployed, Venues
    <2> QED
      BY <2>1, InitEstablishes
  <1>2. Inv /\ Solvency /\ [Next]_vars => Inv' /\ Solvency'
    <2>1. ASSUME Inv, Solvency, [Next]_vars
          PROVE  Inv' /\ Solvency'
      <3>1. Inv' /\ KeepsBacking
        BY <2>1, NextKeeps DEF Keeps
      <3>2. /\ book.totalAssets \in Nat /\ Custody(funds) \in Nat
            /\ book'.totalAssets \in Nat /\ Custody(funds') \in Nat
        BY <2>1, <3>1, InvParts, InvPartsAfter
      <3> QED
        BY <2>1, <3>1, <3>2 DEF KeepsBacking, Solvency
    <2> QED
      BY <2>1
  <1> QED
    BY <1>1, <1>2, PTL DEF Spec

\* TotalShares is the sum of what the users hold, for any number of users, and
\* nobody with shares is missing from the index.
THEOREM LedgerIsConsistent ==
  ASSUME WithinWhole
  PROVE  Spec => []LedgerConsistent
  <1>1. Inv => LedgerConsistent
    BY DEF Inv
  <1> QED
    BY <1>1, Invariance, PTL
================================================================================
