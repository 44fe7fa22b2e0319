------------------------------- MODULE ShareMath -------------------------------
(***************************************************************************)
(* Share accounting arithmetic of the vault                                *)
(* (neurowealth-vault/share-math, and the convert_to_* helpers of the      *)
(* contract, which compute the same formulas on the stored totals).        *)
(*                                                                         *)
(* Amounts are integers of arbitrary size.  The code computes in i128 with *)
(* checked operations: an overflow aborts the transaction, so it is a call *)
(* that does not happen rather than a wrong result.                        *)
(***************************************************************************)
EXTENDS Integers

\* Mutants.  Pricing a deposit with its own assets already counted, and paying
\* a redemption rounded up.
FloorOfTotalAfter(assets, totalShares, totalAssets) ==
  IF totalShares = 0 \/ totalAssets = 0
    THEN assets
    ELSE (assets * totalShares) \div (totalAssets + assets)

AssetsRoundedUp(shares, totalShares, totalAssets) ==
  IF shares = 0 \/ totalShares = 0 \/ totalAssets = 0
    THEN 0
    ELSE (shares * totalAssets + totalShares - 1) \div totalShares

(* shares_floor / convert_to_shares_internal: shares minted for a deposit. *)
SharesFloor(assets, totalShares, totalAssets) ==
  IF totalShares = 0 \/ totalAssets = 0
    THEN assets
    ELSE (assets * totalShares) \div totalAssets

(* shares_ceil / convert_to_shares_internal_ceil: shares burned for a      *)
(* withdrawal of the given assets.                                         *)
SharesCeil(assets, totalShares, totalAssets) ==
  IF assets = 0 \/ totalShares = 0 \/ totalAssets = 0
    THEN assets
    ELSE (assets * totalShares + totalAssets - 1) \div totalAssets

(* assets_from_shares / convert_to_assets_internal: value of shares.       *)
AssetsFromShares(shares, totalShares, totalAssets) ==
  IF shares = 0 \/ totalShares = 0 \/ totalAssets = 0
    THEN 0
    ELSE (shares * totalAssets) \div totalShares

-----------------------------------------------------------------------------
(***************************************************************************)
(* The vault's share ledger.  A `book' record b stands for four storage    *)
(* keys: Shares(user), TotalShares, TotalAssets and TotalDeposits.         *)
(***************************************************************************)

\* The convert_to_* helpers, on the totals the contract has stored.
MintedFor(b, assets) == SharesFloor(assets, b.totalShares, b.totalAssets)
BurnedFor(b, assets) == SharesCeil(assets, b.totalShares, b.totalAssets)
WorthOf(b, shares)   == AssetsFromShares(shares, b.totalShares, b.totalAssets)

\* What user u could redeem at the stored price.
Value(b, u) == WorthOf(b, b.shares[u])

\* The ledger writes of a deposit of `assets' that mints `minted' shares.
Mint(b, u, minted, assets) ==
  [b EXCEPT !.shares[u]     = @ + minted,
            !.totalShares   = @ + minted,
            !.totalAssets   = @ + assets,
            !.totalDeposits = @ + assets]

\* Mutant of Burn: principal not reduced.
BurnKeepingPrincipal(b, u, burned, paid) ==
  [b EXCEPT !.shares[u] = @ - burned, !.totalShares = @ - burned,
            !.totalAssets = @ - paid]

\* Those of a redemption; reduce_total_deposits_on_withdraw saturates at 0.
Burn(b, u, burned, paid) ==
  [b EXCEPT !.shares[u]     = @ - burned,
            !.totalShares   = @ - burned,
            !.totalAssets   = @ - paid,
            !.totalDeposits = IF @ >= paid THEN @ - paid ELSE 0]
================================================================================
