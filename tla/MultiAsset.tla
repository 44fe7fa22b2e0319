------------------------------ MODULE MultiAsset ------------------------------
(***************************************************************************)
(* The share pools of further assets, beside the primary USDC book of      *)
(* module Vault: deposit_asset, withdraw_asset and the owner's list of     *)
(* supported assets (lib.rs, issue 646).  A supported asset is a symbol    *)
(* with the contract of its token, which may be USDC's; one token stands   *)
(* for the others.                                                         *)
(*                                                                         *)
(* A pool has its own shares and totals.  What is deposited into it is     *)
(* counted a second time in the global TotalAssets and TotalDeposits,      *)
(* which price the primary shares.                                         *)
(***************************************************************************)
EXTENDS Vault

CONSTANTS
  Assets,        \* symbols the owner may register
  AssetLimits,   \* [min, limit, cap] the owner may set, 0 = none
  AssetAmounts,  \* amounts of deposit_asset and withdraw_asset
  InitialOther   \* of the other token, in each user's wallet

Tokens == {"usdc", "other"}

NotSupported == [token |-> "none", min |-> 0, limit |-> 0, cap |-> 0]

ASSUME MultiAssetAssumption ==
  /\ IsFiniteSet(Assets)
  /\ AssetLimits \subseteq [min : Nat, limit : Nat, cap : Nat]
  /\ AssetAmounts \subseteq Nat /\ InitialOther \in Nat

VARIABLES
  config,  \* MultiAssetKey::Config(asset)
  pool,    \* MultiAssetKey::Shares(user, asset) and Totals(asset), as a book
  other    \* the other token: what the vault has, and what the users have

assetVars == <<config, pool, other>>
multiVars == <<vars, assetVars>>

WithoutTotals(p) ==
  [p EXCEPT !.totalShares = 0, !.totalAssets = 0, !.totalDeposits = 0]

MultiInit ==
  /\ Init
  /\ config = [x \in Assets |-> NotSupported]
  /\ pool = [x \in Assets |-> book]
  /\ other = [vault |-> 0, wallet |-> [u \in Users |-> InitialOther]]

Supported(x) == config[x].token # "none"

-----------------------------------------------------------------------------
(* The owner's list. *)

Configured(token, l) == [token |-> token, min |-> l.min, limit |-> l.limit, cap |-> l.cap]

LimitsOrdered(l) == l.limit > 0 => l.min <= l.limit

\* Mutant of Registrable: registering an asset again replaces its token.
RegistrableAgain(x) == TRUE
Registrable(x) == ~Supported(x)

AddSupportedAsset(x, token, l) ==
  /\ Registrable(x) /\ LimitsOrdered(l)
  /\ config' = [config EXCEPT ![x] = Configured(token, l)]
  /\ UNCHANGED <<pool, other>> /\ UNCHANGED vars

UpdateAssetLimits(x, l) ==
  /\ Supported(x) /\ LimitsOrdered(l)
  /\ config' = [config EXCEPT ![x] = Configured(@.token, l)]
  /\ UNCHANGED <<pool, other>> /\ UNCHANGED vars

\* The code removes a symbol that is not supported as well, which changes nothing.
Removable(x) == Supported(x) /\ pool[x].totalShares = 0 /\ pool[x].totalAssets = 0

\* The shares of the users are keys of their own and stay.
RemoveSupportedAsset(x) ==
  /\ Removable(x)
  /\ config' = [config EXCEPT ![x] = NotSupported]
  /\ pool' = [pool EXCEPT ![x] = WithoutTotals(@)]
  /\ UNCHANGED other /\ UNCHANGED vars

-----------------------------------------------------------------------------
(* Deposits and withdrawals. *)

\* add_to_global_totals_on_deposit: no primary share is minted.
AddToGlobalTotals(b, a) == [b EXCEPT !.totalAssets = @ + a, !.totalDeposits = @ + a]

\* reduce_global_totals_on_withdraw, both clamped at 0.
ReduceGlobalTotals(b, a) ==
  [b EXCEPT !.totalAssets = IF @ >= a THEN @ - a ELSE 0,
            !.totalDeposits = IF @ >= a THEN @ - a ELSE 0]

\* A transfer of the asset's token between the user and the vault, whose USDC is
\* `f' before it.
Moves(u, token, f, toVault) ==
  IF token = "usdc"
    THEN /\ wallet[u] >= toVault /\ f.idle + toVault >= 0
         /\ wallet' = [wallet EXCEPT ![u] = @ - toVault]
         /\ funds' = [f EXCEPT !.idle = @ + toVault]
         /\ UNCHANGED other
    ELSE /\ other.wallet[u] >= toVault /\ other.vault + toVault >= 0
         /\ other' = [other EXCEPT !.wallet[u] = @ - toVault, !.vault = @ + toVault]
         /\ funds' = f /\ UNCHANGED wallet

\* The global caps, the user cap and the index of holders are not looked at.
DepositAsset(u, x, a) ==
  LET c == config[x]  minted == MintedFor(pool[x], a) IN
  /\ NotPaused /\ a > 0 /\ Admitted(<<"deposit", u>>)
  /\ Supported(x)
  /\ a >= c.min
  /\ c.limit > 0 => a <= c.limit
  /\ c.cap > 0 => pool[x].totalAssets + a <= c.cap
  /\ minted > 0
  /\ Moves(u, c.token, funds, a)
  /\ pool' = [pool EXCEPT ![x] = Mint(@, u, minted, a)]
  /\ book' = AddToGlobalTotals(book, a)
  /\ Charge(<<"deposit", u>>)
  /\ UNCHANGED <<config, holders, lastDeposit, locks, governance, lastRebalance, ledger,
                 accrued>>

Balance(token, f) == IF token = "usdc" THEN f.idle ELSE other.vault

\* Only a single protocol is recalled from, whatever token is short.
RecallFor(token, owed, pays) ==
  IF funds.protocol \in Venues /\ Balance(token, funds) < owed
    THEN WithdrawFrom(funds, funds.protocol, owed - Balance(token, funds), pays)
    ELSE funds

Actual(token, owed, recalled) ==
  IF funds.protocol \in Venues THEN Lesser(owed, Balance(token, recalled)) ELSE owed

WithdrawAsset(u, x, a, pays) ==
  LET token    == config[x].token
      asked    == BurnedFor(pool[x], a)
      owed     == WorthOf(pool[x], asked)
      recalled == RecallFor(token, owed, pays)
      actual   == Actual(token, owed, recalled)
  IN
  /\ NotPaused /\ a > 0 /\ Admitted(<<"withdraw", u>>)
  /\ Supported(x)
  /\ pool[x].totalShares > 0 /\ pool[x].totalAssets > 0
  /\ pool[x].shares[u] > 0 /\ asked > 0 /\ pool[x].shares[u] >= asked
  /\ actual > 0
  /\ Moves(u, token, recalled, -actual)
  /\ pool' = [pool EXCEPT ![x] = Burn(@, u, BurnedFor(@, actual), actual)]
  /\ book' = ReduceGlobalTotals(book, actual)
  /\ Charge(<<"withdraw", u>>)
  /\ UNCHANGED <<config, holders, lastDeposit, locks, governance, lastRebalance, ledger,
                 accrued>>

AssetStep ==
  \/ \E x \in Assets, token \in Tokens, l \in AssetLimits : AddSupportedAsset(x, token, l)
  \/ \E x \in Assets, l \in AssetLimits : UpdateAssetLimits(x, l)
  \/ \E x \in Assets : RemoveSupportedAsset(x)
  \/ \E u \in Users, x \in Assets, a \in AssetAmounts : DepositAsset(u, x, a)
  \/ \E u \in Users, x \in Assets, a \in AssetAmounts, pays \in VenueLimits :
       WithdrawAsset(u, x, a, pays)

MultiNext == AssetStep \/ (Next /\ UNCHANGED assetVars)

MultiSpec == MultiInit /\ [][MultiNext]_multiVars

-----------------------------------------------------------------------------
(* Properties. *)

\* The shares of a pool are the users', also after its symbol was removed and
\* registered again: shares a removal left behind would come back to life.
PoolSharesConserved ==
  \A x \in Assets :
    FoldFunction(LAMBDA m, n : m + n, 0, pool[x].shares) = pool[x].totalShares

\* What the pools of the other token owe is in the vault: the venues and the primary
\* withdrawals, which pay in USDC, never draw on it.
OtherTokenBacked ==
  FoldFunction(LAMBDA m, n : m + n, 0,
    [x \in {y \in Assets : config[y].token = "other"} |-> pool[x].totalAssets]) = other.vault

\* Pools and primary book keep their types and stay backed, however their calls are
\* mixed and whatever becomes of a pool's registration: the global TotalAssets counts
\* no more than the vault holds of all tokens together.
PoolsBacked ==
  /\ TypeOK
  /\ pool \in [Assets -> BookType]
  /\ other \in [vault : Nat, wallet : [Users -> Nat]]
  /\ PoolSharesConserved /\ OtherTokenBacked
  /\ book.totalAssets <= Custody(funds) + other.vault

-----------------------------------------------------------------------------
(* What the documents say of the pools. *)

\* "Each asset has its own share pool with independent share pricing": a deposit into
\* a pool does not change what primary shares are worth.
IndependentPricing ==
  [][pool' # pool => \A u \in Users : Value(book', u) = Value(book, u)]_multiVars
=============================================================================
