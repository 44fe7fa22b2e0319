----------------------------- MODULE AssetProofs -----------------------------
(***************************************************************************)
(* The share pools of further assets stay backed, for any users, assets,   *)
(* limits and venues, however their calls are mixed with those of the      *)
(* primary book.                                                           *)
(*                                                                         *)
(* TotalAssets counts the pools of the other token, so Solvency does not   *)
(* hold here; what the vault holds of both tokens covers it.  That needs   *)
(* the other token's pools to owe exactly what is there: their sum is over *)
(* the symbols registered with it, which change, and stays right because a *)
(* symbol comes and goes with an empty pool.                               *)
(***************************************************************************)
EXTENDS MultiAsset, VaultProofs

-----------------------------------------------------------------------------
(* The invariant. *)

ConfigType == [token : Tokens \cup {"none"}, min : Nat, limit : Nat, cap : Nat]

AssetsTyped ==
  /\ config \in [Assets -> ConfigType]
  /\ \A x \in Assets : BookOK(pool[x])
  /\ pool \in [Assets -> BookType]
  /\ other \in [vault : Nat, wallet : [Users -> Nat]]

\* A symbol that is not registered has an empty pool.
IdlePoolsEmpty == \A x \in Assets : config[x].token = "none" => pool[x].totalAssets = 0

OfOther(c) == {y \in Assets : c[y].token = "other"}
OwedIn(c, p) == [x \in OfOther(c) |-> p[x].totalAssets]

\* OtherTokenBacked, by the name of its sum.
OtherCovered == Total(OwedIn(config, pool)) = other.vault

\* All tokens together cover TotalAssets.
AllCovered == book.totalAssets <= Custody(funds) + other.vault

AssetInv == Inv /\ AssetsTyped /\ IdlePoolsEmpty /\ OtherCovered /\ AllCovered

LEMMA AssetInvGivesPoolsBacked == AssetInv => PoolsBacked
  <1> SUFFICES ASSUME AssetInv PROVE PoolsBacked
    OBVIOUS
  <1>1. PoolSharesConserved
    <2> SUFFICES ASSUME NEW x \in Assets
                 PROVE  FoldFunction(LAMBDA m, n : m + n, 0, pool[x].shares)
                          = pool[x].totalShares
      BY DEF PoolSharesConserved
    <2>1. SumsTo(pool[x].shares, pool[x].totalShares)
      BY DEF AssetInv, AssetsTyped, BookOK
    <2> QED
      BY <2>1, Zenon DEF SumsTo, Total
  <1>2. OtherTokenBacked
    <2>1. Total(OwedIn(config, pool)) = other.vault
      BY DEF AssetInv, OtherCovered
    <2> QED
      BY <2>1, Zenon DEF OtherTokenBacked, Total, OwedIn, OfOther
  <1> QED
    BY <1>1, <1>2 DEF PoolsBacked, AssetInv, AssetsTyped, AllCovered, Inv

\* What a step of the asset entry points has to show.
LEMMA AssetInvAfter ==
  ASSUME Inv', AssetsTyped', IdlePoolsEmpty',
         Total(OwedIn(config', pool')) = other'.vault,
         book'.totalAssets <= Custody(funds') + other'.vault
  PROVE  AssetInv'
  BY DEF AssetInv, OtherCovered, AllCovered

-----------------------------------------------------------------------------
(* The sum of the other token's pools. *)

LEMMA OwedType ==
  ASSUME NEW c \in [Assets -> ConfigType], NEW p \in [Assets -> BookType]
  PROVE  /\ IsFiniteSet(OfOther(c)) /\ OfOther(c) \subseteq Assets
         /\ OwedIn(c, p) \in [OfOther(c) -> Nat] /\ OwedIn(c, p) \in [OfOther(c) -> Int]
         /\ \A x \in OfOther(c) : OwedIn(c, p)[x] = p[x].totalAssets
         /\ Total(OwedIn(c, p)) \in Nat
  <1>1. OfOther(c) \subseteq Assets
    BY DEF OfOther
  <1>2. IsFiniteSet(OfOther(c))
    BY <1>1, MultiAssetAssumption, FS_Subset
  <1>3. \A x \in Assets : p[x].totalAssets \in Nat
    BY DEF BookType
  <1>4. /\ OwedIn(c, p) \in [OfOther(c) -> Nat] /\ OwedIn(c, p) \in [OfOther(c) -> Int]
        /\ \A x \in OfOther(c) : OwedIn(c, p)[x] = p[x].totalAssets
    BY <1>1, <1>3 DEF OwedIn
  <1>5. Total(OwedIn(c, p)) \in Nat
    BY <1>2, <1>4, TotalBounds
  <1> QED
    BY <1>1, <1>2, <1>4, <1>5

\* What counts for nothing need not be counted.
LEMMA TotalWithoutNothing ==
  ASSUME NEW D, IsFiniteSet(D), NEW f \in [D -> Int], NEW u \in D, f[u] = 0,
         NEW g, g = [x \in D \ {u} |-> f[x]]
  PROVE  Total(f) = Total(g)
  <1>1. IsFiniteSet(D \ {u})
    BY FS_RemoveElement
  <1>2. g \in [D \ {u} -> Int]
    OBVIOUS
  <1>3. CASE D \ {u} = {}
    <2>1. \A x \in D : f[x] = 0
      BY <1>3
    <2>2. \A x \in D \ {u} : g[x] = 0
      BY <1>3
    <2> QED
      BY <1>1, <1>2, <2>1, <2>2, TotalOfNothing
  <1>4. CASE D \ {u} # {}
    <2>1. PICK v : v \in D \ {u}
      BY <1>4
    <2>2. Total(g) \in Int
      BY <1>1, <1>2, <2>1, TotalWithout
    <2>3. Total(f) = f[u] + Total([x \in D \ {u} |-> f[x]])
      BY TotalWithout
    <2> QED
      BY <2>2, <2>3
  <1> QED
    BY <1>3, <1>4

\* A symbol with an empty pool may join or leave ...
LEMMA OwedAfterJoining ==
  ASSUME NEW c \in [Assets -> ConfigType], NEW d \in [Assets -> ConfigType],
         NEW p \in [Assets -> BookType], NEW q \in [Assets -> BookType],
         NEW z \in Assets, OfOther(d) = OfOther(c) \cup {z}, z \notin OfOther(c),
         q[z].totalAssets = 0,
         \A y \in OfOther(c) : q[y].totalAssets = p[y].totalAssets
  PROVE  Total(OwedIn(d, q)) = Total(OwedIn(c, p))
  <1>1. /\ IsFiniteSet(OfOther(d)) /\ OwedIn(d, q) \in [OfOther(d) -> Int]
        /\ \A y \in OfOther(d) : OwedIn(d, q)[y] = q[y].totalAssets
    BY OwedType
  <1>2. z \in OfOther(d) /\ OfOther(d) \ {z} = OfOther(c) /\ OwedIn(d, q)[z] = 0
    BY <1>1
  <1>3. OwedIn(c, p) = [x \in OfOther(d) \ {z} |-> OwedIn(d, q)[x]]
    BY <1>1, <1>2 DEF OwedIn
  <1> QED
    BY <1>1, <1>2, <1>3, TotalWithoutNothing

\* ... a change elsewhere does not matter ...
LEMMA OwedSame ==
  ASSUME NEW c, NEW d, NEW p, NEW q, OfOther(d) = OfOther(c),
         \A y \in OfOther(c) : q[y].totalAssets = p[y].totalAssets
  PROVE  Total(OwedIn(d, q)) = Total(OwedIn(c, p))
  <1>1. OwedIn(d, q) = OwedIn(c, p)
    BY DEF OwedIn
  <1> QED
    BY <1>1

\* ... and one pool's change changes the sum by as much.
LEMMA OwedAfterChange ==
  ASSUME NEW c \in [Assets -> ConfigType],
         NEW p \in [Assets -> BookType], NEW q \in [Assets -> BookType],
         NEW x \in OfOther(c), NEW d \in Int, q[x].totalAssets = p[x].totalAssets + d,
         \A y \in Assets : y # x => q[y] = p[y]
  PROVE  Total(OwedIn(c, q)) = Total(OwedIn(c, p)) + d
  <1> DEFINE f == OwedIn(c, p)
             D == OfOther(c)
             n == q[x].totalAssets
  <1>1. /\ IsFiniteSet(D) /\ D \subseteq Assets /\ f \in [D -> Int]
        /\ f[x] = p[x].totalAssets /\ n \in Int
    <2>1. /\ IsFiniteSet(D) /\ D \subseteq Assets /\ f \in [D -> Int]
          /\ f[x] = p[x].totalAssets
      BY OwedType
    <2>2. n \in Int
      BY <2>1 DEF BookType
    <2> QED
      BY <2>1, <2>2
  <1>2. OwedIn(c, q) = [f EXCEPT ![x] = n]
    BY <1>1 DEF OwedIn
  <1>3. n - f[x] = d
    <2>1. f[x] \in Int
      BY <1>1
    <2> QED
      BY <1>1, <2>1
  <1> HIDE DEF f, D, n
  <1>4. x \in D
    BY DEF D
  <1>5. Total([f EXCEPT ![x] = n]) = Total(f) + (n - f[x])
    BY <1>1, <1>4, TotalAfterChange
  <1> QED
    BY <1>2, <1>3, <1>5 DEF f

-----------------------------------------------------------------------------
(* The owner's list. *)

\* Steps that leave the vault alone keep its invariant and its backing.
LEMMA VaultUntouched ==
  ASSUME Inv, UNCHANGED vars
  PROVE  /\ Inv' /\ book' = book /\ funds' = funds
  <1>1. [Next]_vars
    OBVIOUS
  <1> QED
    BY <1>1, NextPreserves DEF vars

LEMMA AddSupportedAssetInv ==
  ASSUME AssetInv, NEW x \in Assets, NEW token \in Tokens, NEW l \in AssetLimits,
         AddSupportedAsset(x, token, l)
  PROVE  AssetInv'
  <1>1. /\ config' = [config EXCEPT ![x] = Configured(token, l)] /\ config[x].token = "none"
        /\ pool' = pool /\ other' = other /\ UNCHANGED vars
    BY DEF AddSupportedAsset, Registrable, Supported
  <1>2. Configured(token, l) \in ConfigType /\ Configured(token, l).token = token
    BY MultiAssetAssumption DEF Configured, ConfigType
  <1>3. config \in [Assets -> ConfigType] /\ pool \in [Assets -> BookType]
        /\ pool[x].totalAssets = 0
    BY <1>1 DEF AssetInv, AssetsTyped, IdlePoolsEmpty
  <1>4. config' \in [Assets -> ConfigType] /\ config'[x].token = token
        /\ \A y \in Assets : y # x => config'[y] = config[y]
    BY <1>1, <1>2, <1>3
  <1>5. Total(OwedIn(config', pool')) = Total(OwedIn(config, pool))
    <2>1. CASE token = "other"
      <3>1. OfOther(config') = OfOther(config) \cup {x} /\ x \notin OfOther(config)
        BY <1>1, <1>4, <2>1 DEF OfOther
      <3>2. /\ pool' \in [Assets -> BookType] /\ pool'[x].totalAssets = 0
            /\ \A y \in OfOther(config) : pool'[y].totalAssets = pool[y].totalAssets
        BY <1>1, <1>3
      <3> QED
        BY <1>3, <1>4, <3>1, <3>2, OwedAfterJoining
    <2>2. CASE token # "other"
      <3>1. OfOther(config') = OfOther(config)
        BY <1>1, <1>4, <2>2 DEF OfOther
      <3> QED
        BY <1>1, <3>1, OwedSame
    <2> QED
      BY <2>1, <2>2
  <1>6. AssetsTyped' /\ IdlePoolsEmpty'
    BY <1>1, <1>4 DEF AssetInv, AssetsTyped, IdlePoolsEmpty, Tokens
  <1>7. Inv' /\ book' = book /\ funds' = funds
    BY <1>1, VaultUntouched DEF AssetInv
  <1> QED
    BY <1>1, <1>5, <1>6, <1>7, AssetInvAfter DEF AssetInv, OtherCovered, AllCovered

LEMMA UpdateAssetLimitsInv ==
  ASSUME AssetInv, NEW x \in Assets, NEW l \in AssetLimits, UpdateAssetLimits(x, l)
  PROVE  AssetInv'
  <1>1. /\ config' = [config EXCEPT ![x] = Configured(config[x].token, l)]
        /\ pool' = pool /\ other' = other /\ UNCHANGED vars
    BY DEF UpdateAssetLimits
  <1>2. config \in [Assets -> ConfigType]
    BY DEF AssetInv, AssetsTyped
  <1>3. /\ Configured(config[x].token, l) \in ConfigType
        /\ Configured(config[x].token, l).token = config[x].token
    BY <1>2, MultiAssetAssumption DEF Configured, ConfigType
  <1>4. config' \in [Assets -> ConfigType]
        /\ \A y \in Assets : config'[y].token = config[y].token
    BY <1>1, <1>2, <1>3
  <1>5. OfOther(config') = OfOther(config)
    BY <1>4 DEF OfOther
  <1>6. Total(OwedIn(config', pool')) = Total(OwedIn(config, pool))
    BY <1>1, <1>5, OwedSame
  <1>7. AssetsTyped' /\ IdlePoolsEmpty'
    BY <1>1, <1>4 DEF AssetInv, AssetsTyped, IdlePoolsEmpty
  <1>8. Inv' /\ book' = book /\ funds' = funds
    BY <1>1, VaultUntouched DEF AssetInv
  <1> QED
    BY <1>1, <1>6, <1>7, <1>8, AssetInvAfter DEF AssetInv, OtherCovered, AllCovered

LEMMA RemoveSupportedAssetInv ==
  ASSUME AssetInv, NEW x \in Assets, RemoveSupportedAsset(x)
  PROVE  AssetInv'
  <1>1. /\ config' = [config EXCEPT ![x] = NotSupported] /\ config[x].token # "none"
        /\ pool' = [pool EXCEPT ![x] = WithoutTotals(pool[x])] /\ other' = other
        /\ pool[x].totalShares = 0 /\ pool[x].totalAssets = 0 /\ UNCHANGED vars
    BY DEF RemoveSupportedAsset, Removable, Supported
  <1>2. /\ config \in [Assets -> ConfigType] /\ pool \in [Assets -> BookType]
        /\ BookOK(pool[x])
    BY DEF AssetInv, AssetsTyped
  <1>3. NotSupported \in ConfigType /\ NotSupported.token = "none"
    BY DEF NotSupported, ConfigType
  <1>4. /\ config' \in [Assets -> ConfigType] /\ config'[x].token = "none"
        /\ \A y \in Assets : y # x => config'[y] = config[y]
    BY <1>1, <1>2, <1>3
  <1>5. BookOK(WithoutTotals(pool[x])) /\ WithoutTotals(pool[x]).totalAssets = 0
    BY <1>1, <1>2 DEF BookOK, BookType, WithoutTotals
  <1>6. /\ pool' \in [Assets -> BookType] /\ pool'[x] = WithoutTotals(pool[x])
        /\ \A y \in Assets : y # x => pool'[y] = pool[y]
    BY <1>1, <1>2, <1>5 DEF BookOK
  <1>7. Total(OwedIn(config', pool')) = Total(OwedIn(config, pool))
    <2>1. CASE config[x].token = "other"
      <3>1. OfOther(config) = OfOther(config') \cup {x} /\ x \notin OfOther(config')
        BY <1>4, <2>1 DEF OfOther
      <3>2. \A y \in OfOther(config') : pool[y].totalAssets = pool'[y].totalAssets
        BY <1>6, <3>1 DEF OfOther
      <3>3. /\ config \in [Assets -> ConfigType] /\ pool \in [Assets -> BookType]
            /\ config' \in [Assets -> ConfigType] /\ pool' \in [Assets -> BookType]
            /\ pool[x].totalAssets = 0
        BY <1>1, <1>2, <1>4, <1>6
      <3>4. Total(OwedIn(config, pool)) = Total(OwedIn(config', pool'))
        BY <3>1, <3>2, <3>3, OwedAfterJoining
      <3> QED
        BY <3>4
    <2>2. CASE config[x].token # "other"
      <3>1. OfOther(config') = OfOther(config) /\ x \notin OfOther(config)
        BY <1>4, <2>2 DEF OfOther
      <3>2. \A y \in OfOther(config) : pool'[y].totalAssets = pool[y].totalAssets
        BY <1>6, <3>1 DEF OfOther
      <3> QED
        BY <3>1, <3>2, OwedSame
    <2> QED
      BY <2>1, <2>2
  <1>8. AssetsTyped' /\ IdlePoolsEmpty'
    <2>1. \A y \in Assets : BookOK(pool'[y])
      BY <1>5, <1>6 DEF AssetInv, AssetsTyped
    <2>2. IdlePoolsEmpty'
      BY <1>4, <1>5, <1>6 DEF AssetInv, IdlePoolsEmpty
    <2> QED
      BY <1>1, <1>4, <1>6, <2>1, <2>2 DEF AssetInv, AssetsTyped
  <1>9. Inv' /\ book' = book /\ funds' = funds
    BY <1>1, VaultUntouched DEF AssetInv
  <1> QED
    BY <1>1, <1>7, <1>8, <1>9, AssetInvAfter DEF AssetInv, OtherCovered, AllCovered

-----------------------------------------------------------------------------
(* Deposits and withdrawals. *)

\* A step that changes one pool, moves the token it is in and counts the amount in the
\* global totals.  `gain' is what the token's holdings and the pool's assets rise by.
PoolMoves(x, gain) ==
  /\ \A y \in Assets : y # x => pool'[y] = pool[y]
  /\ BookOK(pool'[x]) /\ pool'[x].totalAssets = pool[x].totalAssets + gain
  /\ config' = config /\ config[x].token \in Tokens
  /\ funds' \in FundsType
  /\ IF config[x].token = "usdc"
       THEN Custody(funds') = Custody(funds) + gain /\ other' = other
       ELSE /\ Custody(funds') = Custody(funds)
            /\ other'.vault = other.vault + gain
            /\ other' \in [vault : Nat, wallet : [Users -> Nat]]
  /\ \/ book'.totalAssets = book.totalAssets + gain
     \/ book'.totalAssets = 0

LEMMA PoolMovesInv ==
  ASSUME AssetInv, NEW x \in Assets, NEW gain \in Int, PoolMoves(x, gain),
         pool' = [pool EXCEPT ![x] = pool'[x]], Inv'
  PROVE  AssetInv'
  <1>1. /\ config \in [Assets -> ConfigType] /\ pool \in [Assets -> BookType]
        /\ other \in [vault : Nat, wallet : [Users -> Nat]]
        /\ \A y \in Assets : BookOK(pool[y])
        /\ Total(OwedIn(config, pool)) = other.vault
        /\ book.totalAssets <= Custody(funds) + other.vault
    BY DEF AssetInv, AssetsTyped, OtherCovered, AllCovered
  <1>2. pool' \in [Assets -> BookType] /\ \A y \in Assets : BookOK(pool'[y])
    <2>1. pool'[x] \in BookType
      BY DEF PoolMoves, BookOK
    <2> QED
      BY <1>1, <2>1 DEF PoolMoves
  <1>3. AssetsTyped'
    BY <1>1, <1>2 DEF PoolMoves, AssetsTyped
  <1>4. IdlePoolsEmpty'
    BY DEF PoolMoves, AssetInv, IdlePoolsEmpty, Tokens
  <1>5. Total(OwedIn(config', pool')) = other'.vault
    <2>1. CASE config[x].token = "usdc"
      <3>1. x \notin OfOther(config) /\ OfOther(config') = OfOther(config)
        BY <2>1 DEF OfOther, PoolMoves
      <3>2. \A y \in OfOther(config) : pool'[y].totalAssets = pool[y].totalAssets
        BY <3>1 DEF OfOther, PoolMoves
      <3>3. Total(OwedIn(config', pool')) = Total(OwedIn(config, pool))
        BY <3>1, <3>2, OwedSame
      <3> QED
        BY <1>1, <2>1, <3>3 DEF PoolMoves
    <2>2. CASE config[x].token # "usdc"
      <3>1. x \in OfOther(config)
        BY <2>2 DEF OfOther, PoolMoves, Tokens
      <3>2. /\ pool'[x].totalAssets = pool[x].totalAssets + gain
            /\ \A y \in Assets : y # x => pool'[y] = pool[y]
            /\ config' = config
        BY DEF PoolMoves
      <3>3. Total(OwedIn(config, pool')) = Total(OwedIn(config, pool)) + gain
        BY <1>1, <1>2, <3>1, <3>2, OwedAfterChange
      <3> QED
        BY <1>1, <2>2, <3>2, <3>3 DEF PoolMoves
    <2> QED
      BY <2>1, <2>2
  <1>6. book'.totalAssets <= Custody(funds') + other'.vault
    <2>1. /\ book.totalAssets \in Nat /\ Custody(funds) \in Nat
          /\ Custody(funds') \in Nat
      BY InvParts, InvPartsAfter DEF AssetInv
    <2>2. other.vault \in Nat /\ other'.vault \in Nat
      BY <1>1 DEF PoolMoves
    <2> QED
      BY <1>1, <2>1, <2>2 DEF PoolMoves
  <1> QED
    BY <1>3, <1>4, <1>5, <1>6, AssetInvAfter

\* The vault's invariant survives what these calls do to it: totals, funds, a wallet and
\* a rate limit.
LEMMA TotalsInv ==
  ASSUME Inv, NEW assets \in Nat, NEW deposits \in Nat, NEW k \in Buckets,
         book' = [book EXCEPT !.totalAssets = assets, !.totalDeposits = deposits],
         funds' \in FundsType, wallet' \in [Payers -> Nat], Charge(k),
         UNCHANGED <<holders, lastDeposit, locks, governance, lastRebalance, ledger, accrued>>
  PROVE  Inv'
  <1>1. /\ book' \in BookType /\ book'.totalShares = book.totalShares
        /\ book'.shares = book.shares
    BY InvParts DEF BookOK, BookType
  <1>2. calls' \in [Buckets -> [start : Nat, calls : Nat]]
    BY ChargeType DEF Inv
  <1>3. TypeOK'
    BY <1>1, <1>2 DEF Inv, TypeOK, governance
  <1>4. BookOK(book') /\ IndexOK(book', holders')
    BY <1>1, InvParts DEF BookOK, IndexOK
  <1> QED
    BY <1>3, <1>4, InvAgain

\* What a transfer of a token does, whatever its direction.
LEMMA MovesShape ==
  ASSUME Inv, NEW u \in Users, NEW token \in Tokens, NEW f \in FundsType, NEW n \in Int,
         other \in [vault : Nat, wallet : [Users -> Nat]], Moves(u, token, f, n)
  PROVE  /\ funds' \in FundsType /\ wallet' \in [Payers -> Nat]
         /\ IF token = "usdc"
              THEN Custody(funds') = Custody(f) + n /\ other' = other
              ELSE /\ Custody(funds') = Custody(f)
                   /\ other'.vault = other.vault + n
                   /\ other' \in [vault : Nat, wallet : [Users -> Nat]]
  <1>1. wallet \in [Payers -> Nat] /\ u \in Payers
    BY InvParts DEF Payers
  <1>2. CASE token = "usdc"
    <2>1. /\ wallet' = [wallet EXCEPT ![u] = wallet[u] - n] /\ wallet[u] >= n
          /\ funds' = [f EXCEPT !.idle = f.idle + n] /\ f.idle + n >= 0
          /\ other' = other
      BY <1>2 DEF Moves
    <2>2. funds' \in FundsType /\ Custody(funds') = Custody(f) + n
      BY <2>1 DEF FundsType, Custody, Deployed, Venues
    <2>3. wallet[u] - n \in Nat
      BY <1>1, <2>1
    <2> QED
      BY <1>1, <1>2, <2>1, <2>2, <2>3
  <1>3. CASE token # "usdc"
    <2>1. /\ other' = [other EXCEPT !.wallet[u] = other.wallet[u] - n,
                                    !.vault = other.vault + n]
          /\ other.wallet[u] >= n /\ other.vault + n >= 0
          /\ funds' = f /\ wallet' = wallet
      BY <1>3 DEF Moves
    <2>2. other.wallet[u] - n \in Nat /\ other.vault + n \in Nat
      BY <2>1
    <2>3. /\ other' \in [vault : Nat, wallet : [Users -> Nat]]
          /\ other'.vault = other.vault + n
      BY <2>1, <2>2
    <2> QED
      BY <1>1, <1>3, <2>1, <2>3
  <1> QED
    BY <1>2, <1>3

LEMMA DepositAssetInv ==
  ASSUME AssetInv, NEW u \in Users, NEW x \in Assets, NEW a \in AssetAmounts,
         DepositAsset(u, x, a)
  PROVE  AssetInv'
  <1> DEFINE minted == MintedFor(pool[x], a)
             token  == config[x].token
  <1>1. /\ Inv /\ a \in Nat /\ BookOK(pool[x]) /\ funds \in FundsType
        /\ other \in [vault : Nat, wallet : [Users -> Nat]]
        /\ config \in [Assets -> ConfigType] /\ pool \in [Assets -> BookType]
    BY MultiAssetAssumption, InvParts DEF AssetInv, AssetsTyped
  <1>2. minted \in Nat /\ token \in Tokens
    <2>1. minted \in Nat
      BY <1>1, MintedType
    <2>2. token # "none"
      BY DEF DepositAsset, Supported
    <2> QED
      BY <1>1, <2>1, <2>2 DEF ConfigType
  <1>3. /\ Moves(u, token, funds, a) /\ Charge(<<"deposit", u>>)
        /\ pool' = [pool EXCEPT ![x] = Mint(pool[x], u, minted, a)]
        /\ book' = AddToGlobalTotals(book, a)
        /\ UNCHANGED <<config, holders, lastDeposit, locks, governance, lastRebalance, ledger,
                       accrued>>
    BY DEF DepositAsset
  <1> HIDE DEF minted, token
  <1>4. BookOK(Mint(pool[x], u, minted, a))
    BY <1>1, <1>2, MintOK
  <1>5. Mint(pool[x], u, minted, a).totalAssets = pool[x].totalAssets + a
    BY <1>1 DEF Mint, BookOK, BookType
  <1>6. /\ pool'[x] = Mint(pool[x], u, minted, a)
        /\ \A y \in Assets : y # x => pool'[y] = pool[y]
        /\ pool' = [pool EXCEPT ![x] = pool'[x]]
    BY <1>1, <1>3
  <1>7. /\ funds' \in FundsType /\ wallet' \in [Payers -> Nat]
        /\ IF token = "usdc"
             THEN Custody(funds') = Custody(funds) + a /\ other' = other
             ELSE /\ Custody(funds') = Custody(funds)
                  /\ other'.vault = other.vault + a
                  /\ other' \in [vault : Nat, wallet : [Users -> Nat]]
    BY <1>1, <1>2, <1>3, MovesShape
  <1>8. /\ book.totalAssets + a \in Nat /\ book.totalDeposits + a \in Nat
        /\ book' = [book EXCEPT !.totalAssets = book.totalAssets + a,
                                !.totalDeposits = book.totalDeposits + a]
        /\ book'.totalAssets = book.totalAssets + a
    BY <1>1, <1>3, InvParts DEF AddToGlobalTotals, BookOK, BookType
  <1>9. Inv'
    <2>1. <<"deposit", u>> \in Buckets
      BY DEF Buckets
    <2> QED
      BY <1>1, <1>3, <1>7, <1>8, <2>1, TotalsInv
  <1>10. PoolMoves(x, a)
    BY <1>2, <1>3, <1>4, <1>5, <1>6, <1>7, <1>8 DEF PoolMoves, token
  <1> QED
    BY <1>1, <1>6, <1>9, <1>10, PoolMovesInv

\* What a withdrawal pays is within what the pool owes the user, at the price of the
\* shares it burns.
LEMMA PaidWithinPool ==
  ASSUME NEW b, BookOK(b), NEW u \in Users, NEW a \in Nat, NEW actual \in Nat,
         b.totalShares > 0, b.totalAssets > 0,
         BurnedFor(b, a) <= b.shares[u], actual <= WorthOf(b, BurnedFor(b, a))
  PROVE  /\ actual <= b.totalAssets /\ BurnedFor(b, actual) \in Nat
         /\ BurnedFor(b, actual) <= b.shares[u]
  <1> DEFINE asked == BurnedFor(b, a)
             owed  == WorthOf(b, asked)
  <1>1. asked \in Nat /\ BurnedFor(b, actual) \in Nat
    BY BurnedType
  <1>2. /\ b.totalShares \in Nat \ {0} /\ b.totalAssets \in Nat \ {0}
        /\ b.shares[u] \in Nat
    BY DEF BookOK, BookType
  <1>3. asked <= b.shares[u] /\ actual <= owed
    OBVIOUS
  <1> HIDE DEF asked
  <1>4. owed \in Nat /\ owed <= b.totalAssets
    BY <1>1, <1>3, WorthWithinAssets
  <1>5. owed * b.totalShares <= asked * b.totalAssets
    BY <1>1, <1>2, FloorPays DEF WorthOf
  <1> HIDE DEF owed
  <1>6. actual * b.totalShares <= owed * b.totalShares
    BY <1>2, <1>3, <1>4, MulMono
  <1>7. actual * b.totalShares <= asked * b.totalAssets
    BY <1>1, <1>2, <1>4, <1>5, <1>6
  <1>8. BurnedFor(b, actual) <= asked
    BY <1>1, <1>2, <1>7, CeilWithinHolding DEF BurnedFor
  <1> QED
    BY <1>1, <1>2, <1>3, <1>4, <1>8

LEMMA RecallForMoves ==
  ASSUME Inv, NEW token \in Tokens, NEW owed \in Nat, NEW pays \in Flows,
         other.vault \in Nat
  PROVE  /\ Moved(funds, RecallFor(token, owed, pays))
         /\ Balance(token, RecallFor(token, owed, pays)) \in Nat
  <1> DEFINE recalled == RecallFor(token, owed, pays)
  <1>1. Balance(token, funds) \in Nat /\ funds \in FundsType
    BY InvParts DEF Balance, FundsType
  <1>2. Moved(funds, recalled)
    <2>1. CASE funds.protocol \in Venues /\ Balance(token, funds) < owed
      <3>1. recalled = WithdrawFrom(funds, funds.protocol, owed - Balance(token, funds), pays)
        BY <2>1 DEF RecallFor
      <3>2. owed - Balance(token, funds) \in Int
        BY <1>1
      <3> QED
        BY <1>1, <2>1, <3>1, <3>2, WithdrawMoves
    <2>2. CASE ~(funds.protocol \in Venues /\ Balance(token, funds) < owed)
      <3>1. recalled = funds
        BY <2>2 DEF RecallFor
      <3> QED
        BY <1>1, <3>1, MovedReflexive
    <2> QED
      BY <2>1, <2>2
  <1> HIDE DEF recalled
  <1>3. Balance(token, recalled) \in Nat
    BY <1>2 DEF Moved, FundsType, Balance
  <1> QED
    BY <1>2, <1>3 DEF recalled

LEMMA WithdrawAssetInv ==
  ASSUME AssetInv, NEW u \in Users, NEW x \in Assets, NEW a \in AssetAmounts,
         NEW pays \in VenueLimits, WithdrawAsset(u, x, a, pays)
  PROVE  AssetInv'
  <1> DEFINE b        == pool[x]
             token    == config[x].token
             asked    == BurnedFor(b, a)
             owed     == WorthOf(b, asked)
             recalled == RecallFor(token, owed, pays)
             actual   == Actual(token, owed, recalled)
             burned   == BurnedFor(b, actual)
  <1>1. /\ Inv /\ a \in Nat /\ BookOK(b) /\ funds \in FundsType
        /\ other \in [vault : Nat, wallet : [Users -> Nat]] /\ other.vault \in Nat
        /\ config \in [Assets -> ConfigType] /\ pool \in [Assets -> BookType]
        /\ pays \in Flows
    BY MultiAssetAssumption, InvParts, VenueLimitsType DEF AssetInv, AssetsTyped
  <1>2. token \in Tokens
    <2>1. token # "none"
      BY DEF WithdrawAsset, Supported
    <2> QED
      BY <1>1, <2>1 DEF ConfigType
  <1>3. /\ b.totalShares > 0 /\ b.totalAssets > 0 /\ asked <= b.shares[u]
        /\ actual > 0 /\ Moves(u, token, recalled, -actual)
        /\ pool' = [pool EXCEPT ![x] = Burn(b, u, burned, actual)]
        /\ book' = ReduceGlobalTotals(book, actual)
        /\ Charge(<<"withdraw", u>>)
        /\ UNCHANGED <<config, holders, lastDeposit, locks, governance, lastRebalance, ledger,
                       accrued>>
    <2>1. b.shares[u] \in Nat /\ asked \in Nat
      BY <1>1, BurnedType DEF BookOK, BookType
    <2> QED
      BY <2>1 DEF WithdrawAsset
  <1>4. asked \in Nat /\ owed \in Nat
    <2>1. asked \in Nat
      BY <1>1, BurnedType
    <2> HIDE DEF asked
    <2> QED
      BY <1>1, <1>3, <2>1, WorthWithinAssets
  <1>5. Moved(funds, recalled) /\ Balance(token, recalled) \in Nat
    <2> HIDE DEF owed, token
    <2> QED
      BY <1>1, <1>2, <1>4, RecallForMoves
  <1>6. actual \in Nat /\ actual <= owed
    <2> HIDE DEF owed, token, recalled
    <2> QED
      BY <1>4, <1>5 DEF Actual, Lesser
  <1>7. actual <= b.totalAssets /\ burned \in Nat /\ burned <= b.shares[u]
    <2> DEFINE n == actual
    <2>1. n \in Nat /\ n <= WorthOf(b, BurnedFor(b, a)) /\ BurnedFor(b, a) <= b.shares[u]
      BY <1>3, <1>6
    <2> HIDE DEF n, b
    <2>2. n <= b.totalAssets /\ BurnedFor(b, n) \in Nat /\ BurnedFor(b, n) <= b.shares[u]
      BY <1>1, <1>3, <2>1, PaidWithinPool
    <2> QED
      BY <2>2 DEF n
  <1> HIDE DEF actual, burned, recalled, owed, asked, token
  <1>8. BookOK(Burn(b, u, burned, actual))
    <2> HIDE DEF b
    <2> QED
      BY <1>1, <1>6, <1>7, BurnOK
  <1>9. Burn(b, u, burned, actual).totalAssets = b.totalAssets + (-actual)
    BY <1>1, <1>6 DEF Burn, BookOK, BookType
  <1>10. /\ pool'[x] = Burn(b, u, burned, actual)
         /\ \A y \in Assets : y # x => pool'[y] = pool[y]
         /\ pool' = [pool EXCEPT ![x] = pool'[x]]
    BY <1>1, <1>3
  <1>11. recalled \in FundsType /\ Custody(recalled) = Custody(funds) /\ -actual \in Int
    BY <1>5, <1>6 DEF Moved
  <1>12. /\ funds' \in FundsType /\ wallet' \in [Payers -> Nat]
         /\ IF token = "usdc"
              THEN Custody(funds') = Custody(recalled) + (-actual) /\ other' = other
              ELSE /\ Custody(funds') = Custody(recalled)
                   /\ other'.vault = other.vault + (-actual)
                   /\ other' \in [vault : Nat, wallet : [Users -> Nat]]
    BY <1>1, <1>2, <1>3, <1>11, MovesShape
  <1> DEFINE assets   == IF book.totalAssets >= actual THEN book.totalAssets - actual ELSE 0
             deposits == IF book.totalDeposits >= actual THEN book.totalDeposits - actual
                                                         ELSE 0
  <1>13. /\ assets \in Nat /\ deposits \in Nat
         /\ book' = [book EXCEPT !.totalAssets = assets, !.totalDeposits = deposits]
         /\ book'.totalAssets = book.totalAssets + (-actual) \/ book'.totalAssets = 0
    BY <1>1, <1>3, <1>6, InvParts DEF ReduceGlobalTotals, BookOK, BookType
  <1> HIDE DEF assets, deposits
  <1>14. Inv'
    <2>1. <<"withdraw", u>> \in Buckets
      BY DEF Buckets
    <2> QED
      BY <1>1, <1>3, <1>12, <1>13, <2>1, TotalsInv
  <1>15. PoolMoves(x, -actual)
    BY <1>2, <1>3, <1>8, <1>9, <1>10, <1>11, <1>12, <1>13 DEF PoolMoves, token
  <1> QED
    BY <1>10, <1>11, <1>14, <1>15, PoolMovesInv

-----------------------------------------------------------------------------
(* The theorem. *)

\* A step of the primary book leaves the pools alone, and raises TotalAssets by no more
\* than what the vault holds.
LEMMA PrimaryStepInv ==
  ASSUME AssetInv, [Next]_vars, UNCHANGED assetVars
  PROVE  AssetInv'
  <1>1. Inv' /\ KeepsBacking
    BY NextKeeps DEF AssetInv, Keeps
  <1>2. config' = config /\ pool' = pool /\ other' = other
    BY DEF assetVars
  <1>3. AssetsTyped' /\ IdlePoolsEmpty'
    BY <1>2 DEF AssetInv, AssetsTyped, IdlePoolsEmpty
  <1>4. /\ other'.vault \in Nat /\ other.vault \in Nat
        /\ Total(OwedIn(config', pool')) = other'.vault
        /\ book.totalAssets <= Custody(funds) + other.vault
    BY <1>2 DEF AssetInv, AssetsTyped, OtherCovered, AllCovered
  <1>5. /\ book.totalAssets \in Nat /\ Custody(funds) \in Nat
        /\ book'.totalAssets \in Nat /\ Custody(funds') \in Nat
    BY <1>1, InvParts, InvPartsAfter DEF AssetInv
  <1>6. book'.totalAssets <= Custody(funds') + other'.vault
    BY <1>1, <1>2, <1>4, <1>5 DEF KeepsBacking
  <1> QED
    BY <1>1, <1>3, <1>4, <1>6, AssetInvAfter

LEMMA AssetInitInv ==
  ASSUME WithinWhole
  PROVE  MultiInit => AssetInv
  <1> SUFFICES ASSUME MultiInit PROVE AssetInv
    OBVIOUS
  <1>1. Inv /\ book.totalAssets = 0 /\ BookOK(book)
    BY InitEstablishes, InvParts DEF MultiInit, Init
  <1>2. /\ config = [x \in Assets |-> NotSupported] /\ pool = [x \in Assets |-> book]
        /\ other = [vault |-> 0, wallet |-> [u \in Users |-> InitialOther]]
    BY DEF MultiInit
  <1>3. NotSupported \in ConfigType /\ NotSupported.token = "none"
    BY DEF NotSupported, ConfigType
  <1>4. AssetsTyped /\ IdlePoolsEmpty
    BY <1>1, <1>2, <1>3, MultiAssetAssumption DEF AssetsTyped, IdlePoolsEmpty, BookOK
  <1>5. OtherCovered
    <2>1. OfOther(config) = {} /\ config \in [Assets -> ConfigType]
          /\ pool \in [Assets -> BookType]
      BY <1>2, <1>3, <1>4 DEF OfOther, AssetsTyped
    <2>2. /\ IsFiniteSet(OfOther(config))
          /\ OwedIn(config, pool) \in [OfOther(config) -> Int]
      BY <2>1, OwedType
    <2>3. Total(OwedIn(config, pool)) = 0
      BY <2>1, <2>2, TotalOfNothing
    <2> QED
      BY <1>2, <2>3 DEF OtherCovered
  <1>6. AllCovered
    BY <1>1, <1>2, InvParts DEF AllCovered
  <1> QED
    BY <1>1, <1>4, <1>5, <1>6 DEF AssetInv

LEMMA AssetStepInv ==
  ASSUME AssetInv, [MultiNext]_multiVars
  PROVE  AssetInv'
  <1>1. CASE AssetStep
    BY <1>1, AddSupportedAssetInv, UpdateAssetLimitsInv, RemoveSupportedAssetInv,
       DepositAssetInv, WithdrawAssetInv DEF AssetStep
  <1>2. CASE Next /\ UNCHANGED assetVars
    BY <1>2, PrimaryStepInv
  <1>3. CASE UNCHANGED multiVars
    <2>1. [Next]_vars /\ UNCHANGED assetVars
      BY <1>3 DEF multiVars
    <2> QED
      BY <2>1, PrimaryStepInv
  <1> QED
    BY <1>1, <1>2, <1>3 DEF MultiNext

\* Pools and primary book keep their types and stay backed: the shares of every pool are
\* the users', the vault has what the other token's pools owe, and TotalAssets counts no
\* more than it holds of both tokens, for any users, symbols, limits and venues.
THEOREM PoolsStayBacked ==
  ASSUME WithinWhole
  PROVE  MultiSpec => []PoolsBacked
  <1>1. MultiInit => AssetInv
    BY AssetInitInv
  <1>2. AssetInv /\ [MultiNext]_multiVars => AssetInv'
    BY AssetStepInv
  <1>3. AssetInv => PoolsBacked
    BY AssetInvGivesPoolsBacked
  <1> QED
    BY <1>1, <1>2, <1>3, PTL DEF MultiSpec
=============================================================================
