------------------------------- MODULE BackedShares -------------------------------
(***************************************************************************)
(* What the vault promises whoever holds its shares, with nothing of how:   *)
(* shares are bought and redeemed against assets that exist, at a price     *)
(* that only reports of profit and loss may lower, and nobody loses a share *)
(* by what another does.                                                    *)
(***************************************************************************)
EXTENDS Integers

CONSTANT Holders

VARIABLES
  shares,   \* what each holder has
  supply,   \* and all of them together
  assets,   \* what the shares are a claim on
  backing   \* what is really there

shareVars == <<shares, supply, assets, backing>>

SharesInit ==
  /\ shares = [h \in Holders |-> 0]
  /\ supply = 0 /\ assets = 0 /\ backing = 0

\* A share is worth no less than before.
PriceStands == supply > 0 => assets' * supply >= assets * supply'

\* Assets and backing move together.
MovesTogether == backing' - backing = assets' - assets

Buy ==
  /\ supply' > supply /\ assets' > assets
  /\ \A h \in Holders : shares'[h] >= shares[h]
  /\ PriceStands /\ MovesTogether

Redeem ==
  \E h \in Holders : \E n \in 1..shares[h] :
    /\ shares' = [shares EXCEPT ![h] = @ - n]
    /\ supply' = supply - n
    /\ assets' <= assets
    /\ PriceStands /\ MovesTogether

\* A profit is there before anyone counts it.
Earn == backing' > backing /\ UNCHANGED <<shares, supply, assets>>

\* What is there is counted again; nobody has a claim on more.
Revalue ==
  /\ assets' <= backing
  /\ UNCHANGED <<shares, supply, backing>>

SharesNext == Buy \/ Redeem \/ Earn \/ Revalue

SharesSpec == SharesInit /\ [][SharesNext]_shareVars
================================================================================
