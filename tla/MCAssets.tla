------------------------------- MODULE MCAssets -------------------------------
(* Small instances of MultiAsset for TLC. *)
EXTENDS MultiAsset, MCVault

Unlimited == {[min |-> 0, limit |-> 0, cap |-> 0]}
SomeLimits == Unlimited \cup {[min |-> 2, limit |-> 2, cap |-> 3]}
=============================================================================
