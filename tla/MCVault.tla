------------------------------- MODULE MCVault -------------------------------
(* Small instances of Vault for TLC. *)
EXTENDS Vault, TLC

NoRateLimit == [c \in Categories |-> 0]
TightRateLimit == [c \in Categories |-> 2]

\* Half and half; mostly Blend, the rest idle; DEX only; nothing.
SomeAllocations ==
  {[v \in Venues |-> IF v = "blend" THEN b[1] ELSE b[2]] :
     b \in {<<5000, 5000>>, <<6000, 2500>>, <<0, 10000>>, <<0, 0>>}}
\* lock_shares takes a negative number of shares as well.
SomeLocks == {-1, 1}

\* An agent may report a total below zero.
BelowZero == -1

Symmetry == Permutations(Users)
=============================================================================
