------------------------------ MODULE VaultLemmas ------------------------------
(***************************************************************************)
(* What the operators of the vault guarantee for every amount: the rounding *)
(* of ShareMath, the legs of Funds, and the sums the invariants are about.  *)
(*                                                                         *)
(* Every division of the vault rounds against the caller: a mint and a     *)
(* payout round down, a burn rounds up.  No leg between the vault and its  *)
(* venues creates or loses USDC.                                           *)
(***************************************************************************)
EXTENDS ShareMath, Funds, Functions, FiniteSetTheorems, WellFoundedInduction, TLAPS

-----------------------------------------------------------------------------
(* Integer arithmetic the provers do not find by themselves. *)

\* A quotient is between the two multiples of its divisor.
LEMMA DivBounds ==
  ASSUME NEW n \in Int, NEW d \in Nat \ {0}
  PROVE  /\ n \div d \in Int
         /\ (n \div d) * d <= n
         /\ n < (n \div d + 1) * d
  OBVIOUS

\* Multiplying an inequality by a natural number.
LEMMA MulMono ==
  ASSUME NEW a \in Int, NEW b \in Int, NEW c \in Nat, a <= b
  PROVE  a * c <= b * c
  OBVIOUS

\* Cancelling a common factor of a strict inequality.
LEMMA MulCancel ==
  ASSUME NEW a \in Int, NEW b \in Int, NEW c \in Nat, a * c < b * c
  PROVE  a < b
  OBVIOUS

-----------------------------------------------------------------------------
(* The three conversions. *)

\* shares_floor mints at most the assets' worth of shares.
LEMMA FloorMints ==
  ASSUME NEW a \in Nat, NEW TS \in Nat, NEW TA \in Nat
  PROVE  /\ SharesFloor(a, TS, TA) \in Nat
         /\ TS > 0 /\ TA > 0 => SharesFloor(a, TS, TA) * TA <= a * TS
  <1>1. CASE TS = 0 \/ TA = 0
    BY <1>1 DEF SharesFloor
  <1>2. CASE TS > 0 /\ TA > 0
    <2>1. a * TS \in Nat
      OBVIOUS
    <2>2. SharesFloor(a, TS, TA) = (a * TS) \div TA
      BY <1>2 DEF SharesFloor
    <2> QED
      BY <1>2, <2>1, <2>2, DivBounds
  <1> QED
    BY <1>1, <1>2

\* shares_ceil burns at least the assets' worth of shares ...
LEMMA CeilBurns ==
  ASSUME NEW a \in Nat, NEW TS \in Nat, NEW TA \in Nat
  PROVE  /\ SharesCeil(a, TS, TA) \in Nat
         /\ TS > 0 /\ TA > 0 => a * TS <= SharesCeil(a, TS, TA) * TA
  <1>1. CASE a = 0 \/ TS = 0 \/ TA = 0
    BY <1>1 DEF SharesCeil
  <1>2. CASE a > 0 /\ TS > 0 /\ TA > 0
    <2>1. a * TS + TA - 1 \in Nat
      BY <1>2
    <2>2. SharesCeil(a, TS, TA) = (a * TS + TA - 1) \div TA
      BY <1>2 DEF SharesCeil
    <2> DEFINE q == (a * TS + TA - 1) \div TA
    <2>3. q \in Int /\ a * TS + TA - 1 < (q + 1) * TA /\ q * TA <= a * TS + TA - 1
      BY <1>2, <2>1, DivBounds
    <2>4. a * TS <= q * TA
      BY <2>3, <1>2
    <2>5. q \in Nat
      BY <2>4, <2>3, <1>2
    <2> QED
      BY <2>2, <2>4, <2>5
  <1> QED
    BY <1>1, <1>2

\* ... and no share more than a holder of that value has.
LEMMA CeilWithinHolding ==
  ASSUME NEW a \in Nat, NEW s \in Nat, NEW TS \in Nat \ {0}, NEW TA \in Nat \ {0},
         a * TS <= s * TA
  PROVE  SharesCeil(a, TS, TA) <= s
  <1>1. CASE a = 0
    BY <1>1 DEF SharesCeil
  <1>2. CASE a > 0
    <2> DEFINE q == (a * TS + TA - 1) \div TA
    <2>1. SharesCeil(a, TS, TA) = q
      BY <1>2 DEF SharesCeil
    <2>2. a * TS + TA - 1 \in Nat
      BY <1>2
    <2>3. q \in Int /\ q * TA <= a * TS + TA - 1
      BY <2>2, DivBounds
    <2>4. q * TA < (s + 1) * TA
      BY <2>3
    <2>5. q < s + 1
      BY <2>3, <2>4, MulCancel
    <2> QED
      BY <2>1, <2>3, <2>5
  <1> QED
    BY <1>1, <1>2

\* assets_from_shares pays at most the shares' part of the assets.
LEMMA FloorPays ==
  ASSUME NEW s \in Nat, NEW TS \in Nat, NEW TA \in Nat
  PROVE  /\ AssetsFromShares(s, TS, TA) \in Nat
         /\ AssetsFromShares(s, TS, TA) * TS <= s * TA
  <1>1. CASE s = 0 \/ TS = 0 \/ TA = 0
    BY <1>1 DEF AssetsFromShares
  <1>2. CASE s > 0 /\ TS > 0 /\ TA > 0
    <2>1. s * TA \in Nat
      OBVIOUS
    <2>2. AssetsFromShares(s, TS, TA) = (s * TA) \div TS
      BY <1>2 DEF AssetsFromShares
    <2> QED
      BY <1>2, <2>1, <2>2, DivBounds
  <1> QED
    BY <1>1, <1>2

\* No holding is worth more than all the assets.
LEMMA FullPay ==
  ASSUME NEW s \in Nat, NEW TS \in Nat, NEW TA \in Nat, s <= TS
  PROVE  AssetsFromShares(s, TS, TA) <= TA
  <1>1. CASE TS = 0
    BY <1>1 DEF AssetsFromShares
  <1>2. CASE TS > 0
    <2> DEFINE p == AssetsFromShares(s, TS, TA)
    <2>1. p \in Nat /\ p * TS <= s * TA
      BY FloorPays
    <2>2. s * TA <= TS * TA
      BY MulMono
    <2>3. p * TS < (TA + 1) * TS
      BY <1>2, <2>1, <2>2
    <2>4. p < TA + 1
      BY <2>1, <2>3, MulCancel
    <2> QED
      BY <2>1, <2>4
  <1> QED
    BY <1>1, <1>2

-----------------------------------------------------------------------------
(* The price of a share, TA per TS, as products. *)

\* A mint never lowers it ...
LEMMA MintKeepsPrice ==
  ASSUME NEW a \in Nat, NEW TS \in Nat \ {0}, NEW TA \in Nat
  PROVE  (TA + a) * TS >= TA * (TS + SharesFloor(a, TS, TA))
  <1> DEFINE m == SharesFloor(a, TS, TA)
  <1>1. m \in Nat /\ (TA > 0 => m * TA <= a * TS)
    BY FloorMints
  <1> HIDE DEF m
  <1>2. m * TA <= a * TS
    BY <1>1
  <1> QED
    BY <1>1, <1>2 DEF m

\* ... nor does a payout of no more than the burned shares' part.
LEMMA BurnKeepsPrice ==
  ASSUME NEW p \in Nat, NEW b \in Nat, NEW TS \in Nat, NEW TA \in Nat, p * TS <= b * TA
  PROVE  (TA - p) * TS >= TA * (TS - b)
  OBVIOUS

\* Two changes that do not lower it do not lower it together.
LEMMA PriceTransitive ==
  ASSUME NEW S1 \in Nat, NEW A1 \in Nat, NEW S2 \in Nat \ {0}, NEW A2 \in Nat,
         NEW S3 \in Nat, NEW A3 \in Nat, A2 * S1 >= A1 * S2, A3 * S2 >= A2 * S3
  PROVE  A3 * S1 >= A1 * S3
  <1>1. (A1 * S2) * S3 <= (A2 * S1) * S3
    BY MulMono
  <1>2. (A2 * S3) * S1 <= (A3 * S2) * S1
    BY MulMono
  <1>3. (A1 * S3) * S2 <= (A3 * S1) * S2
    BY <1>1, <1>2
  <1>4. SUFFICES ASSUME A3 * S1 < A1 * S3 PROVE FALSE
    OBVIOUS
  <1>5. A3 * S1 + 1 <= A1 * S3
    BY <1>4
  <1>6. (A3 * S1 + 1) * S2 <= (A1 * S3) * S2
    BY <1>5, MulMono
  <1> QED
    BY <1>3, <1>6

\* At a price of one or more a deposit mints at most a share for a unit ...
LEMMA MintedWithinDeposit ==
  ASSUME NEW a \in Nat, NEW TS \in Nat, NEW TA \in Nat, TS <= TA
  PROVE  SharesFloor(a, TS, TA) <= a
  <1> DEFINE m == SharesFloor(a, TS, TA)
  <1>1. CASE TS = 0 \/ TA = 0
    BY <1>1 DEF SharesFloor
  <1>2. CASE TS > 0 /\ TA > 0
    <2>1. m \in Nat /\ m * TA <= a * TS
      BY <1>2, FloorMints
    <2> HIDE DEF m
    <2>2. TS * a <= TA * a
      BY MulMono
    <2>3. m * TA < (a + 1) * TA
      BY <1>2, <2>1, <2>2
    <2>4. m < a + 1
      BY <2>1, <2>3, MulCancel
    <2> QED
      BY <2>1, <2>4 DEF m
  <1> QED
    BY <1>1, <1>2

\* ... and a burn leaves a unit for each share it leaves.
LEMMA BurnKeepsCover ==
  ASSUME NEW p \in Nat, NEW b \in Nat, NEW TS \in Nat \ {0}, NEW TA \in Nat,
         p * TS <= b * TA, b <= TS, TS <= TA
  PROVE  TA - p >= TS - b
  <1>1. (TA - p) * TS >= TA * (TS - b)
    BY BurnKeepsPrice
  <1>2. TS * (TS - b) <= TA * (TS - b)
    BY MulMono
  <1>3. SUFFICES ASSUME TA - p < TS - b PROVE FALSE
    OBVIOUS
  <1>4. (TA - p + 1) * TS <= (TS - b) * TS
    BY <1>3, MulMono
  <1> QED
    BY <1>1, <1>2, <1>4

\* What shares are worth does not fall with a price that does not fall.
LEMMA WorthNeverFalls ==
  ASSUME NEW s \in Nat, NEW t \in Nat, s <= t,
         NEW TS \in Nat, NEW TA \in Nat, NEW US \in Nat \ {0}, NEW UA \in Nat,
         UA * TS >= TA * US
  PROVE  AssetsFromShares(s, TS, TA) <= AssetsFromShares(t, US, UA)
  <1> DEFINE p == AssetsFromShares(s, TS, TA)
             q == AssetsFromShares(t, US, UA)
  <1>1. p \in Nat /\ p * TS <= s * TA /\ q \in Nat
    BY FloorPays
  <1>2. CASE p = 0
    BY <1>1, <1>2
  <1>3. CASE p > 0
    <2>1. s > 0 /\ TS > 0 /\ TA > 0
      BY <1>3 DEF AssetsFromShares
    <2>2. TA * US > 0
      BY <2>1
    <2>3. UA > 0 /\ t > 0
      BY <2>1, <2>2
    <2>4. q = (t * UA) \div US
      BY <2>3 DEF AssetsFromShares
    <2>5. t * UA < (q + 1) * US
      BY <2>4, DivBounds
    <2> HIDE DEF p, q
    <2>6. (p * TS) * US <= (s * TA) * US
      BY <1>1, MulMono
    <2>7. (TA * US) * s <= (UA * TS) * s
      BY MulMono
    <2>8. s * UA <= t * UA
      BY MulMono
    <2>9. (s * UA) * TS <= (t * UA) * TS
      BY <2>8, MulMono
    <2>10. (t * UA) + 1 <= (q + 1) * US
      BY <1>1, <2>5
    <2>11. ((t * UA) + 1) * TS <= ((q + 1) * US) * TS
      BY <1>1, <2>10, MulMono
    <2>12. (p * TS) * US + TS <= ((q + 1) * US) * TS
      BY <1>1, <2>6, <2>7, <2>9, <2>11
    <2>13. p * (TS * US) < (q + 1) * (TS * US)
      BY <1>1, <2>1, <2>12
    <2>14. p < q + 1
      BY <1>1, <2>13, MulCancel
    <2> QED
      BY <1>1, <2>14 DEF p, q
  <1> QED
    BY <1>1, <1>2, <1>3

\* A holding grows by no more than what was paid for it.
LEMMA MintedWorthAtMost ==
  ASSUME NEW a \in Nat, NEW TS \in Nat \ {0}, NEW TA \in Nat, NEW s \in Nat, s <= TS
  PROVE  LET m == SharesFloor(a, TS, TA)
         IN  AssetsFromShares(s + m, TS + m, TA + a) <= AssetsFromShares(s, TS, TA) + a
  <1> DEFINE m == SharesFloor(a, TS, TA)
             v == AssetsFromShares(s, TS, TA)
             w == AssetsFromShares(s + m, TS + m, TA + a)
  <1>1. m \in Nat /\ v \in Nat
    BY FloorMints, FloorPays
  <1>2. (TA + a) * TS >= TA * (TS + m)
    BY MintKeepsPrice
  <1>3. s * TA < (v + 1) * TS
    <2>1. CASE s = 0 \/ TA = 0
      BY <1>1, <2>1
    <2>2. CASE s > 0 /\ TA > 0
      <3>1. v = (s * TA) \div TS
        BY <2>2 DEF AssetsFromShares
      <3> QED
        BY <3>1, DivBounds
    <2> QED
      BY <2>1, <2>2
  <1> HIDE DEF m, v
  <1>4. w \in Nat /\ w * (TS + m) <= (s + m) * (TA + a)
    <2>1. s + m \in Nat /\ TS + m \in Nat /\ TA + a \in Nat
      BY <1>1
    <2> QED
      BY <2>1, FloorPays
  <1> HIDE DEF w
  <1>5. (TA * (TS + m)) * (TS - s) <= ((TA + a) * TS) * (TS - s)
    BY <1>1, <1>2, MulMono
  <1>6. (w * (TS + m)) * TS <= ((s + m) * (TA + a)) * TS
    BY <1>1, <1>4, MulMono
  <1>7. ((s + m) * (TA + a)) * TS <= (TS + m) * (a * TS + s * TA)
    BY <1>1, <1>5
  <1>8. a * TS + s * TA + 1 <= (a + v + 1) * TS
    BY <1>1, <1>3
  <1>9. (a * TS + s * TA + 1) * (TS + m) <= ((a + v + 1) * TS) * (TS + m)
    BY <1>1, <1>8, MulMono
  <1>10. (w * (TS + m)) * TS + (TS + m) <= ((a + v + 1) * TS) * (TS + m)
    BY <1>1, <1>4, <1>6, <1>7, <1>9
  <1>11. w * ((TS + m) * TS) < (a + v + 1) * ((TS + m) * TS)
    BY <1>1, <1>4, <1>10
  <1>12. w < a + v + 1
    BY <1>1, <1>4, <1>11, MulCancel
  <1> QED
    BY <1>1, <1>4, <1>12 DEF m, v, w

\* And by no less than what was paid for it, but for a share and a unit.
LEMMA MintedWorthAtLeast ==
  ASSUME NEW a \in Nat, NEW TS \in Nat, NEW TA \in Nat, NEW s \in Nat, s <= TS,
         TS > 0 => TA > 0, SharesFloor(a, TS, TA) > 0
  PROVE  LET m == SharesFloor(a, TS, TA)
             v == AssetsFromShares(s, TS, TA)
             w == AssetsFromShares(s + m, TS + m, TA + a)
         IN  (a - (w - v) - 1) * (TS + m) <= TA + a
  <1> DEFINE m == SharesFloor(a, TS, TA)
             v == AssetsFromShares(s, TS, TA)
             w == AssetsFromShares(s + m, TS + m, TA + a)
  <1>1. m \in Nat \ {0} /\ v \in Nat /\ w \in Nat /\ v * TS <= s * TA
    <2>1. m \in Nat \ {0}
      BY FloorMints
    <2> HIDE DEF m
    <2>2. s + m \in Nat /\ TS + m \in Nat /\ TA + a \in Nat
      BY <2>1
    <2>3. w \in Nat
      BY <2>2, FloorPays
    <2> QED
      BY <2>1, <2>3, FloorPays
  <1>2. a > 0
    <2>1. CASE TS = 0 \/ TA = 0
      BY <2>1 DEF SharesFloor
    <2>2. CASE TS > 0 /\ TA > 0
      <3>1. m * TA <= a * TS
        BY <2>2, FloorMints
      <3> HIDE DEF m
      <3>2. m * TA > 0
        BY <1>1, <2>2
      <3>3. a * TS > 0
        BY <1>1, <3>1, <3>2
      <3> QED
        BY <3>3
    <2> QED
      BY <2>1, <2>2
  <1>3. (s + m) * (TA + a) < (w + 1) * (TS + m)
    <2>1. w = ((s + m) * (TA + a)) \div (TS + m)
      BY <1>1, <1>2 DEF AssetsFromShares
    <2>2. (s + m) * (TA + a) \in Int /\ TS + m \in Nat \ {0}
      BY <1>1
    <2> QED
      BY <2>1, <2>2, DivBounds
  <1>4. (a + v) * (TS + m) <= (s + m + 1) * (TA + a)
    <2>1. CASE TS = 0
      <3>1. m = a /\ v = 0 /\ s = 0
        BY <2>1 DEF SharesFloor, AssetsFromShares
      <3> QED
        BY <2>1, <3>1
    <2>2. CASE TS > 0
      <3>1. m = (a * TS) \div TA /\ TA > 0
        BY <2>2 DEF SharesFloor
      <3>2. a * TS < (m + 1) * TA
        BY <3>1, DivBounds
      <3>3. (TA + a) * TS >= TA * (TS + m)
        BY <2>2, MintKeepsPrice
      <3> HIDE DEF m, v, w
      <3>4. (v * TS) * (TS + m) <= (s * TA) * (TS + m)
        BY <1>1, MulMono
      <3>5. (TA * (TS + m)) * s <= ((TA + a) * TS) * s
        BY <1>1, <3>3, MulMono
      <3>6. (v * (TS + m)) * TS <= (s * (TA + a)) * TS
        BY <1>1, <3>4, <3>5
      <3>7. v * (TS + m) <= s * (TA + a)
        <4>1. SUFFICES ASSUME s * (TA + a) < v * (TS + m) PROVE FALSE
          BY <1>1
        <4>2. (s * (TA + a) + 1) * TS <= (v * (TS + m)) * TS
          BY <1>1, <4>1, MulMono
        <4> QED
          BY <1>1, <2>2, <3>6, <4>2
      <3>8. a * (TS + m) <= (m + 1) * (TA + a)
        BY <1>1, <3>2
      <3> QED
        BY <1>1, <3>7, <3>8
    <2> QED
      BY <2>1, <2>2
  <1> HIDE DEF m, v, w
  <1>5. (a + v) * (TS + m) <= (w + 1) * (TS + m) + (TA + a)
    BY <1>1, <1>3, <1>4
  <1>6. (a - (w - v) - 1) * (TS + m) <= TA + a
    BY <1>1, <1>5
  <1> QED
    BY <1>6 DEF m, v, w

-----------------------------------------------------------------------------
(* What follows for a caller. *)

\* Depositing and redeeming at once never returns more than was paid in: the
\* mint rounds down and so does the payout on the totals after the deposit.
THEOREM RoundTripNeverProfits ==
  ASSUME NEW a \in Nat, NEW TS \in Nat \ {0}, NEW TA \in Nat \ {0}
  PROVE  LET m == SharesFloor(a, TS, TA)
         IN  AssetsFromShares(m, TS + m, TA + a) <= a
  <1> DEFINE m == SharesFloor(a, TS, TA)
             p == AssetsFromShares(m, TS + m, TA + a)
  <1>1. m \in Nat /\ m * TA <= a * TS
    BY FloorMints
  <1>2. p \in Nat /\ p * (TS + m) <= m * (TA + a)
    <2>1. TS + m \in Nat /\ TA + a \in Nat
      BY <1>1
    <2> QED
      BY <1>1, <2>1, FloorPays
  <1>3. m * (TA + a) <= a * (TS + m)
    BY <1>1
  <1>4. p * (TS + m) < (a + 1) * (TS + m)
    BY <1>1, <1>2, <1>3
  <1>5. p < a + 1
    BY <1>1, <1>2, <1>4, MulCancel
  <1> QED
    BY <1>2, <1>5

\* Asking for a and being paid what the burned shares are worth never takes
\* more than the burned shares' part of the assets, so those who stay lose
\* nothing to a withdrawal.
THEOREM WithdrawalPaysFromItsShares ==
  ASSUME NEW a \in Nat, NEW TS \in Nat \ {0}, NEW TA \in Nat \ {0},
         SharesCeil(a, TS, TA) <= TS
  PROVE  LET b == SharesCeil(a, TS, TA)
             p == AssetsFromShares(b, TS, TA)
         IN  /\ a <= p
             /\ (TA - p) * TS >= TA * (TS - b)
  <1> DEFINE b == SharesCeil(a, TS, TA)
             p == AssetsFromShares(b, TS, TA)
  <1>1. b \in Nat /\ a * TS <= b * TA
    BY CeilBurns
  <1>2. p \in Nat /\ p * TS <= b * TA
    BY <1>1, FloorPays
  <1>3. a <= p
    <2>1. CASE b = 0
      <3>1. a * TS < (0 + 1) * TS
        BY <1>1, <2>1
      <3> QED
        BY <1>2, <3>1, MulCancel
    <2>2. CASE b > 0
      <3>1. b * TA \in Nat
        BY <1>1
      <3>2. p = (b * TA) \div TS
        BY <2>2 DEF AssetsFromShares
      <3>3. b * TA < (p + 1) * TS
        BY <3>1, <3>2, DivBounds
      <3>4. a * TS < (p + 1) * TS
        BY <1>1, <1>2, <3>1, <3>3
      <3>5. a < p + 1
        BY <1>2, <3>4, MulCancel
      <3> QED
        BY <1>2, <3>5
    <2> QED
      BY <1>1, <2>1, <2>2
  <1>4. (TA - p) * TS >= TA * (TS - b)
    BY <1>1, <1>2
  <1> QED
    BY <1>3, <1>4

-----------------------------------------------------------------------------
(***************************************************************************)
(* Sums over a finite set, as the invariants write them: the fold of the    *)
(* community modules adds the values of a function in an order of its own   *)
(* choosing.  Induction over the subsets is done with the minimal member of *)
(* the family of counterexamples.                                          *)
(***************************************************************************)

\* The sum of the values of a function, as the invariants write it.
Total(f) == FoldFunction(LAMBDA m, n : m + n, 0, f)

\* The element a fold takes next, and the function it computes on the way.
Pick(s) == CHOOSE x \in s : TRUE
Iterates(f, D, g) ==
  g = [s \in SUBSET D |-> IF s = {} THEN 0 ELSE f[Pick(s)] + g[s \ {Pick(s)}]]

\* A non-empty family of subsets of a finite set has a minimal member.
LEMMA MinimalSubset ==
  ASSUME NEW D, IsFiniteSet(D), NEW B, B \subseteq SUBSET D, B # {}
  PROVE  \E T \in B : \A U \in B : U \subseteq T => U = T
  <1> DEFINE R == StrictSubsetOrdering(D)
  <1>1. IsWellFoundedOn(R, SUBSET D)
    BY FS_StrictSubsetOrderingWellFounded, FS_FiniteSubsetsOfFinite
  <1> HIDE DEF R
  <1>2. PICK T \in B : \A U \in B : ~(<<U, T>> \in R)
    BY <1>1, WFMin
  <1>3. ASSUME NEW U \in B, U \subseteq T, U # T
        PROVE  FALSE
    <2>1. <<U, T>> \in R
      BY <1>3 DEF R, StrictSubsetOrdering
    <2> QED
      BY <1>2, <2>1
  <1> QED
    BY <1>3

LEMMA IteratesValue ==
  ASSUME NEW f, NEW D, NEW g, Iterates(f, D, g), NEW s, s \subseteq D
  PROVE  /\ s = {} => g[s] = 0
         /\ s # {} => /\ Pick(s) \in s
                      /\ g[s] = f[Pick(s)] + g[s \ {Pick(s)}]
  <1>1. s # {} => Pick(s) \in s
    BY DEF Pick
  <1> QED
    BY <1>1 DEF Iterates

\* The value for a set does not depend on how far the iteration goes.
LEMMA IteratesAgree ==
  ASSUME NEW f, NEW D, IsFiniteSet(D), NEW E, E \subseteq D, NEW g, NEW h,
         Iterates(f, D, g), Iterates(f, E, h)
  PROVE  \A s \in SUBSET E : g[s] = h[s]
  <1> DEFINE B == {s \in SUBSET E : g[s] # h[s]}
  <1>1. SUFFICES ASSUME B # {} PROVE FALSE
    OBVIOUS
  <1>2. B \subseteq SUBSET D
    OBVIOUS
  <1>3. PICK T \in B : \A U \in B : U \subseteq T => U = T
    <2> HIDE DEF B
    <2> QED
      BY <1>1, <1>2, MinimalSubset
  <1>4. T \subseteq E /\ T \subseteq D /\ g[T] # h[T]
    BY <1>3
  <1>5. T # {}
    BY <1>4, IteratesValue
  <1> DEFINE r == T \ {Pick(T)}
  <1>6. Pick(T) \in T
    BY <1>5 DEF Pick
  <1>7. g[T] = f[Pick(T)] + g[r] /\ h[T] = f[Pick(T)] + h[r]
    BY <1>4, <1>5, IteratesValue
  <1>8. r \notin B
    BY <1>3, <1>6
  <1>9. r \in SUBSET E
    BY <1>4
  <1>10. g[r] = h[r]
    BY <1>8, <1>9
  <1> QED
    BY <1>4, <1>7, <1>10

LEMMA IteratesExists ==
  ASSUME NEW f, NEW D, IsFiniteSet(D)
  PROVE  \E g : Iterates(f, D, g)
  <1> DEFINE B == {T \in SUBSET D : ~ \E g : Iterates(f, T, g)}
  <1>1. SUFFICES ASSUME B # {} PROVE FALSE
    OBVIOUS
  <1>2. B \subseteq SUBSET D
    OBVIOUS
  <1>3. PICK T \in B : \A U \in B : U \subseteq T => U = T
    <2> HIDE DEF B
    <2> QED
      BY <1>1, <1>2, MinimalSubset
  <1>4. T \subseteq D /\ IsFiniteSet(T)
    BY <1>3, FS_Subset
  <1> DEFINE G(U) == CHOOSE g : Iterates(f, U, g)
             rest(s) == s \ {Pick(s)}
             g == [s \in SUBSET T |-> IF s = {} THEN 0
                                      ELSE f[Pick(s)] + G(rest(s))[rest(s)]]
  <1>5. ASSUME NEW U, U \subseteq T, U # T
        PROVE  Iterates(f, U, G(U)) /\ IsFiniteSet(U)
    <2>1. U \in SUBSET D /\ U \notin B
      BY <1>3, <1>4, <1>5
    <2>2. \E h : Iterates(f, U, h)
      BY <2>1
    <2> QED
      BY <1>4, <1>5, <2>2, FS_Subset
  <1>6. ASSUME NEW s, s \subseteq T, s # {}
        PROVE  rest(s) \subseteq T /\ rest(s) # T /\ Pick(s) \in s /\ rest(s) # s
    <2>1. Pick(s) \in s
      BY <1>6 DEF Pick
    <2> QED
      BY <1>6, <2>1
  <1>7. ASSUME NEW s, s \subseteq T, s # T
        PROVE  g[s] = G(s)[s]
    <2>1. Iterates(f, s, G(s)) /\ IsFiniteSet(s)
      BY <1>5, <1>7
    <2>2. CASE s = {}
      BY <2>1, <2>2, IteratesValue
    <2>3. CASE s # {}
      <3> DEFINE r == rest(s)
      <3>1. r \subseteq s /\ r \subseteq T /\ r # T
        BY <1>6, <1>7, <2>3
      <3>2. Iterates(f, r, G(r))
        BY <1>5, <3>1
      <3>3. G(s)[r] = G(r)[r]
        <4> HIDE DEF r, G
        <4> QED
          BY <2>1, <3>1, <3>2, IteratesAgree
      <3>4. G(s)[s] = f[Pick(s)] + G(s)[r]
        BY <2>1, <2>3, IteratesValue
      <3>5. g[s] = f[Pick(s)] + G(r)[r]
        BY <1>7, <2>3
      <3> QED
        BY <3>3, <3>4, <3>5
    <2> QED
      BY <2>2, <2>3
  <1>8. Iterates(f, T, g)
    <2>1. ASSUME NEW s \in SUBSET T, s # {}
          PROVE  G(rest(s))[rest(s)] = g[rest(s)]
      <3>1. rest(s) \subseteq T /\ rest(s) # T
        BY <1>6, <2>1
      <3> HIDE DEF rest, g, G
      <3> QED
        BY <1>7, <3>1
    <2>2. ASSUME NEW s \in SUBSET T
          PROVE  g[s] = IF s = {} THEN 0 ELSE f[Pick(s)] + g[rest(s)]
      <3>1. g[s] = IF s = {} THEN 0 ELSE f[Pick(s)] + G(rest(s))[rest(s)]
        OBVIOUS
      <3> HIDE DEF g, rest, G
      <3> QED
        BY <2>1, <3>1
    <2> DEFINE h == [s \in SUBSET T |-> IF s = {} THEN 0 ELSE f[Pick(s)] + g[rest(s)]]
    <2>3. g = h
      <3>1. \A s \in SUBSET T : g[s] = h[s]
        <4>1. \A s \in SUBSET T : h[s] = IF s = {} THEN 0 ELSE f[Pick(s)] + g[rest(s)]
          OBVIOUS
        <4> HIDE DEF g, rest, G, h
        <4> QED
          BY <2>2, <4>1
      <3>2. DOMAIN g = SUBSET T /\ DOMAIN h = SUBSET T
        OBVIOUS
      <3>3. g = [s \in SUBSET T |-> g[s]] /\ h = [s \in SUBSET T |-> h[s]]
        OBVIOUS
      <3> HIDE DEF g, h
      <3> QED
        BY <3>1, <3>3
    <2> QED
      BY <2>3 DEF Iterates
  <1> HIDE DEF g
  <1> QED
    BY <1>3, <1>8

\* What the fold computes.
LEMMA TotalIterates ==
  ASSUME NEW f, NEW D, IsFiniteSet(D), DOMAIN f = D
  PROVE  \E g : Iterates(f, D, g) /\ Total(f) = g[D]
  <1> DEFINE g == CHOOSE g : Iterates(f, D, g)
  <1>1. Total(f) = g[D]
    BY Zenon DEF Total, FoldFunction, FoldFunctionOnSet, MapThenFoldSet, Iterates, Pick
  <1>2. Iterates(f, D, g)
    BY IteratesExists
  <1> HIDE DEF g
  <1> QED
    BY <1>1, <1>2


IntegersOn(D, f) == \A x \in D : f[x] \in Int
AnyOrder(f, D, g) ==
  \A s \in SUBSET D : g[s] \in Int /\ \A y \in s : g[s] = f[y] + g[s \ {y}]

\* The elements may be taken in any order.
LEMMA IteratesAny ==
  ASSUME NEW D, IsFiniteSet(D), NEW f, IntegersOn(D, f), NEW g,
         Iterates(f, D, g)
  PROVE  AnyOrder(f, D, g)
  <1> DEFINE Good(s) == g[s] \in Int /\ \A y \in s : g[s] = f[y] + g[s \ {y}]
             B == {s \in SUBSET D : ~Good(s)}
  <1>1. SUFFICES ASSUME B # {} PROVE FALSE
    BY DEF AnyOrder
  <1>2. B \subseteq SUBSET D
    OBVIOUS
  <1>3. PICK T \in B : \A U \in B : U \subseteq T => U = T
    <2> HIDE DEF B
    <2> QED
      BY <1>1, <1>2, MinimalSubset
  <1>4. T \subseteq D /\ ~Good(T)
    BY <1>3
  <1>5. ASSUME NEW U, U \subseteq T, U # T
        PROVE  Good(U)
    <2>1. U \in SUBSET D /\ U \notin B
      BY <1>3, <1>4, <1>5
    <2> HIDE DEF Good
    <2> QED
      BY <2>1
  <1> HIDE DEF B
  <1>6. T # {}
    <2>1. SUFFICES ASSUME T = {} PROVE FALSE
      OBVIOUS
    <2>2. g[T] = 0
      <3> HIDE DEF Good
      <3> QED
        BY <1>4, <2>1, IteratesValue
    <2> QED
      BY <1>4, <2>1, <2>2
  <1> HIDE DEF Good
  <1> DEFINE x == Pick(T)
             r == T \ {x}
  <1>7. x \in T /\ g[T] = f[x] + g[r]
    <2>1. T \subseteq D /\ Iterates(f, D, g)
      BY <1>4
    <2> HIDE DEF B
    <2>2. Pick(T) \in T
      BY <1>6 DEF Pick
    <2>3. g[T] = f[Pick(T)] + g[T \ {Pick(T)}]
      BY <1>6, <2>1 DEF Iterates
    <2> QED
      BY <2>2, <2>3
  <1> HIDE DEF x
  <1>8. Good(r) /\ f[x] \in Int
    BY <1>4, <1>5, <1>7 DEF IntegersOn
  <1>9. g[T] \in Int
    BY <1>7, <1>8 DEF Good
  <1>10. ASSUME NEW y \in T, y # x
         PROVE  g[T] = f[y] + g[T \ {y}]
    <2> DEFINE q == T \ {y}
               o == T \ {x, y}
    <2>1. r \ {y} = o /\ q \ {x} = o /\ y \in r /\ x \in q
      BY <1>7, <1>10
    <2>2. Good(q) /\ Good(o) /\ f[y] \in Int
      BY <1>4, <1>5, <1>10 DEF IntegersOn
    <2>3. g[r] = f[y] + g[o] /\ g[q] = f[x] + g[o] /\ g[o] \in Int
      BY <1>8, <2>1, <2>2 DEF Good
    <2> HIDE DEF q, o, r
    <2>4. g[T] = f[x] + (f[y] + g[o])
      BY <1>7, <2>3
    <2> QED
      BY <1>8, <2>2, <2>3, <2>4 DEF q
  <1> QED
    BY <1>4, <1>7, <1>9, <1>10 DEF Good

\* The total of natural numbers is one, and none of them exceeds it.
LEMMA TotalBounds ==
  ASSUME NEW D, IsFiniteSet(D), NEW f \in [D -> Nat]
  PROVE  /\ Total(f) \in Nat
         /\ \A x \in D : f[x] <= Total(f)
  <1>1. PICK g : Iterates(f, D, g) /\ Total(f) = g[D]
    BY TotalIterates
  <1>2. AnyOrder(f, D, g)
    <2>1. IntegersOn(D, f)
      BY DEF IntegersOn
    <2> QED
      BY <1>1, <2>1, IteratesAny
  <1> DEFINE B == {s \in SUBSET D : ~(g[s] >= 0)}
  <1>3. B = {}
    <2>1. SUFFICES ASSUME B # {} PROVE FALSE
      OBVIOUS
    <2>2. B \subseteq SUBSET D
      OBVIOUS
    <2>3. PICK T \in B : \A U \in B : U \subseteq T => U = T
      <3> HIDE DEF B
      <3> QED
        BY <2>1, <2>2, MinimalSubset
    <2>4. CASE T = {}
      <3>1. g[T] = 0
        BY <1>1, <2>4, IteratesValue
      <3> QED
        BY <2>3, <3>1
    <2>5. CASE T # {}
      <3>1. PICK y \in T : TRUE
        BY <2>5
      <3>2. T \ {y} \in SUBSET D /\ T \ {y} \notin B
        BY <2>3, <3>1
      <3>3. g[T] = f[y] + g[T \ {y}] /\ f[y] \in Nat /\ g[T \ {y}] \in Int
        BY <1>2, <2>3, <3>1, <3>2 DEF AnyOrder
      <3> QED
        BY <2>3, <3>2, <3>3
    <2> QED
      BY <2>4, <2>5
  <1>4. \A s \in SUBSET D : g[s] \in Nat
    BY <1>2, <1>3 DEF AnyOrder
  <1>5. ASSUME NEW x \in D
        PROVE  f[x] <= g[D]
    <2>1. g[D] = f[x] + g[D \ {x}] /\ g[D \ {x}] \in Nat
      BY <1>2, <1>4 DEF AnyOrder
    <2> QED
      BY <2>1
  <1> QED
    BY <1>1, <1>4, <1>5

\* Two functions that agree on a set have the same total over it.
LEMMA IteratesSame ==
  ASSUME NEW D, IsFiniteSet(D), NEW E, IsFiniteSet(E), NEW f, NEW h, NEW g, NEW k,
         Iterates(f, D, g), Iterates(h, E, k),
         NEW S, S \subseteq D, S \subseteq E, \A x \in S : f[x] = h[x]
  PROVE  g[S] = k[S]
  <1> DEFINE B == {s \in SUBSET S : g[s] # k[s]}
  <1>1. SUFFICES ASSUME B # {} PROVE FALSE
    OBVIOUS
  <1>2. B \subseteq SUBSET D
    OBVIOUS
  <1>3. PICK T \in B : \A U \in B : U \subseteq T => U = T
    <2> HIDE DEF B
    <2> QED
      BY <1>1, <1>2, MinimalSubset
  <1>4. T \subseteq S /\ T \subseteq D /\ T \subseteq E /\ g[T] # k[T]
    BY <1>3
  <1>5. T # {}
    BY <1>4, IteratesValue
  <1> DEFINE x == Pick(T)
             r == T \ {x}
  <1>6. x \in T /\ g[T] = f[x] + g[r] /\ k[T] = h[x] + k[r]
    BY <1>4, <1>5, IteratesValue
  <1>7. g[r] = k[r] /\ f[x] = h[x]
    <2>1. r \notin B
      BY <1>3, <1>6
    <2> QED
      BY <1>4, <1>6, <2>1
  <1> QED
    BY <1>4, <1>6, <1>7

\* Nothing held, nothing in total.
LEMMA TotalOfNothing ==
  ASSUME NEW D, IsFiniteSet(D), NEW f \in [D -> Int], \A x \in D : f[x] = 0
  PROVE  Total(f) = 0
  <1>1. PICK g : Iterates(f, D, g) /\ Total(f) = g[D]
    BY TotalIterates
  <1> DEFINE B == {s \in SUBSET D : g[s] # 0}
  <1>2. SUFFICES ASSUME B # {} PROVE FALSE
    BY <1>1
  <1>3. B \subseteq SUBSET D
    OBVIOUS
  <1>4. PICK T \in B : \A U \in B : U \subseteq T => U = T
    <2> HIDE DEF B
    <2> QED
      BY <1>2, <1>3, MinimalSubset
  <1>5. T # {} /\ T \subseteq D
    BY <1>1, <1>4, IteratesValue
  <1> DEFINE x == Pick(T)
             r == T \ {x}
  <1>6. x \in T /\ g[T] = f[x] + g[r]
    <2> HIDE DEF B
    <2> QED
      BY <1>1, <1>5, IteratesValue
  <1>7. r \notin B /\ r \in SUBSET D
    BY <1>4, <1>5, <1>6
  <1> QED
    BY <1>4, <1>5, <1>6, <1>7

\* An element adds its value.
LEMMA TotalWithout ==
  ASSUME NEW D, IsFiniteSet(D), NEW f \in [D -> Int], NEW u \in D
  PROVE  /\ Total(f) \in Int
         /\ Total(f) = f[u] + Total([x \in D \ {u} |-> f[x]])
  <1>1. PICK g : Iterates(f, D, g) /\ Total(f) = g[D]
    BY TotalIterates
  <1>2. AnyOrder(f, D, g)
    <2>1. IntegersOn(D, f)
      BY DEF IntegersOn
    <2> QED
      BY <1>1, <2>1, IteratesAny
  <1> DEFINE E == D \ {u}
             h == [x \in E |-> f[x]]
  <1>3. IsFiniteSet(E)
    BY FS_RemoveElement
  <1>4. PICK k : Iterates(h, E, k) /\ Total(h) = k[E]
    BY <1>3, TotalIterates
  <1>5. g[E] = k[E]
    <2>1. \A x \in E : f[x] = h[x]
      OBVIOUS
    <2>2. E \subseteq D /\ E \subseteq E
      OBVIOUS
    <2> HIDE DEF E, h
    <2> QED
      BY <1>1, <1>3, <1>4, <2>1, <2>2, IteratesSame
  <1>6. g[D] \in Int /\ g[D] = f[u] + g[E]
    BY <1>2 DEF AnyOrder
  <1> QED
    BY <1>1, <1>4, <1>5, <1>6

\* Changing one value changes the total by as much.
LEMMA TotalAfterChange ==
  ASSUME NEW D, IsFiniteSet(D), NEW f \in [D -> Int], NEW u \in D, NEW n \in Int
  PROVE  Total([f EXCEPT ![u] = n]) = Total(f) + (n - f[u])
  <1> DEFINE h == [f EXCEPT ![u] = n]
             t == Total([x \in D \ {u} |-> f[x]])
  <1>1. h \in [D -> Int] /\ h[u] = n /\ f[u] \in Int
    OBVIOUS
  <1>2. [x \in D \ {u} |-> h[x]] = [x \in D \ {u} |-> f[x]]
    OBVIOUS
  <1>3. Total(f) = f[u] + t /\ Total(f) \in Int
    <2>1. Total(f) = f[u] + Total([x \in D \ {u} |-> f[x]]) /\ Total(f) \in Int
      BY TotalWithout
    <2> QED
      BY <2>1
  <1>4. Total(h) = h[u] + t /\ Total(h) \in Int
    <2>1. Total(h) = h[u] + Total([x \in D \ {u} |-> h[x]]) /\ Total(h) \in Int
      <3> HIDE DEF h
      <3> QED
        BY <1>1, TotalWithout
    <2> QED
      BY <1>2, <2>1
  <1>5. t \in Int
    <2>1. [x \in D \ {u} |-> f[x]] \in [D \ {u} -> Int] /\ IsFiniteSet(D \ {u})
      BY FS_RemoveElement
    <2>2. CASE D \ {u} = {}
      BY <2>1, <2>2, TotalOfNothing
    <2>3. CASE D \ {u} # {}
      BY <2>1, <2>3, TotalWithout
    <2> QED
      BY <2>2, <2>3
  <1> HIDE DEF h, t
  <1> QED
    BY <1>1, <1>3, <1>4, <1>5 DEF h

-----------------------------------------------------------------------------
(***************************************************************************)
(* No leg between the vault and its venues creates or loses USDC, whatever *)
(* a venue withholds: each takes a typed record to a typed record with the *)
(* same custody.                                                           *)
(***************************************************************************)

Flows == [Venues -> Nat]

\* g is reached from f by moving USDC between the vault and the venues.
Moved(f, g) == g \in FundsType /\ Custody(g) = Custody(f)

LEMMA MovedTransitive ==
  ASSUME NEW f, NEW g, NEW h, Moved(f, g), Moved(g, h)
  PROVE  Moved(f, h)
  BY DEF Moved

LEMMA MovedReflexive ==
  ASSUME NEW f \in FundsType
  PROVE  Moved(f, f)
  BY DEF Moved

\* A supply of at most the idle balance.
LEMMA SupplyMoves ==
  ASSUME NEW f \in FundsType, NEW v \in Venues, NEW takes \in Flows,
         NEW asked \in Int, asked <= f.idle
  PROVE  LET g == SupplyTo(f, v, asked, takes)
         IN  Moved(f, g) /\ g.idle <= f.idle
  <1> DEFINE n == Lesser(asked, takes[v])
  <1>1. n \in Int /\ n <= f.idle
    BY DEF Lesser, Flows, FundsType
  <1>2. CASE n <= 0
    BY <1>2 DEF SupplyTo, Moved, FundsType
  <1>3. CASE n > 0
    <2> DEFINE g == [f EXCEPT !.idle = @ - n, !.pool[v] = @ + n, !.protocol = v]
    <2>1. SupplyTo(f, v, asked, takes) = g
      BY <1>1, <1>3 DEF SupplyTo
    <2> HIDE DEF n
    <2> DEFINE pool == [f.pool EXCEPT ![v] = f.pool[v] + n]
               next == v
    <2>2. g \in FundsType
      <3>1. f.idle - n \in Nat /\ f.pool[v] + n \in Nat
        BY <1>1, <1>3 DEF FundsType
      <3>2. pool \in [Venues -> Nat] /\ next \in Protocols
        BY <3>1 DEF FundsType, Protocols
      <3>3. g = [f EXCEPT !.idle = f.idle - n, !.pool = pool, !.protocol = next]
        BY DEF FundsType
      <3> QED
        BY <3>1, <3>2, <3>3 DEF FundsType
    <2>3. Custody(g) = Custody(f) /\ g.idle <= f.idle
      BY <1>1, <1>3 DEF FundsType, Custody, Deployed, Venues
    <2> QED
      BY <2>1, <2>2, <2>3 DEF Moved
  <1> QED
    BY <1>1, <1>2, <1>3

\* A withdrawal of whatever amount; the vault's own balance never shrinks.
LEMMA WithdrawMoves ==
  ASSUME NEW f \in FundsType, NEW v \in Venues, NEW pays \in Flows,
         NEW asked \in Int
  PROVE  LET g == WithdrawFrom(f, v, asked, pays)
         IN  Moved(f, g) /\ g.idle >= f.idle
  <1> DEFINE n == Lesser(Lesser(asked, f.pool[v]), pays[v])
  <1>1. n \in Int /\ n <= f.pool[v]
    BY DEF Lesser, Flows, FundsType
  <1>2. CASE n <= 0
    BY <1>2 DEF WithdrawFrom, Moved, FundsType
  <1>3. CASE n > 0
    <2> DEFINE g == [f EXCEPT !.idle = @ + n, !.pool[v] = @ - n,
                              !.protocol = IF f.pool[v] = n THEN "none" ELSE @]
    <2>1. WithdrawFrom(f, v, asked, pays) = g
      BY <1>1, <1>3 DEF WithdrawFrom
    <2> HIDE DEF n
    <2> DEFINE pool == [f.pool EXCEPT ![v] = f.pool[v] - n]
               next == IF f.pool[v] = n THEN "none" ELSE f.protocol
    <2>2. g \in FundsType
      <3>1. f.idle + n \in Nat /\ f.pool[v] - n \in Nat
        BY <1>1, <1>3 DEF FundsType
      <3>2. pool \in [Venues -> Nat] /\ next \in Protocols
        BY <3>1 DEF FundsType, Protocols
      <3>3. g = [f EXCEPT !.idle = f.idle + n, !.pool = pool, !.protocol = next]
        BY DEF FundsType
      <3> QED
        BY <3>1, <3>2, <3>3 DEF FundsType
    <2>3. Custody(g) = Custody(f) /\ g.idle >= f.idle
      BY <1>1, <1>3 DEF FundsType, Custody, Deployed, Venues
    <2> QED
      BY <2>1, <2>2, <2>3 DEF Moved
  <1> QED
    BY <1>1, <1>2, <1>3

\* Writing the trackers and the summary moves nothing.
LEMMA SyncMoves ==
  ASSUME NEW f \in FundsType
  PROVE  /\ Moved(f, Sync(f)) /\ Sync(f).idle = f.idle
         /\ Moved(f, SyncSummary(f)) /\ SyncSummary(f).idle = f.idle
  <1>1. DeriveSummary(f.pool) \in Protocols
    <2>1. f.pool["blend"] \in Nat /\ f.pool["dex"] \in Nat
      BY DEF FundsType, Venues
    <2> QED
      BY <2>1 DEF DeriveSummary, Protocols, Venues
  <1> QED
    BY <1>1 DEF Sync, SyncSummary, Moved, FundsType, Custody

\* Two withdrawals, one per venue, and the bookkeeping after them.
LEMMA BothWithdrawMoves ==
  ASSUME NEW f \in FundsType, NEW pays \in Flows, NEW a \in Int, NEW b \in Int
  PROVE  LET g == WithdrawFrom(WithdrawFrom(f, "blend", a, pays), "dex", b, pays)
         IN  Moved(f, g) /\ g.idle >= f.idle
  <1> DEFINE m == WithdrawFrom(f, "blend", a, pays)
             g == WithdrawFrom(m, "dex", b, pays)
  <1>1. Moved(f, m) /\ m.idle >= f.idle
    BY WithdrawMoves DEF Venues
  <1>2. m \in FundsType
    BY <1>1 DEF Moved
  <1> HIDE DEF m
  <1>3. Moved(m, g) /\ g.idle >= m.idle
    BY <1>2, WithdrawMoves DEF Venues
  <1>4. Moved(f, g) /\ f.idle \in Nat /\ m.idle \in Nat /\ g.idle \in Nat
    BY <1>1, <1>2, <1>3, MovedTransitive DEF Moved, FundsType
  <1> HIDE DEF g
  <1>5. g.idle >= f.idle
    BY <1>1, <1>3, <1>4
  <1> QED
    BY <1>4, <1>5 DEF m, g

\* Leaving a venue altogether.
LEMMA ExitMoves ==
  ASSUME NEW f \in FundsType, NEW v \in Venues, NEW pays \in Flows
  PROVE  LET g == Exit(f, v, pays) IN Moved(f, g) /\ g.idle >= f.idle
  <1>1. f.pool[v] \in Int
    BY DEF FundsType
  <1> QED
    BY <1>1, WithdrawMoves DEF Exit

\* withdraw_from_protocol, whichever protocol is named.
LEMMA WithdrawFromProtocolMoves ==
  ASSUME NEW f \in FundsType, NEW p \in Protocols, NEW pays \in Flows
  PROVE  LET g == WithdrawFromProtocol(f, p, pays)
         IN  Moved(f, g) /\ g.idle >= f.idle
  <1>1. CASE f.protocol # p \/ p = "none"
    <2>1. WithdrawFromProtocol(f, p, pays) = f
      BY <1>1 DEF WithdrawFromProtocol, Venues
    <2> QED
      BY <2>1, MovedReflexive DEF FundsType
  <1>2. CASE f.protocol = p /\ p \in Venues
    <2>1. WithdrawFromProtocol(f, p, pays) = Exit(f, p, pays)
      BY <1>2 DEF WithdrawFromProtocol, Venues
    <2> QED
      BY <1>2, <2>1, ExitMoves
  <1>3. CASE f.protocol = p /\ p = "multi"
    <2> DEFINE m == Exit(f, "blend", pays)
               g == Exit(m, "dex", pays)
    <2>1. Moved(f, m) /\ m.idle >= f.idle
      BY ExitMoves DEF Venues
    <2>2. m \in FundsType
      BY <2>1 DEF Moved
    <2> HIDE DEF m
    <2>3. Moved(m, g) /\ g.idle >= m.idle
      BY <2>2, ExitMoves DEF Venues
    <2>4. Moved(f, g) /\ g \in FundsType
      BY <2>1, <2>3, MovedTransitive DEF Moved
    <2> HIDE DEF g
    <2>5. Moved(g, SyncSummary(g)) /\ SyncSummary(g).idle = g.idle
      BY <2>4, SyncMoves
    <2>6. f.idle \in Nat /\ m.idle \in Nat /\ g.idle \in Nat
      BY <2>2, <2>4 DEF FundsType
    <2>7. Moved(f, SyncSummary(g)) /\ SyncSummary(g).idle >= f.idle
      BY <2>1, <2>3, <2>4, <2>5, <2>6, MovedTransitive
    <2>8. WithdrawFromProtocol(f, p, pays) = SyncSummary(g)
      BY <1>3 DEF WithdrawFromProtocol, Venues, g, m
    <2> QED
      BY <2>7, <2>8
  <1> QED
    BY <1>1, <1>2, <1>3 DEF Protocols

\* withdraw_proportionally asks both venues for whole amounts.
LEMMA ProportionalAskType ==
  ASSUME NEW pool \in Flows, NEW needed \in Nat, Deployed(pool) > 0
  PROVE  ProportionalAsk(pool, needed) \in [Venues -> Int]
  <1> DEFINE target    == Lesser(needed, Deployed(pool))
             fromBlend == (target * pool["blend"]) \div Deployed(pool)
  <1>1. pool["blend"] \in Nat /\ pool["dex"] \in Nat /\ Deployed(pool) \in Nat \ {0}
    BY DEF Flows, Venues, Deployed
  <1>2. target \in Nat /\ target * pool["blend"] \in Nat
    BY <1>1 DEF Lesser
  <1>3. fromBlend \in Int
    BY <1>1, <1>2, DivBounds
  <1> HIDE DEF target, fromBlend
  <1>4. Lesser(target - fromBlend, pool["dex"]) \in Int
    BY <1>1, <1>2, <1>3 DEF Lesser
  <1>5. Lesser(target - Lesser(target - fromBlend, pool["dex"]), pool["blend"]) \in Int
    BY <1>1, <1>2, <1>4 DEF Lesser
  <1> QED
    BY <1>4, <1>5 DEF ProportionalAsk, target, fromBlend

\* withdraw_amount_from_protocol: the recall of a withdrawal.
LEMMA WithdrawAmountMoves ==
  ASSUME NEW f \in FundsType, NEW p \in Protocols, NEW amount \in Nat,
         NEW pays \in Flows
  PROVE  LET g == WithdrawAmountFromProtocol(f, p, amount, pays)
         IN  Moved(f, g) /\ g.idle >= f.idle
  <1>1. CASE p = "none"
    BY <1>1, MovedReflexive DEF WithdrawAmountFromProtocol, Venues, FundsType
  <1>2. CASE p \in Venues
    <2>1. WithdrawAmountFromProtocol(f, p, amount, pays) = WithdrawFrom(f, p, amount, pays)
      BY <1>2 DEF WithdrawAmountFromProtocol, Venues
    <2> QED
      BY <1>2, <2>1, WithdrawMoves
  <1>3. CASE p = "multi"
    <2>1. WithdrawAmountFromProtocol(f, p, amount, pays)
            = WithdrawProportionally(f, amount, pays)
      BY <1>3 DEF WithdrawAmountFromProtocol, Venues
    <2>2. CASE amount <= 0 \/ Deployed(f.pool) <= 0
      BY <2>1, <2>2, MovedReflexive DEF WithdrawProportionally, FundsType
    <2>3. CASE amount > 0 /\ Deployed(f.pool) > 0
      <3> DEFINE ask == ProportionalAsk(f.pool, amount)
                 g   == WithdrawFrom(WithdrawFrom(f, "blend", ask["blend"], pays),
                                     "dex", ask["dex"], pays)
      <3>1. ask["blend"] \in Int /\ ask["dex"] \in Int
        BY <2>3, ProportionalAskType DEF FundsType, Flows, Venues
      <3>2. WithdrawProportionally(f, amount, pays) = SyncSummary(g)
        BY <2>3 DEF WithdrawProportionally, FundsType, Deployed, Venues
      <3> HIDE DEF ask
      <3>3. Moved(f, g) /\ g.idle >= f.idle
        BY <3>1, BothWithdrawMoves
      <3> HIDE DEF g
      <3>4. g \in FundsType
        BY <3>3 DEF Moved
      <3>5. Moved(g, SyncSummary(g)) /\ SyncSummary(g).idle = g.idle
        BY <3>4, SyncMoves
      <3> QED
        BY <2>1, <3>2, <3>3, <3>5, MovedTransitive
    <2>4. Deployed(f.pool) \in Nat
      BY DEF FundsType, Deployed, Venues
    <2> QED
      BY <2>2, <2>3, <2>4
  <1> QED
    BY <1>1, <1>2, <1>3 DEF Protocols
================================================================================
