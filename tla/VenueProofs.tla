------------------------------ MODULE VenueProofs ------------------------------
(***************************************************************************)
(* The vault and its venues, for any parameters and any venues: funds stay  *)
(* where CurrentProtocol leads, they go out only from an active vault and   *)
(* after the cooldown, and failed rebalances trip the breaker.              *)
(*                                                                         *)
(* Every leg moves USDC of one venue, so each is described by what it does  *)
(* to that position, to the other one, and to CurrentProtocol; the entry    *)
(* points are argued from these descriptions.                               *)
(***************************************************************************)
EXTENDS LedgerProofs

-----------------------------------------------------------------------------
(* What the legs do to the positions. *)

\* No venue gets anything.
PoolsShrink(f, g) == \A v \in Venues : g.pool[v] <= f.pool[v]

\* Everything deployed is where CurrentProtocol leads, and "multi" means both.
Reachable(f) ==
  /\ \A v \in Venues : f.pool[v] > 0 => f.protocol \in {v, "multi"}
  /\ f.protocol = "multi" => \A v \in Venues : f.pool[v] > 0

OnePool(f) == f.pool["blend"] = 0 \/ f.pool["dex"] = 0

\* Nothing is deployed but to venue v, and CurrentProtocol is not "multi".
OnlyAt(f, v) == f.protocol # "multi" /\ \A w \in Venues : w # v => f.pool[w] = 0

LEMMA PoolType ==
  ASSUME NEW f \in FundsType
  PROVE  /\ f.idle \in Nat /\ f.protocol \in Protocols
         /\ \A v \in Venues : f.pool[v] \in Nat
         /\ f.pool["blend"] \in Nat /\ f.pool["dex"] \in Nat
         /\ Custody(f) = f.idle + (f.pool["blend"] + f.pool["dex"])
  BY DEF FundsType, Venues, Custody, Deployed

\* A withdrawal from v takes what arrives from v's position, and forgets the protocol
\* only when nothing is left there.
LEMMA WithdrawShape ==
  ASSUME NEW f \in FundsType, NEW v \in Venues, NEW pays \in Flows, NEW asked \in Int
  PROVE  LET g == WithdrawFrom(f, v, asked, pays)
         IN  /\ g \in FundsType
             /\ g.pool[v] <= f.pool[v]
             /\ \A w \in Venues : w # v => g.pool[w] = f.pool[w]
             /\ g.protocol = f.protocol \/ (g.protocol = "none" /\ g.pool[v] = 0)
             /\ g.idle - f.idle = f.pool[v] - g.pool[v]
  <1> DEFINE n == Lesser(Lesser(asked, f.pool[v]), pays[v])
             g == WithdrawFrom(f, v, asked, pays)
  <1>1. n \in Int /\ n <= f.pool[v] /\ f.pool[v] \in Nat /\ f.idle \in Nat
    BY DEF Lesser, Flows, FundsType
  <1>2. g \in FundsType
    BY WithdrawMoves DEF Moved
  <1>3. CASE n <= 0
    BY <1>1, <1>3 DEF WithdrawFrom
  <1>4. CASE n > 0
    <2>1. g = [f EXCEPT !.idle = @ + n, !.pool[v] = @ - n,
                        !.protocol = IF f.pool[v] = n THEN "none" ELSE @]
      BY <1>1, <1>4 DEF WithdrawFrom
    <2> HIDE DEF n, g
    <2>2. /\ g.idle = f.idle + n /\ g.pool = [f.pool EXCEPT ![v] = f.pool[v] - n]
          /\ g.protocol = IF f.pool[v] = n THEN "none" ELSE f.protocol
      BY <2>1 DEF FundsType
    <2>3. g.pool[v] = f.pool[v] - n /\ \A w \in Venues : w # v => g.pool[w] = f.pool[w]
      BY <2>2 DEF FundsType
    <2>4. /\ g.pool[v] <= f.pool[v] /\ g.idle - f.idle = f.pool[v] - g.pool[v]
          /\ f.pool[v] = n => g.pool[v] = 0
      BY <1>1, <1>4, <2>2, <2>3
    <2> QED
      BY <1>2, <2>2, <2>3, <2>4 DEF g
  <1> QED
    BY <1>1, <1>3, <1>4

\* A supply to v adds what leaves the vault to v's position, and makes v the protocol.
LEMMA SupplyShape ==
  ASSUME NEW f \in FundsType, NEW v \in Venues, NEW takes \in Flows,
         NEW asked \in Nat, asked <= f.idle
  PROVE  LET g == SupplyTo(f, v, asked, takes)
         IN  /\ g \in FundsType
             /\ g.pool[v] >= f.pool[v]
             /\ \A w \in Venues : w # v => g.pool[w] = f.pool[w]
             /\ g.protocol = v \/ g = f
             /\ g.pool[v] - f.pool[v] <= asked
  <1> DEFINE n == Lesser(asked, takes[v])
             g == SupplyTo(f, v, asked, takes)
  <1>1. n \in Int /\ n <= asked /\ f.pool[v] \in Nat /\ f.idle \in Nat
    BY DEF Lesser, Flows, FundsType
  <1>2. g \in FundsType
    BY SupplyMoves DEF Moved
  <1>3. CASE n <= 0
    BY <1>1, <1>3 DEF SupplyTo
  <1>4. CASE n > 0
    <2>1. g = [f EXCEPT !.idle = @ - n, !.pool[v] = @ + n, !.protocol = v]
      BY <1>1, <1>4 DEF SupplyTo
    <2> HIDE DEF n, g
    <2>2. /\ g.pool = [f.pool EXCEPT ![v] = f.pool[v] + n] /\ g.protocol = v
      BY <2>1 DEF FundsType
    <2>3. g.pool[v] = f.pool[v] + n /\ \A w \in Venues : w # v => g.pool[w] = f.pool[w]
      BY <2>2 DEF FundsType
    <2>4. g.pool[v] >= f.pool[v] /\ g.pool[v] - f.pool[v] <= asked
      BY <1>1, <1>4, <2>3
    <2> QED
      BY <1>2, <2>2, <2>3, <2>4 DEF g
  <1> QED
    BY <1>1, <1>3, <1>4

\* Writing the summary makes everything reachable.
LEMMA SyncReaches ==
  ASSUME NEW f \in FundsType
  PROVE  /\ SyncSummary(f) \in FundsType /\ Reachable(SyncSummary(f))
         /\ SyncSummary(f).pool = f.pool
         /\ Sync(f) \in FundsType /\ Sync(f).pool = f.pool
         /\ Sync(f).protocol = f.protocol
  <1>1. SyncSummary(f) \in FundsType /\ Sync(f) \in FundsType
    BY SyncMoves DEF Moved
  <1>2. /\ SyncSummary(f).pool = f.pool /\ Sync(f).pool = f.pool
        /\ SyncSummary(f).protocol = DeriveSummary(f.pool)
        /\ Sync(f).protocol = f.protocol
    BY DEF SyncSummary, Sync, FundsType
  <1>3. f.pool["blend"] \in Nat /\ f.pool["dex"] \in Nat
    BY PoolType
  <1>4. Reachable(SyncSummary(f))
    BY <1>2, <1>3 DEF Reachable, DeriveSummary, Venues
  <1> QED
    BY <1>1, <1>2, <1>4

\* Where everything reachable is, when one venue is the protocol.
LEMMA ReachableAtOne ==
  ASSUME NEW f \in FundsType, Reachable(f), f.protocol # "multi"
  PROVE  /\ \A v \in Venues : f.protocol = v => OnlyAt(f, v)
         /\ f.protocol = "none" => \A v \in Venues : f.pool[v] = 0
  BY DEF Reachable, OnlyAt, FundsType, Venues

\* Two withdrawals shrink both positions.
LEMMA BothShrink ==
  ASSUME NEW f \in FundsType, NEW pays \in Flows, NEW a \in Int, NEW b \in Int
  PROVE  LET g == WithdrawFrom(WithdrawFrom(f, "blend", a, pays), "dex", b, pays)
         IN  g \in FundsType /\ PoolsShrink(f, g)
  <1> DEFINE m == WithdrawFrom(f, "blend", a, pays)
             g == WithdrawFrom(m, "dex", b, pays)
  <1>1. /\ m \in FundsType /\ m.pool["blend"] <= f.pool["blend"]
        /\ m.pool["dex"] = f.pool["dex"]
    BY WithdrawShape DEF Venues
  <1> HIDE DEF m
  <1>2. /\ g \in FundsType /\ g.pool["dex"] <= m.pool["dex"]
        /\ g.pool["blend"] = m.pool["blend"]
    BY <1>1, WithdrawShape DEF Venues
  <1> HIDE DEF g
  <1>3. PoolsShrink(f, g)
    BY <1>1, <1>2 DEF PoolsShrink, Venues
  <1> QED
    BY <1>2, <1>3 DEF g, m

\* Leaving one venue, when it is the protocol, leaves everything reachable.
LEMMA VenueLegKeepsReach ==
  ASSUME NEW f \in FundsType, Reachable(f), NEW pays \in Flows, NEW asked \in Int,
         f.protocol \in Venues
  PROVE  LET g == WithdrawFrom(f, f.protocol, asked, pays)
         IN  g \in FundsType /\ Reachable(g) /\ PoolsShrink(f, g)
  <1> DEFINE v == f.protocol
             g == WithdrawFrom(f, v, asked, pays)
  <1>1. /\ g \in FundsType /\ g.pool[v] <= f.pool[v]
        /\ \A w \in Venues : w # v => g.pool[w] = f.pool[w]
        /\ g.protocol = v \/ (g.protocol = "none" /\ g.pool[v] = 0)
    BY WithdrawShape
  <1>2. OnlyAt(f, v)
    BY ReachableAtOne DEF Venues
  <1>3. \A w \in Venues : f.pool[w] \in Nat /\ g.pool[w] \in Nat
    BY <1>1, PoolType
  <1> HIDE DEF g
  <1>4. PoolsShrink(f, g)
    BY <1>1, <1>3 DEF PoolsShrink
  <1>5. Reachable(g)
    BY <1>1, <1>2, <1>3 DEF Reachable, OnlyAt, Venues
  <1> QED
    BY <1>1, <1>4, <1>5 DEF g

\* withdraw_from_protocol of the active protocol, and the recall of a withdrawal.
LEMMA ExitKeepsReach ==
  ASSUME NEW f \in FundsType, Reachable(f), NEW pays \in Flows
  PROVE  LET g == WithdrawFromProtocol(f, f.protocol, pays)
         IN  g \in FundsType /\ Reachable(g) /\ PoolsShrink(f, g)
  <1>1. CASE f.protocol = "none"
    <2>1. WithdrawFromProtocol(f, f.protocol, pays) = f
      BY <1>1 DEF WithdrawFromProtocol, Venues
    <2> QED
      BY <2>1, PoolType DEF PoolsShrink
  <1>2. CASE f.protocol \in Venues
    <2>1. WithdrawFromProtocol(f, f.protocol, pays)
            = WithdrawFrom(f, f.protocol, f.pool[f.protocol], pays)
      BY <1>2 DEF WithdrawFromProtocol, Venues, Exit
    <2>2. f.pool[f.protocol] \in Int
      BY <1>2, PoolType
    <2> QED
      BY <1>2, <2>1, <2>2, VenueLegKeepsReach
  <1>3. CASE f.protocol = "multi"
    <2> DEFINE m == WithdrawFrom(f, "blend", f.pool["blend"], pays)
               g == WithdrawFrom(m, "dex", m.pool["dex"], pays)
    <2>1. f.pool["blend"] \in Int
      BY PoolType
    <2>2. m \in FundsType
      BY <2>1, WithdrawShape DEF Venues
    <2>3. m.pool["dex"] \in Int
      BY <2>2, PoolType
    <2>4. g \in FundsType /\ PoolsShrink(f, g)
      BY <2>1, <2>3, BothShrink
    <2>5. WithdrawFromProtocol(f, f.protocol, pays) = SyncSummary(g)
      BY <1>3 DEF WithdrawFromProtocol, Venues, Exit
    <2> HIDE DEF g
    <2> QED
      BY <2>4, <2>5, SyncReaches DEF PoolsShrink
  <1> QED
    BY <1>1, <1>2, <1>3 DEF FundsType, Protocols

LEMMA RecallKeepsReach ==
  ASSUME funds \in FundsType, Reachable(funds), NEW amount \in Nat, NEW pays \in Flows
  PROVE  LET g == Recall(amount, pays)
         IN  g \in FundsType /\ Reachable(g) /\ PoolsShrink(funds, g)
  <1>1. ASSUME Recall(amount, pays) = funds
        PROVE  LET g == Recall(amount, pays)
               IN  g \in FundsType /\ Reachable(g) /\ PoolsShrink(funds, g)
    BY <1>1, PoolType DEF PoolsShrink
  <1>2. CASE funds.protocol = "none" \/ funds.idle >= amount
    BY <1>1, <1>2 DEF Recall
  <1> DEFINE needed == amount - funds.idle
  <1>3. CASE funds.protocol \in Venues /\ ~(funds.idle >= amount)
    <2>1. needed \in Int
      BY PoolType
    <2>2. Recall(amount, pays) = WithdrawFrom(funds, funds.protocol, needed, pays)
      BY <1>3 DEF Recall, WithdrawAmountFromProtocol, Venues
    <2> HIDE DEF needed
    <2> QED
      BY <1>3, <2>1, <2>2, VenueLegKeepsReach
  <1>4. CASE funds.protocol = "multi" /\ ~(funds.idle >= amount)
    <2>1. /\ needed \in Nat /\ needed > 0
          /\ Recall(amount, pays) = WithdrawProportionally(funds, needed, pays)
      BY <1>4, PoolType DEF Recall, WithdrawAmountFromProtocol, Venues
    <2> HIDE DEF needed
    <2>2. CASE Deployed(funds.pool) <= 0
      <3>1. Recall(amount, pays) = funds
        BY <2>1, <2>2 DEF WithdrawProportionally
      <3> QED
        BY <1>1, <3>1
    <2>3. CASE Deployed(funds.pool) > 0
      <3> DEFINE ask == ProportionalAsk(funds.pool, needed)
                 g == WithdrawFrom(WithdrawFrom(funds, "blend", ask["blend"], pays),
                                   "dex", ask["dex"], pays)
      <3>1. ask["blend"] \in Int /\ ask["dex"] \in Int
        BY <2>1, <2>3, ProportionalAskType DEF FundsType, Flows, Venues
      <3>2. Recall(amount, pays) = SyncSummary(g)
        BY <2>1, <2>3, PoolType DEF WithdrawProportionally, Deployed
      <3> HIDE DEF ask
      <3>3. g \in FundsType /\ PoolsShrink(funds, g)
        BY <3>1, BothShrink
      <3> HIDE DEF g
      <3> QED
        BY <3>2, <3>3, SyncReaches DEF PoolsShrink
    <2>4. Deployed(funds.pool) \in Nat
      BY PoolType DEF Deployed
    <2> QED
      BY <2>2, <2>3, <2>4
  <1> QED
    BY <1>2, <1>3, <1>4 DEF FundsType, Protocols

-----------------------------------------------------------------------------
(* What a step does to the venues. *)

\* The cooldown is counted from a ledger that has been.
CooldownCounts == lastRebalance <= ledger

VInv == Inv /\ FundsReachable /\ CooldownCounts

\* Some venue holds more than before, and not by its own yield.
Sends == (\E v \in Venues : funds'.pool[v] > funds.pool[v]) /\ accrued' = accrued

SendsGuarded ==
  /\ ~breaker.paused
  /\ lastRebalance > 0 => ledger - lastRebalance >= MinRebalanceInterval
  /\ lastRebalance' = ledger

\* What every step leaves behind.
VenueStep ==
  /\ Reachable(funds') /\ (~mode'.multi => OnePool(funds'))
  /\ Sends => SendsGuarded

LEMMA VInvParts ==
  ASSUME VInv
  PROVE  /\ Inv /\ funds \in FundsType /\ Reachable(funds)
         /\ ~mode.multi => OnePool(funds)
         /\ lastRebalance \in Nat /\ ledger \in Nat /\ lastRebalance <= ledger
  BY InvParts DEF VInv, FundsReachable, Reachable, OnePool, CooldownCounts, Inv, TypeOK

\* A step that sends nothing and leads to everything.
LEMMA DrainIsOne ==
  ASSUME VInv, NEW g \in FundsType, Reachable(g), PoolsShrink(funds, g),
         funds'.pool = g.pool, funds'.protocol = g.protocol, mode' = mode
  PROVE  VenueStep
  <1>1. \A v \in Venues : funds.pool[v] \in Nat /\ g.pool[v] \in Nat
    BY VInvParts, PoolType
  <1>2. Reachable(funds')
    BY DEF Reachable
  <1>3. ~mode'.multi => OnePool(funds')
    BY <1>1, VInvParts DEF PoolsShrink, OnePool, Venues
  <1>4. ~Sends
    BY <1>1 DEF Sends, PoolsShrink
  <1> QED
    BY <1>2, <1>3, <1>4 DEF VenueStep

\* A step that leaves the venues alone.
LEMMA IdleIsOne ==
  ASSUME VInv, funds'.pool = funds.pool, funds'.protocol = funds.protocol, mode' = mode
  PROVE  VenueStep
  <1>1. PoolsShrink(funds, funds)
    BY VInvParts, PoolType DEF PoolsShrink
  <1> QED
    BY <1>1, VInvParts, DrainIsOne

\* The payout of a withdrawal comes out of the idle balance.
LEMMA PayOutIsOne ==
  ASSUME VInv, NEW amount \in Nat, NEW pays \in Flows, NEW u, NEW burned, NEW paid,
         PayOut(u, Recall(amount, pays), burned, paid), mode' = mode
  PROVE  VenueStep
  <1> DEFINE g == Recall(amount, pays)
  <1>1. g \in FundsType /\ Reachable(g) /\ PoolsShrink(funds, g)
    BY VInvParts, RecallKeepsReach
  <1>2. funds' = [g EXCEPT !.idle = g.idle - paid]
    BY DEF PayOut
  <1> HIDE DEF g
  <1>3. funds'.pool = g.pool /\ funds'.protocol = g.protocol
    BY <1>1, <1>2 DEF FundsType
  <1> QED
    BY <1>1, <1>3, DrainIsOne

LEMMA UserStepIsOne ==
  ASSUME VInv, UserStep
  PROVE  VenueStep
  <1>1. ASSUME NEW u \in Users, NEW a \in DepositAmounts, Deposit(u, a)
        PROVE  VenueStep
    <2>1. funds' = [funds EXCEPT !.idle = @ + a] /\ mode' = mode
      BY <1>1 DEF Deposit, governance
    <2> QED
      BY <2>1, IdleIsOne, VInvParts DEF FundsType
  <1>2. ASSUME NEW e1 \in Entries, NEW e2 \in Entries, BatchDeposit(e1, e2)
        PROVE  VenueStep
    <2>1. PICK n : funds' = [funds EXCEPT !.idle = n]
      BY <1>2 DEF BatchDeposit
    <2>2. mode' = mode
      BY <1>2 DEF BatchDeposit, governance
    <2> QED
      BY <2>1, <2>2, IdleIsOne, VInvParts DEF FundsType
  <1>3. ASSUME NEW u \in Users, NEW a \in WithdrawAmounts, NEW pays \in VenueLimits,
               Withdraw(u, a, pays) \/ EmergencyWithdraw(u, a, pays)
        PROVE  VenueStep
    <2>1. a \in Nat /\ pays \in Flows /\ mode' = mode
      BY <1>3, InputsAssumption, VenueLimitsType
         DEF Withdraw, EmergencyWithdraw, AllowsEmergencyWithdraw, governance
    <2>2. \E burned, paid : PayOut(u, Recall(a, pays), burned, paid)
      BY <1>3 DEF Withdraw, EmergencyWithdraw, RedeemAssets
    <2> QED
      BY <2>1, <2>2, PayOutIsOne
  <1>4. ASSUME NEW u \in Users, NEW pays \in VenueLimits, WithdrawAll(u, pays)
        PROVE  VenueStep
    <2> DEFINE unlocked == Unlocked(u)
               entitled == WorthOf(book, unlocked)
    <2>1. unlocked > 0 /\ \E burned, paid : PayOut(u, Recall(entitled, pays), burned, paid)
      BY <1>4 DEF WithdrawAll, AllowsWithdrawAll, Entitled
    <2>2. unlocked \in Nat /\ unlocked <= book.shares[u]
      <3>1. book.shares[u] \in Nat /\ locks[u].amount \in Int
        BY VInvParts, InvParts DEF BookOK, BookType, Inv, TypeOK
      <3> QED
        BY <2>1, <3>1 DEF Unlocked
    <2> HIDE DEF unlocked
    <2>3. entitled \in Nat
      BY <2>2, VInvParts, InvParts, WorthWithinAssets
    <2> HIDE DEF entitled
    <2>4. pays \in Flows /\ mode' = mode
      BY <1>4, VenueLimitsType DEF WithdrawAll, governance
    <2> QED
      BY <2>1, <2>3, <2>4, PayOutIsOne
  <1>5. ASSUME NEW u \in Users,
               \/ \E n \in LockAmounts, d \in LockPeriods : LockShares(u, n, d)
               \/ UnlockShares(u)
        PROVE  VenueStep
    BY <1>5, IdleIsOne DEF LockShares, UnlockShares, accounting, governance
  <1>6. ASSUME NEW u \in Users, MigrateShares(u)
        PROVE  VenueStep
    <2>1. PICK n : funds' = [funds EXCEPT !.idle = n]
      BY <1>6 DEF MigrateShares
    <2>2. mode' = mode
      BY <1>6 DEF MigrateShares
    <2> QED
      BY <2>1, <2>2, IdleIsOne, VInvParts DEF FundsType
  <1> QED
    BY <1>1, <1>2, <1>3, <1>4, <1>5, <1>6 DEF UserStep

\* Supplying what is idle to v, when nothing is deployed elsewhere.
LEMMA SupplyAllReaches ==
  ASSUME NEW f \in FundsType, Reachable(f), NEW v \in Venues, NEW takes \in Flows,
         \A w \in Venues : w # v => f.pool[w] = 0
  PROVE  LET g == SupplyAll(f, v, takes)
         IN  g \in FundsType /\ Reachable(g) /\ OnePool(g)
  <1> DEFINE g == SupplyAll(f, v, takes)
  <1>1. /\ g \in FundsType /\ (g.protocol = v \/ g = f)
        /\ \A w \in Venues : w # v => g.pool[w] = 0
    <2>1. CASE f.idle > 0
      <3>1. f.idle \in Nat /\ f.idle <= f.idle
        BY PoolType
      <3>2. g = SupplyTo(f, v, f.idle, takes)
        BY <2>1 DEF SupplyAll
      <3> HIDE DEF g
      <3> QED
        BY <3>1, <3>2, SupplyShape
    <2>2. CASE ~(f.idle > 0)
      BY <2>2 DEF SupplyAll, FundsType, Protocols
    <2> QED
      BY <2>1, <2>2
  <1> HIDE DEF g
  <1>2. Reachable(g)
    BY <1>1 DEF Reachable, Venues
  <1>3. OnePool(g)
    BY <1>1 DEF OnePool, Venues
  <1> QED
    BY <1>1, <1>2, <1>3 DEF g

\* Where an exit that is complete leaves the positions.
LEMMA CompleteExit ==
  ASSUME NEW f \in FundsType, Reachable(f), NEW g \in FundsType, PoolsShrink(f, g),
         ~ExitIncomplete(g, f.protocol)
  PROVE  \A v \in Venues : g.pool[v] = 0
  <1>1. \A v \in Venues : f.pool[v] \in Nat /\ g.pool[v] \in Nat
    BY PoolType
  <1>2. CASE f.protocol = "none"
    BY <1>1, <1>2, ReachableAtOne DEF PoolsShrink, Venues
  <1>3. CASE f.protocol \in Venues
    <2>1. OnlyAt(f, f.protocol) /\ g.pool[f.protocol] = 0
      BY <1>1, <1>3, ReachableAtOne DEF ExitIncomplete, ProtocolBalance, Venues
    <2> QED
      BY <1>1, <2>1 DEF OnlyAt, PoolsShrink
  <1>4. CASE f.protocol = "multi"
    <2>1. ~(g.pool["blend"] + g.pool["dex"] > 0)
      BY <1>4 DEF ExitIncomplete, ProtocolBalance, Deployed, Venues
    <2> QED
      BY <1>1, <2>1 DEF Venues
  <1> QED
    BY <1>2, <1>3, <1>4 DEF FundsType, Protocols

LEMMA RebalanceIsOne ==
  ASSUME VInv, NEW target, NEW minOut, NEW pays \in Flows, NEW takes \in Flows,
         Rebalance(target, minOut, pays, takes)
  PROVE  VenueStep
  <1> DEFINE old    == funds.protocol
             leaves == old # target /\ old # "none"
             exited == IF leaves THEN WithdrawFromProtocol(funds, old, pays) ELSE funds
             stuck  == leaves /\ ExitIncomplete(exited, old)
             moved  == IF target = "none" THEN ToIdle(exited)
                       ELSE SupplyAll(exited, target, takes)
  <1>1. /\ NotPaused /\ CooldownElapsed
        /\ target \in {"none", "blend", "dex"}
        /\ \/ funds' = exited
           \/ ~stuck /\ funds' = Sync(moved) /\ lastRebalance' = ledger
        /\ mode' = mode
    BY DEF Rebalance
  <1>2. exited \in FundsType /\ Reachable(exited) /\ PoolsShrink(funds, exited)
    BY VInvParts, ExitKeepsReach, PoolType DEF PoolsShrink
  <1>3. CASE funds' = exited
    BY <1>1, <1>2, <1>3, DrainIsOne
  <1>4. CASE ~stuck /\ funds' = Sync(moved) /\ lastRebalance' = ledger
    <2>1. \A w \in Venues : w # target => exited.pool[w] = 0
      <3>1. CASE leaves
        <4>1. ~ExitIncomplete(exited, old)
          BY <1>4, <3>1
        <4> HIDE DEF exited
        <4> QED
          BY <1>2, <4>1, VInvParts, CompleteExit
      <3>2. CASE ~leaves
        <4>1. exited = funds /\ (old = target \/ old = "none")
          BY <3>2
        <4>2. old # "multi" /\ funds \in FundsType /\ Reachable(funds)
          BY <1>1, <4>1, VInvParts
        <4>3. CASE old = "none"
          BY <4>1, <4>2, <4>3, ReachableAtOne
        <4>4. CASE old = target /\ target \in Venues
          <5>1. OnlyAt(funds, target)
            BY <4>2, <4>4, ReachableAtOne
          <5> QED
            BY <4>1, <5>1 DEF OnlyAt
        <4> QED
          BY <1>1, <4>1, <4>3, <4>4 DEF Venues
      <3> QED
        BY <3>1, <3>2
    <2> HIDE DEF exited
    <2>2. moved \in FundsType /\ Reachable(moved) /\ OnePool(moved)
      <3>1. CASE target = "none"
        <4>1. moved = [exited EXCEPT !.protocol = "none"]
          BY <3>1 DEF ToIdle
        <4>2. \A w \in Venues : exited.pool[w] = 0
          BY <2>1, <3>1 DEF Venues
        <4> HIDE DEF moved
        <4>3. /\ moved \in FundsType /\ moved.protocol = "none"
              /\ \A w \in Venues : moved.pool[w] = 0
          BY <1>2, <4>1, <4>2 DEF FundsType, Protocols
        <4> QED
          BY <4>3 DEF Reachable, OnePool, Venues
      <3>2. CASE target \in Venues
        <4>1. moved = SupplyAll(exited, target, takes)
          BY <3>2 DEF Venues
        <4> HIDE DEF moved
        <4> QED
          BY <1>2, <2>1, <3>2, <4>1, SupplyAllReaches
      <3> QED
        BY <1>1, <3>1, <3>2 DEF Venues
    <2> HIDE DEF moved
    <2>3. funds'.pool = moved.pool /\ funds'.protocol = moved.protocol
      BY <1>4, <2>2, SyncReaches
    <2>4. Reachable(funds') /\ OnePool(funds')
      BY <2>2, <2>3 DEF Reachable, OnePool
    <2>5. SendsGuarded
      BY <1>1, <1>4, VInvParts, ParametersAssumption
         DEF SendsGuarded, NotPaused, CooldownElapsed
    <2> QED
      BY <2>4, <2>5 DEF VenueStep
  <1> QED
    BY <1>1, <1>3, <1>4

LEMMA RebalanceMultiIsOne ==
  ASSUME VInv, NEW bps \in Allocations, NEW minOut, NEW pays \in Flows,
         NEW takes \in Flows, RebalanceMulti(bps, minOut, pays, takes)
  PROVE  VenueStep
  <1> DEFINE target  == SplitByBps(Custody(funds), bps)
             trimmed == Trim(funds, target, pays)
             blended == TopUp(trimmed, target, "blend", takes)
             topped  == TopUp(blended, target, "dex", takes)
  <1>1. /\ NotPaused /\ CooldownElapsed /\ mode.multi
        /\ funds' = SyncSummary(topped)
        /\ mode' = [mode EXCEPT !.bps = bps]
        /\ lastRebalance' = ledger
    BY DEF RebalanceMulti
  <1>2. funds \in FundsType /\ target \in [Venues -> Int]
    <2>1. bps \in [Venues -> Nat] /\ Custody(funds) \in Nat
      BY InputsAssumption, VInvParts, InvParts
    <2> QED
      BY <2>1, VInvParts, SplitType
  <1> HIDE DEF target
  <1>3. trimmed \in FundsType
    BY <1>2, TrimMoves DEF Moved
  <1> HIDE DEF trimmed
  <1>4. blended \in FundsType
    BY <1>2, <1>3, TopUpMoves DEF Moved, Venues
  <1> HIDE DEF blended
  <1>5. topped \in FundsType
    BY <1>2, <1>4, TopUpMoves DEF Moved, Venues
  <1> HIDE DEF topped
  <1>6. Reachable(funds')
    BY <1>1, <1>5, SyncReaches
  <1>7. mode'.multi
    BY <1>1, VInvParts DEF Inv, TypeOK
  <1>8. SendsGuarded
    BY <1>1, VInvParts, ParametersAssumption DEF SendsGuarded, NotPaused, CooldownElapsed
  <1> QED
    BY <1>6, <1>7, <1>8 DEF VenueStep

LEMMA EnableMultiIsOne ==
  ASSUME VInv, NEW enabled \in BOOLEAN, EnableMultiProtocol(enabled)
  PROVE  VenueStep
  <1>1. /\ funds' = SyncSummary(funds) /\ mode'.multi = enabled
        /\ enabled \/ OnePool(funds)
    BY DEF EnableMultiProtocol, OnePool
  <1>2. Reachable(funds') /\ funds'.pool = funds.pool
    BY <1>1, VInvParts, SyncReaches
  <1>3. ~Sends
    BY <1>2, VInvParts, PoolType DEF Sends
  <1>4. ~mode'.multi => OnePool(funds')
    BY <1>1, <1>2 DEF OnePool
  <1> QED
    BY <1>2, <1>3, <1>4 DEF VenueStep

\* What is taken out of one venue and put back leaves it with no more.
LEMMA RoundTrip ==
  ASSUME NEW f \in FundsType, Reachable(f), f.protocol \in Venues,
         NEW pays \in Flows, NEW takes \in Flows
  PROVE  LET exited == WithdrawFromProtocol(f, f.protocol, pays)
             g      == Resupplied(exited, exited.idle - f.idle, f.protocol, takes)
         IN  g \in FundsType /\ Reachable(g) /\ PoolsShrink(f, g)
  <1> DEFINE p      == f.protocol
             exited == WithdrawFromProtocol(f, p, pays)
             taken  == exited.idle - f.idle
             g      == Resupplied(exited, taken, p, takes)
  <1> SUFFICES g \in FundsType /\ Reachable(g) /\ PoolsShrink(f, g)
    OBVIOUS
  <1>1. exited \in FundsType /\ Reachable(exited) /\ PoolsShrink(f, exited)
    BY ExitKeepsReach
  <1>2. taken = f.pool[p] - exited.pool[p]
    <2>1. exited = WithdrawFrom(f, p, f.pool[p], pays) /\ f.pool[p] \in Int
      BY PoolType DEF WithdrawFromProtocol, Exit, Venues
    <2> HIDE DEF exited
    <2> QED
      BY <2>1, WithdrawShape
  <1> HIDE DEF exited
  <1>3. /\ \A w \in Venues : f.pool[w] \in Nat /\ exited.pool[w] \in Nat
        /\ f.idle \in Nat /\ exited.idle \in Nat
    BY <1>1, PoolType
  <1>4. taken \in Nat /\ taken <= exited.idle
    BY <1>1, <1>2, <1>3 DEF PoolsShrink
  <1>5. CASE ~(taken > 0)
    BY <1>1, <1>5 DEF Resupplied
  <1>6. CASE taken > 0
    <2>1. g = SupplyTo(exited, p, taken, takes)
      BY <1>6 DEF Resupplied
    <2> HIDE DEF g, taken
    <2>2. /\ g \in FundsType /\ (g.protocol = p \/ g = exited)
          /\ \A w \in Venues : w # p => g.pool[w] = exited.pool[w]
          /\ g.pool[p] - exited.pool[p] <= taken
      BY <1>1, <1>4, <2>1, SupplyShape
    <2>3. \A w \in Venues : g.pool[w] \in Nat
      BY <2>2, PoolType
    <2>4. PoolsShrink(f, g)
      BY <1>1, <1>2, <1>3, <2>2, <2>3 DEF PoolsShrink
    <2>5. \A w \in Venues : w # p => g.pool[w] = 0
      <3>1. \A w \in Venues : w # p => f.pool[w] = 0
        BY ReachableAtOne DEF OnlyAt, Venues
      <3> QED
        BY <1>3, <2>3, <2>4, <3>1 DEF PoolsShrink
    <2>6. Reachable(g)
      <3>1. CASE g = exited
        BY <1>1, <3>1
      <3>2. CASE g.protocol = p
        BY <2>3, <2>5, <3>2 DEF Reachable, Venues
      <3> QED
        BY <2>2, <3>1, <3>2
    <2> QED
      BY <2>2, <2>4, <2>6
  <1> QED
    BY <1>4, <1>5, <1>6

LEMMA HarvestIsOne ==
  ASSUME VInv, NEW minOut, NEW pays \in Flows, NEW takes \in Flows,
         HarvestRoundTrip(minOut, pays, takes)
  PROVE  VenueStep
  <1> DEFINE p      == funds.protocol
             exited == WithdrawFromProtocol(funds, p, pays)
             taken  == exited.idle - funds.idle
             g      == Resupplied(exited, taken, p, takes)
  <1>1. p # "none" /\ funds' = g /\ mode' = mode
    BY DEF HarvestRoundTrip, governance
  <1>2. g \in FundsType /\ Reachable(g) /\ PoolsShrink(funds, g)
    <2>1. CASE p \in Venues
      BY <2>1, VInvParts, RoundTrip
    <2>2. CASE p \notin Venues
      <3>1. g = exited
        BY <2>2 DEF Resupplied
      <3> QED
        BY <3>1, VInvParts, ExitKeepsReach
    <2> QED
      BY <2>1, <2>2
  <1> HIDE DEF g
  <1> QED
    BY <1>1, <1>2, DrainIsOne

LEMMA AccrueIsOne ==
  ASSUME VInv, NEW v \in Venues, Accrue(v)
  PROVE  VenueStep
  <1>1. /\ funds.pool[v] > 0 /\ accrued' # accrued /\ mode' = mode
        /\ funds'.pool = [funds.pool EXCEPT ![v] = funds.pool[v] + 1]
        /\ funds'.protocol = funds.protocol
    BY VInvParts DEF Accrue, FundsType, VInv, Inv, TypeOK
  <1>2. /\ \A w \in Venues : funds.pool[w] \in Nat /\ funds'.pool[w] \in Nat
        /\ \A w \in Venues : funds'.pool[w] > 0 <=> funds.pool[w] > 0
    BY <1>1, VInvParts DEF FundsType
  <1>3. Reachable(funds')
    BY <1>1, <1>2, VInvParts DEF Reachable
  <1>4. ~mode'.multi => OnePool(funds')
    BY <1>1, <1>2, VInvParts DEF OnePool, Venues
  <1> QED
    BY <1>1, <1>3, <1>4 DEF VenueStep, Sends

LEMMA StepsOfTheVenues ==
  ASSUME VInv, [Next]_vars
  PROVE  VenueStep
  <1>1. CASE UNCHANGED vars
    BY <1>1, IdleIsOne DEF vars
  <1>2. CASE UserStep
    BY <1>2, UserStepIsOne
  <1>3. CASE AllocationStep
    BY <1>3, VenueLimitsType, RebalanceIsOne, RebalanceMultiIsOne, HarvestIsOne,
       EnableMultiIsOne DEF AllocationStep, Harvest, EmergencyHarvest
  <1>4. CASE AdminStep
    <2>1. funds' = funds /\ mode' = mode
      BY <1>4 DEF AdminStep, ReportYield, ReportLoss, Pause, EmergencyPause, Unpause,
         ResetCircuitBreaker, SetBreaker, SetMigrationTarget, SetMigrationPaused,
         SetMigration, accounting, governance
    <2> QED
      BY <2>1, IdleIsOne
  <1>5. CASE Environment
    BY <1>5, IdleIsOne, AccrueIsOne DEF Environment, CloseLedger
  <1> QED
    BY <1>1, <1>2, <1>3, <1>4, <1>5 DEF Next

\* The cooldown is never counted from a ledger to come.
LEMMA StepsOfTheCooldown ==
  ASSUME VInv, [Next]_vars
  PROVE  lastRebalance' <= ledger'
  <1>1. lastRebalance' \in {lastRebalance, ledger} /\ ledger' \in {ledger, ledger + 1}
    <2>1. CASE UNCHANGED vars
      BY <2>1, Stutters
    <2>2. CASE UserStep
      BY <2>2, UserStepKeeps
    <2>3. CASE AllocationStep
      BY <2>3 DEF AllocationStep, Rebalance, RebalanceMulti, Harvest, EmergencyHarvest,
         HarvestRoundTrip, EnableMultiProtocol
    <2>4. CASE AdminStep
      BY <2>4 DEF AdminStep, ReportYield, ReportLoss, Pause, EmergencyPause, Unpause,
         ResetCircuitBreaker, SetBreaker, SetMigrationTarget, SetMigrationPaused,
         SetMigration
    <2>5. CASE Environment
      BY <2>5 DEF Environment, CloseLedger, Accrue
    <2> QED
      BY <2>1, <2>2, <2>3, <2>4, <2>5 DEF Next
  <1> QED
    BY <1>1, VInvParts

\* What moves venue funds outside a redemption, or restarts the cooldown.
Moves == \/ funds'.pool # funds.pool /\ accrued' = accrued /\ book' = book
         \/ lastRebalance' # lastRebalance

\* A redemption burns shares, and the other entry points of the depositors leave the
\* venues alone.
LEMMA UserStepRedeems ==
  ASSUME VInv, UserStep
  PROVE  ~Moves
  <1>0. lastRebalance' = lastRebalance
    BY UserStepKeeps
  <1>1. ASSUME RedeemSteps \/ MigrationSteps
        PROVE  book' # book
    <2>1. PICK burned \in Nat \ {0} : book'.totalShares = book.totalShares - burned
      BY <1>1, VInvParts, BurnTotals
    <2>2. book.totalShares \in Nat
      BY VInvParts, InvParts DEF BookOK, BookType
    <2> QED
      BY <2>1, <2>2
  <1>2. ASSUME NEW u \in Users, NEW a \in DepositAmounts, Deposit(u, a)
        PROVE  funds'.pool = funds.pool
    BY <1>2, VInvParts DEF Deposit, FundsType
  <1>3. ASSUME NEW e1 \in Entries, NEW e2 \in Entries, BatchDeposit(e1, e2)
        PROVE  funds'.pool = funds.pool
    <2>1. PICK n : funds' = [funds EXCEPT !.idle = n]
      BY <1>3 DEF BatchDeposit
    <2> QED
      BY <2>1, VInvParts DEF FundsType
  <1>4. ASSUME NEW u \in Users,
               \/ \E n \in LockAmounts, d \in LockPeriods : LockShares(u, n, d)
               \/ UnlockShares(u)
        PROVE  funds'.pool = funds.pool
    BY <1>4 DEF LockShares, UnlockShares, accounting
  <1>5. ASSUME NEW u \in Users, NEW pays \in VenueLimits,
               \/ \E a \in WithdrawAmounts : Withdraw(u, a, pays)
               \/ \E a \in WithdrawAmounts : EmergencyWithdraw(u, a, pays)
               \/ WithdrawAll(u, pays)
        PROVE  RedeemSteps
    <2>1. WithdrawAmounts \subseteq Int
      BY InputsAssumption
    <2>2. ASSUME WithdrawAll(u, pays)
          PROVE  RedeemSteps
      BY <2>2, VInvParts, VenueLimitsType, WithdrawAllRedeems DEF RedeemSteps
    <2> QED
      BY <1>5, <2>1, <2>2, VInvParts, VenueLimitsType, WithdrawIsOne, EmergencyWithdrawIsOne
  <1>6. ASSUME NEW u \in Users, MigrateShares(u)
        PROVE  MigrationSteps
    BY <1>6, VInvParts, MigrateIsOne
  <1> QED
    BY <1>0, <1>1, <1>2, <1>3, <1>4, <1>5, <1>6 DEF UserStep, Moves

\* So only a rebalance or a harvest does, and they check the cooldown.
LEMMA MovesFindCooldown ==
  ASSUME VInv, [Next]_vars, Moves
  PROVE  lastRebalance > 0 => ledger - lastRebalance >= MinRebalanceInterval
  <1>1. UNCHANGED vars \/ UserStep => ~Moves
    BY Stutters, UserStepRedeems DEF Moves
  <1>2. ASSUME AllocationStep
        PROVE  CooldownElapsed
    <2>1. ASSUME NEW enabled, EnableMultiProtocol(enabled)
          PROVE  ~Moves
      BY <2>1, VInvParts DEF EnableMultiProtocol, SyncSummary, FundsType, Moves
    <2>2. \A p, m, pays, takes : Rebalance(p, m, pays, takes) => CooldownElapsed
      BY DEF Rebalance
    <2>3. \A p, m, pays, takes : RebalanceMulti(p, m, pays, takes) => CooldownElapsed
      BY DEF RebalanceMulti
    <2>4. \A m, pays, takes : HarvestRoundTrip(m, pays, takes) => CooldownElapsed
      BY DEF HarvestRoundTrip
    <2> QED
      BY <1>2, <2>1, <2>2, <2>3, <2>4, Zenon DEF AllocationStep, Harvest, EmergencyHarvest
  <1>3. AdminStep => ~Moves
    BY DEF AdminStep, ReportYield, ReportLoss, Pause, EmergencyPause, Unpause,
       ResetCircuitBreaker, SetBreaker, SetMigrationTarget, SetMigrationPaused,
       SetMigration, accounting, Moves
  <1>4. Environment => ~Moves
    <2>1. ASSUME NEW v \in Venues, Accrue(v)
          PROVE  accrued' # accrued /\ lastRebalance' = lastRebalance
      BY <2>1, VInvParts DEF Accrue, Inv, TypeOK
    <2> QED
      BY <2>1 DEF Environment, CloseLedger, Moves
  <1>5. CooldownElapsed
    BY <1>1, <1>2, <1>3, <1>4 DEF Next
  <1> QED
    BY <1>5, VInvParts, ParametersAssumption DEF CooldownElapsed

LEMMA InitVenues ==
  ASSUME WithinWhole
  PROVE  Init => VInv
  <1>1. Init => FundsReachable /\ CooldownCounts
    BY DEF Init, FundsReachable, CooldownCounts, Venues
  <1> QED
    BY <1>1, InitEstablishes DEF VInv

LEMMA NextKeepsVenues == VInv /\ [Next]_vars => VInv'
  <1>1. ASSUME VInv, [Next]_vars
        PROVE  FundsReachable' /\ CooldownCounts'
    <2>1. VenueStep
      BY <1>1, StepsOfTheVenues
    <2>2. FundsReachable'
      BY <2>1 DEF VenueStep, Reachable, OnePool, FundsReachable
    <2>3. CooldownCounts'
      BY <1>1, StepsOfTheCooldown DEF CooldownCounts
    <2> QED
      BY <2>2, <2>3
  <1> QED
    BY <1>1, NextPreserves DEF VInv

\* CurrentProtocol always leads to everything deployed: after every recall and exit
\* that venues answer in part, every harvest, and every change of mode.
THEOREM FundsStayReachable ==
  ASSUME WithinWhole
  PROVE  Spec => []FundsReachable
  <1>1. VInv => FundsReachable
    BY DEF VInv
  <1> QED
    BY <1>1, InitVenues, NextKeepsVenues, PTL DEF Spec

\* A paused vault mints nothing and leaves no venue with more than it had, the round
\* trip of a harvest included; what leaves more there restarts the cooldown; and every
\* move of venue funds that is not part of a redemption finds the cooldown elapsed.
THEOREM DeploymentsAreGuarded ==
  ASSUME WithinWhole
  PROVE  Spec => DeploymentsGuarded
  <1>1. ASSUME VInv, [Next]_vars, book'.totalShares > book.totalShares
        PROVE  ~breaker.paused
    <2>1. DepositSteps \/ BatchSteps
      BY <1>1, VInvParts, StepsOfTheLedger, OnlyCreditsMint
    <2> QED
      BY <2>1 DEF DepositSteps, BatchSteps, NotPaused
  <1>2. ASSUME VInv, [Next]_vars
        PROVE  LET moved == funds'.pool # funds.pool /\ accrued' = accrued
                   grown == moved /\ \E v \in Venues : funds'.pool[v] > funds.pool[v]
               IN  /\ (moved /\ book' = book) \/ grown \/ lastRebalance' # lastRebalance
                        => (lastRebalance > 0
                              => ledger - lastRebalance >= MinRebalanceInterval)
                   /\ grown => ~breaker.paused /\ lastRebalance' = ledger
                   /\ book'.totalShares > book.totalShares => ~breaker.paused
    BY <1>1, <1>2, StepsOfTheVenues, MovesFindCooldown
       DEF VenueStep, Sends, SendsGuarded, Moves
  <1> QED
    BY <1>2, InitVenues, NextKeepsVenues, PTL DEF Spec, DeploymentsGuarded

-----------------------------------------------------------------------------
(* The breaker. *)

\* Only rebalance and rebalance_multi count failures.
LEMMA StepsOfTheBreaker ==
  ASSUME Inv, [Next]_vars
  PROVE  breaker'.failures <= breaker.failures \/ BreakerStep
  <1>0. breaker \in [paused : BOOLEAN, failures : Nat]
    BY DEF Inv, TypeOK
  <1>1. CASE UNCHANGED vars
    BY <1>0, <1>1, Stutters
  <1>2. CASE UserStep
    BY <1>0, <1>2, UserStepKeeps
  <1>3. CASE AllocationStep
    <2>1. ASSUME NEW minOut, NEW pays, NEW takes, HarvestRoundTrip(minOut, pays, takes)
          PROVE  BreakerStep
      BY <2>1 DEF HarvestRoundTrip, governance, BreakerStep
    <2>2. ASSUME NEW enabled, EnableMultiProtocol(enabled)
          PROVE  BreakerStep
      BY <2>2 DEF EnableMultiProtocol, BreakerStep
    <2> QED
      BY <1>3, <2>1, <2>2, VenueLimitsType, RebalanceShape, RebalanceMultiShape
         DEF AllocationStep, Harvest, EmergencyHarvest
  <1>4. CASE AdminStep
    <2>1. \/ breaker' = breaker
          \/ breaker'.failures <= breaker.failures
      BY <1>0, <1>4 DEF AdminStep, ReportYield, ReportLoss, Pause, EmergencyPause, Unpause,
         ResetCircuitBreaker, SetBreaker, SetMigrationTarget, SetMigrationPaused,
         SetMigration, governance
    <2> QED
      BY <2>1 DEF BreakerStep
  <1>5. CASE Environment
    BY <1>5 DEF Environment, CloseLedger, Accrue, BreakerStep
  <1> QED
    BY <1>1, <1>2, <1>3, <1>4, <1>5 DEF Next

\* A failure that reaches the threshold pauses the vault, whatever the threshold and
\* whatever pauses, resets and partial rebalances came between.
THEOREM BreakerAlwaysTrips ==
  ASSUME WithinWhole
  PROVE  Spec => BreakerTrips
  <1>1. ASSUME Inv, [Next]_vars, breaker'.failures > breaker.failures,
               breaker'.failures >= MaxConsecutiveFailures
        PROVE  breaker'.paused
    <2>1. breaker \in [paused : BOOLEAN, failures : Nat]
          /\ MaxConsecutiveFailures \in Nat
      BY <1>1, ParametersAssumption DEF Inv, TypeOK
    <2>2. ASSUME breaker'.failures <= breaker.failures
          PROVE  FALSE
      <3>1. breaker' \in [paused : BOOLEAN, failures : Nat]
        BY <1>1, NextPreserves DEF Inv, TypeOK
      <3> QED
        BY <1>1, <2>1, <2>2, <3>1
    <2>3. PICK status \in {"success", "failed", "partial", "noop"} :
            breaker' = Outcome(breaker, status)
      <3>1. breaker' # breaker
        BY <1>1, <2>1
      <3> QED
        BY <1>1, <2>2, <3>1, StepsOfTheBreaker DEF BreakerStep
    <2>4. status = "failed"
      <3>1. status # "failed" => breaker'.failures \in {0, breaker.failures}
        BY <2>1, <2>3 DEF Outcome
      <3> QED
        BY <1>1, <2>1, <3>1
    <2> QED
      BY <1>1, <2>1, <2>3, <2>4 DEF Outcome
  <1>2. ASSUME Inv, [Next]_vars
        PROVE  [breaker'.failures > breaker.failures
                  /\ breaker'.failures >= MaxConsecutiveFailures => breaker'.paused]_vars
    BY <1>1, <1>2
  <1> QED
    BY <1>2, Invariance, PTL DEF Spec, BreakerTrips

-----------------------------------------------------------------------------
(* Leaving the vault: what a recall brings back from venues that pay.       *)

\* A venue asked for no more than it has, and paying it, hands over the amount.
LEMMA PaysInFull ==
  ASSUME NEW f \in FundsType, NEW v \in Venues, NEW pays \in Flows, NEW asked \in Nat,
         asked <= f.pool[v], asked <= pays[v]
  PROVE  WithdrawFrom(f, v, asked, pays).idle = f.idle + asked
  <1>1. Lesser(Lesser(asked, f.pool[v]), pays[v]) = asked
    BY DEF Lesser
  <1>2. CASE asked = 0
    BY <1>1, <1>2, PoolType DEF WithdrawFrom
  <1>3. CASE asked > 0
    <2>1. WithdrawFrom(f, v, asked, pays)
            = [f EXCEPT !.idle = @ + asked, !.pool[v] = @ - asked,
                        !.protocol = IF f.pool[v] = asked THEN "none" ELSE @]
      BY <1>1, <1>3 DEF WithdrawFrom
    <2> QED
      BY <2>1 DEF FundsType
  <1> QED
    BY <1>2, <1>3

\* The blend's part of a proportional recall is within its position.
LEMMA BlendPartHolds ==
  ASSUME NEW n \in Nat, NEW b \in Nat, NEW D \in Nat \ {0}, n <= D
  PROVE  (n * b) \div D <= b
  <1> DEFINE q == (n * b) \div D
  <1>1. n * b \in Nat /\ n * b <= D * b
    BY MulMono
  <1>2. q \in Int /\ q * D <= n * b
    BY <1>1, DivBounds
  <1> HIDE DEF q
  <1>3. q * D < (b + 1) * D
    BY <1>1, <1>2
  <1> QED
    BY <1>2, <1>3, MulCancel DEF q

\* withdraw_proportionally loses nothing to its division: the two parts add up to
\* what is needed, and neither venue is asked for more than it has.
LEMMA FullAsk ==
  ASSUME NEW pool \in Flows, NEW needed \in Nat \ {0}, needed <= Deployed(pool)
  PROVE  LET ask == ProportionalAsk(pool, needed)
         IN  /\ ask["blend"] \in Nat /\ ask["blend"] <= pool["blend"]
             /\ ask["dex"] \in Nat /\ ask["dex"] <= pool["dex"]
             /\ ask["blend"] + ask["dex"] = needed
  <1> DEFINE D         == Deployed(pool)
             target    == Lesser(needed, D)
             fromBlend == (target * pool["blend"]) \div D
             fromDex   == Lesser(target - fromBlend, pool["dex"])
             spilled   == Lesser(target - fromDex, pool["blend"])
  <1>1. /\ pool["blend"] \in Nat /\ pool["dex"] \in Nat /\ D \in Nat \ {0}
        /\ D = pool["blend"] + pool["dex"]
    BY DEF Flows, Venues, Deployed
  <1>2. target = needed
    BY DEF Lesser
  <1>3. /\ ProportionalAsk(pool, needed)["blend"] = spilled
        /\ ProportionalAsk(pool, needed)["dex"] = fromDex
    BY DEF ProportionalAsk, Venues
  <1> HIDE DEF D, target
  <1>4. fromBlend \in Int /\ fromBlend >= 0 /\ fromBlend <= needed
    <2> DEFINE n == needed * pool["blend"]
    <2>1. n \in Nat /\ n <= needed * D
      BY <1>1, MulMono
    <2>2. fromBlend = n \div D
      BY <1>2
    <2> HIDE DEF fromBlend, n
    <2>3. fromBlend \in Int /\ fromBlend * D <= n /\ n < (fromBlend + 1) * D
      <3>1. D \in Nat \ {0} /\ n \in Int
        BY <1>1, <2>1
      <3> HIDE DEF n
      <3>2. n \div D \in Int /\ (n \div D) * D <= n /\ n < (n \div D + 1) * D
        BY <3>1, DivBounds
      <3> QED
        BY <2>2, <3>2
    <2>4. fromBlend * D < (needed + 1) * D
      BY <1>1, <2>1, <2>3
    <2>5. 0 * D < (fromBlend + 1) * D
      BY <1>1, <2>1, <2>3
    <2>6. fromBlend < needed + 1 /\ 0 < fromBlend + 1
      BY <1>1, <2>3, <2>4, <2>5, MulCancel
    <2> QED
      BY <2>3, <2>6
  <1>5. fromBlend <= pool["blend"]
    BY <1>1, <1>2, BlendPartHolds DEF D
  <1> HIDE DEF fromBlend
  <1>6. fromDex \in Nat /\ fromDex <= pool["dex"] /\ fromDex <= needed
    BY <1>1, <1>2, <1>4 DEF Lesser
  <1>7. spilled = needed - fromDex /\ spilled <= pool["blend"]
    <2>1. CASE fromDex = needed - fromBlend
      BY <1>1, <1>2, <1>4, <1>6, <1>5, <2>1 DEF Lesser
    <2>2. CASE fromDex # needed - fromBlend
      <3>1. fromDex = pool["dex"]
        BY <1>2, <2>2 DEF Lesser
      <3>2. needed - fromDex <= pool["blend"]
        BY <1>1, <3>1 DEF D
      <3> QED
        BY <1>1, <1>2, <1>6, <3>2 DEF Lesser
    <2> QED
      BY <2>1, <2>2
  <1> QED
    BY <1>3, <1>6, <1>7

\* A recall from venues that pay what they have brings the idle balance up to any
\* amount the vault owns, wherever CurrentProtocol says it is.
LEMMA RecallBringsBack ==
  ASSUME funds \in FundsType, Reachable(funds), NEW needed \in Nat,
         needed <= Custody(funds)
  PROVE  Recall(needed, funds.pool).idle >= needed
  <1> DEFINE pool == funds.pool
             missing == needed - funds.idle
  <1>1. /\ funds.idle \in Nat /\ pool \in Flows
        /\ pool["blend"] \in Nat /\ pool["dex"] \in Nat
        /\ Deployed(pool) = pool["blend"] + pool["dex"]
        /\ Custody(funds) = funds.idle + Deployed(pool)
    BY DEF FundsType, Flows, Venues, Deployed, Custody
  <1>2. CASE funds.idle >= needed
    BY <1>1, <1>2 DEF Recall
  <1>3. CASE funds.protocol = "none"
    <2>1. \A v \in Venues : ~(funds.pool[v] > 0)
      BY <1>3 DEF Reachable, Venues
    <2>2. pool["blend"] = 0 /\ pool["dex"] = 0
      BY <1>1, <2>1 DEF Venues
    <2> QED
      BY <1>1, <1>2, <2>2
  <1>4. CASE funds.protocol \in Venues /\ ~(funds.idle >= needed)
    <2> DEFINE v == funds.protocol
    <2>1. \A w \in Venues : w # v => ~(funds.pool[w] > 0)
      BY <1>4 DEF Reachable, Venues
    <2>2. Deployed(pool) = pool[v]
      BY <1>1, <1>4, <2>1 DEF Venues
    <2>3. missing \in Nat /\ missing <= pool[v]
      BY <1>1, <1>4, <2>2
    <2>4. Recall(needed, pool) = WithdrawFrom(funds, v, missing, pool)
      BY <1>4 DEF Recall, WithdrawAmountFromProtocol, Venues
    <2>5. Recall(needed, pool).idle = funds.idle + missing
      BY <1>1, <1>4, <2>3, <2>4, PaysInFull
    <2> QED
      BY <1>1, <2>5
  <1>5. CASE funds.protocol = "multi" /\ ~(funds.idle >= needed)
    <2> DEFINE ask == ProportionalAsk(pool, missing)
               f   == WithdrawFrom(funds, "blend", ask["blend"], pool)
               g   == WithdrawFrom(f, "dex", ask["dex"], pool)
    <2>1. missing \in Nat \ {0} /\ missing <= Deployed(pool)
      BY <1>1, <1>5
    <2>2. Recall(needed, pool) = WithdrawProportionally(funds, missing, pool)
      BY <1>5 DEF Recall, WithdrawAmountFromProtocol, Venues
    <2> HIDE DEF missing
    <2>3. /\ ask["blend"] \in Nat /\ ask["blend"] <= pool["blend"]
          /\ ask["dex"] \in Nat /\ ask["dex"] <= pool["dex"]
          /\ ask["blend"] + ask["dex"] = missing
      BY <1>1, <2>1, FullAsk
    <2>4. Recall(needed, pool) = SyncSummary(g)
      BY <1>1, <2>1, <2>2 DEF WithdrawProportionally
    <2> HIDE DEF ask
    <2>5. f.idle = funds.idle + ask["blend"]
      BY <1>1, <2>3, PaysInFull DEF Venues
    <2>6. "blend" \in Venues /\ "dex" \in Venues /\ "dex" # "blend"
      BY DEF Venues
    <2>7. f \in FundsType /\ f.pool["dex"] = pool["dex"]
      <3>1. ask["blend"] \in Int
        BY <2>3
      <3>2. /\ f \in FundsType
            /\ \A w \in Venues : w # "blend" => f.pool[w] = funds.pool[w]
        BY <1>1, <2>6, <3>1, WithdrawShape
      <3> QED
        BY <2>6, <3>2
    <2> HIDE DEF f
    <2>8. g.idle = f.idle + ask["dex"] /\ g \in FundsType
      <3>1. ask["dex"] \in Int
        BY <2>3
      <3>2. g \in FundsType
        BY <1>1, <2>7, <2>6, <3>1, WithdrawShape
      <3>3. ask["dex"] <= f.pool["dex"] /\ ask["dex"] <= pool["dex"]
        BY <2>3, <2>7
      <3>4. g.idle = f.idle + ask["dex"]
        BY <1>1, <2>3, <2>7, <2>6, <3>3, PaysInFull
      <3> QED
        BY <3>2, <3>4
    <2> HIDE DEF g
    <2>9. Recall(needed, pool).idle = g.idle
      BY <2>4, <2>8, SyncMoves
    <2> QED
      BY <1>1, <2>3, <2>5, <2>8, <2>9 DEF missing
  <1> QED
    BY <1>2, <1>3, <1>4, <1>5 DEF FundsType, Protocols

\* The worth of a holding is the quotient, between two multiples of the supply.
LEMMA WorthBounds ==
  ASSUME NEW s \in Nat \ {0}, NEW TS \in Nat \ {0}, NEW TA \in Nat \ {0}
  PROVE  LET worth == AssetsFromShares(s, TS, TA)
         IN  worth \in Nat /\ worth * TS <= s * TA /\ s * TA < (worth + 1) * TS
  <1> DEFINE n == s * TA
  <1>1. n \in Nat
    OBVIOUS
  <1>2. AssetsFromShares(s, TS, TA) = n \div TS
    BY DEF AssetsFromShares
  <1>3. AssetsFromShares(s, TS, TA) \in Nat
    BY FloorPays
  <1> HIDE DEF n
  <1>4. (n \div TS) * TS <= n /\ n < (n \div TS + 1) * TS
    BY <1>1, DivBounds
  <1> QED
    BY <1>2, <1>3, <1>4 DEF n

\* The shares burned for the whole worth of a holding are some of it, and worth as
\* much: rounding the shares up and their worth down meet again.
LEMMA WorthBurnsBack ==
  ASSUME NEW s \in Nat \ {0}, NEW TS \in Nat \ {0}, NEW TA \in Nat \ {0},
         AssetsFromShares(s, TS, TA) > 0
  PROVE  LET worth  == AssetsFromShares(s, TS, TA)
             burned == SharesCeil(worth, TS, TA)
         IN  /\ burned \in Nat \ {0} /\ burned <= s
             /\ AssetsFromShares(burned, TS, TA) = worth
  <1> DEFINE worth  == AssetsFromShares(s, TS, TA)
             burned == SharesCeil(worth, TS, TA)
             back   == AssetsFromShares(burned, TS, TA)
  <1>1. worth \in Nat \ {0} /\ worth * TS <= s * TA
    BY FloorPays
  <1> HIDE DEF worth
  <1>2. /\ burned \in Nat /\ worth * TS <= burned * TA
        /\ burned <= s
    <2>1. burned <= s
      BY <1>1, CeilWithinHolding
    <2>2. burned \in Nat /\ worth * TS <= burned * TA
      <3>1. worth \in Nat /\ TS \in Nat /\ TA \in Nat /\ TS > 0 /\ TA > 0
        BY <1>1
      <3>2. /\ SharesCeil(worth, TS, TA) \in Nat
            /\ TS > 0 /\ TA > 0 => worth * TS <= SharesCeil(worth, TS, TA) * TA
        BY <3>1, CeilBurns
      <3> QED
        BY <3>1, <3>2
    <2> QED
      BY <2>1, <2>2
  <1> HIDE DEF burned
  <1>3. burned # 0
    <2>1. ASSUME burned = 0
          PROVE  FALSE
      <3>1. worth * TS <= 0
        BY <1>2, <2>1
      <3>2. worth * TS >= 1 * TS
        BY <1>1, MulMono
      <3> QED
        BY <1>1, <3>1, <3>2
    <2> QED
      BY <2>1
  <1>4. back \in Nat /\ back * TS <= burned * TA /\ burned * TA < (back + 1) * TS
    BY <1>2, <1>3, WorthBounds
  <1> HIDE DEF back
  <1>5. worth <= back
    <2>1. worth * TS < (back + 1) * TS
      BY <1>1, <1>2, <1>4
    <2>2. worth < back + 1
      BY <1>1, <1>4, <2>1, MulCancel
    <2> QED
      BY <1>1, <1>4, <2>2
  <1>6. back <= worth
    <2>1. s * TA < (worth + 1) * TS
      BY WorthBounds DEF worth
    <2>2. burned * TA <= s * TA
      BY <1>2, MulMono
    <2>3. back * TS < (worth + 1) * TS
      BY <1>1, <1>2, <1>4, <2>1, <2>2
    <2>4. back < worth + 1
      BY <1>1, <1>4, <2>3, MulCancel
    <2> QED
      BY <1>1, <1>4, <2>4
  <1> QED
    BY <1>1, <1>2, <1>3, <1>4, <1>5, <1>6 DEF worth, burned, back

\* A holder whose shares are worth something has shares, in a vault with assets that
\* a paying recall brings back.
LEMMA ExitBringsBack ==
  ASSUME VInv, Solvency, NEW u \in Users, Value(book, u) > 0
  PROVE  /\ Value(book, u) \in Nat \ {0}
         /\ Recall(Value(book, u), funds.pool).idle >= Value(book, u)
         /\ book.shares[u] \in Nat \ {0}
         /\ book.totalShares \in Nat \ {0} /\ book.totalAssets \in Nat \ {0}
  <1>1. /\ Inv /\ funds \in FundsType /\ Reachable(funds)
        /\ book.shares[u] \in Nat /\ book.totalShares \in Nat /\ book.totalAssets \in Nat
    BY VInvParts, InvParts DEF BookOK, BookType
  <1>2. book.shares[u] # 0 /\ book.totalShares # 0 /\ book.totalAssets # 0
    BY <1>1 DEF Value, WorthOf, AssetsFromShares
  <1>3. Value(book, u) \in Nat /\ Value(book, u) <= book.totalAssets
    BY <1>1, InvParts, WorthWithinAssets DEF Value
  <1>4. Custody(funds) \in Nat /\ book.totalAssets <= Custody(funds)
    BY <1>1, InvParts DEF Solvency
  <1>5. Value(book, u) <= Custody(funds)
    BY <1>1, <1>3, <1>4
  <1> QED
    BY <1>1, <1>2, <1>3, <1>5, RecallBringsBack

\* withdraw_all lets every holder of an active vault out: with paying venues no check
\* is in the way, all shares are burned and their whole worth is paid.
THEOREM EveryoneLeaves ==
  ASSUME WithinWhole
  PROVE  Spec => []EveryoneCanLeave
  <1>1. ASSUME VInv, Solvency
        PROVE  EveryoneCanLeave
    <2> SUFFICES ASSUME NEW u \in Users,
                        ~breaker.paused, locks[u].amount <= 0,
                        Value(book, u) > 0, Admitted(<<"withdraw", u>>)
                 PROVE  LET recalled == Recall(Value(book, u), funds.pool)
                        IN  /\ AllowsWithdrawAll(u, recalled)
                            /\ PaidForAll(u, recalled) = Value(book, u)
                            /\ BurnedForAll(u, recalled) = book.shares[u]
      BY DEF EveryoneCanLeave
    <2> DEFINE recalled == Recall(Value(book, u), funds.pool)
    <2>1. /\ Value(book, u) \in Nat \ {0} /\ recalled.idle >= Value(book, u)
          /\ book.shares[u] \in Nat \ {0}
          /\ book.totalShares \in Nat \ {0} /\ book.totalAssets \in Nat \ {0}
      BY <1>1, ExitBringsBack
    <2>2. funds.idle \in Nat /\ recalled.idle \in Nat
      BY <1>1, <2>1, VInvParts, InvParts, RecallMoves DEF FundsType, Flows
    <2> HIDE DEF recalled
    <2>3. Unlocked(u) = book.shares[u] /\ Entitled(u) = Value(book, u)
      <3>1. locks[u].amount \in Int
        BY <1>1, VInvParts DEF Inv, TypeOK
      <3> QED
        BY <3>1 DEF Unlocked, Entitled, Value
    <2>4. ~FallsShort(u, recalled)
      BY <2>1, <2>2, <2>3 DEF FallsShort
    <2>5. /\ PaidForAll(u, recalled) = Value(book, u)
          /\ BurnedForAll(u, recalled) = book.shares[u]
      BY <2>3, <2>4 DEF PaidForAll, BurnedForAll
    <2>6. AllowsWithdrawAll(u, recalled)
      BY <2>1, <2>2, <2>3, <2>5 DEF AllowsWithdrawAll, NotPaused
    <2> QED
      BY <2>5, <2>6 DEF recalled
  <1> QED
    BY <1>1, InitVenues, NextKeepsVenues, Solvent, PTL DEF Spec

\* The emergency exit of a paused vault lets every holder out whatever the locks: the
\* shares burned for their whole worth are no more than held, and worth as much.
THEOREM EmergencyExitStaysOpen ==
  ASSUME WithinWhole
  PROVE  Spec => []EmergencyExitOpen
  <1>1. ASSUME VInv, Solvency
        PROVE  EmergencyExitOpen
    <2> SUFFICES ASSUME NEW u \in Users, breaker.paused, Value(book, u) > 0
                 PROVE  LET worth    == Value(book, u)
                            recalled == Recall(worth, funds.pool)
                        IN  /\ AllowsEmergencyWithdraw(u, worth, recalled)
                            /\ Lesser(worth, recalled.idle) = worth
                            /\ WorthOf(book, BurnedFor(book, worth)) = worth
      BY DEF EmergencyExitOpen
    <2> DEFINE worth    == Value(book, u)
               recalled == Recall(worth, funds.pool)
               burned   == BurnedFor(book, worth)
    <2>1. /\ worth \in Nat \ {0} /\ recalled.idle >= worth
          /\ book.shares[u] \in Nat \ {0}
          /\ book.totalShares \in Nat \ {0} /\ book.totalAssets \in Nat \ {0}
      BY <1>1, ExitBringsBack
    <2>2. /\ burned \in Nat \ {0} /\ burned <= book.shares[u]
          /\ WorthOf(book, burned) = worth
      BY <2>1, WorthBurnsBack DEF Value, WorthOf, BurnedFor
    <2> HIDE DEF worth, recalled, burned
    <2>3. Lesser(worth, recalled.idle) = worth
      BY <2>1 DEF Lesser
    <2>4. Redeemable(u, recalled, worth)
      BY <2>1, <2>2 DEF Redeemable, burned
    <2>5. AllowsEmergencyWithdraw(u, worth, recalled)
      BY <2>1, <2>3, <2>4 DEF AllowsEmergencyWithdraw
    <2> QED
      BY <2>2, <2>3, <2>5 DEF worth, recalled, burned
  <1> QED
    BY <1>1, InitVenues, NextKeepsVenues, Solvent, PTL DEF Spec
================================================================================
