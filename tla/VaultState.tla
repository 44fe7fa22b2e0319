------------------------------ MODULE VaultState -------------------------------
(***************************************************************************)
(* Storage of the NeuroWealth vault contract, and the guards its entry     *)
(* points share.                                                           *)
(*                                                                         *)
(* Every entry point runs as one transaction: it either commits all its    *)
(* writes or, on a failed check, an arithmetic overflow or a failed token  *)
(* transfer, none.  So an entry point is one action, and a call that       *)
(* panics is a call that does not happen.                                  *)
(***************************************************************************)
EXTENDS Integers, FiniteSets, ShareMath, Funds

CONSTANTS
  Users,                   \* depositors
  Agent,                   \* the agent's account, which pays batch deposits
  ConfiguredVenues,        \* venues whose pool address is set
  MinDeposit, MaxDeposit,  \* bounds of a single deposit
  UserDepositCap, TvlCap,  \* 0 = no cap
  MinHoldingPeriod,        \* ledgers a deposit must age before `withdraw'
  MinRebalanceInterval,    \* cooldown between two movements to the venues
  MaxConsecutiveFailures,  \* circuit breaker threshold
  MaxCalls,                \* rate limit of each category, 0 = no limit
  WindowLedgers            \* length of a rate limit window

CONSTANTS
  InitialUsdc,             \* USDC each user and the agent start with
  MaxLedger,               \* bound: last ledger of a behaviour
  MaxAccrual,              \* bound: yield the venues pay in a behaviour
  MaxFailures              \* bound: failed rebalances the breaker counts

Categories == {"deposit", "withdraw", "batch", "rebalance"}
Buckets    == ({"deposit", "withdraw"} \X Users)
                \cup {<<"batch", Agent>>, <<"rebalance", "global">>}
Payers     == Users \cup {Agent}

ASSUME ParametersAssumption ==
  /\ IsFiniteSet(Users)
  /\ Agent \notin Users
  /\ ConfiguredVenues \subseteq Venues
  /\ MinDeposit \in Nat /\ MaxDeposit \in Nat
  /\ UserDepositCap \in Nat /\ TvlCap \in Nat
  /\ MinHoldingPeriod \in Nat /\ MinRebalanceInterval \in Nat
  /\ MaxConsecutiveFailures \in Nat \ {0}
  /\ MaxCalls \in [Categories -> Nat]
  /\ WindowLedgers \in Nat \ {0}
  /\ InitialUsdc \in Nat /\ MaxLedger \in Nat \ {0} /\ MaxAccrual \in Nat
  /\ MaxFailures \in Nat

-----------------------------------------------------------------------------
(***************************************************************************)
(* The fixed-window rate limiter of the vault (enforce_rate_limit): at most *)
(* `max' calls in a window of `window' ledgers that opens with the first   *)
(* call made after the previous window has run out.                        *)
(*                                                                         *)
(* A stored RateLimitState is [start, calls] and always has calls >= 1;    *)
(* calls = 0 stands for a bucket that was never written.                   *)
(***************************************************************************)

NoBucket == [start |-> 0, calls |-> 0]

\* The window a call made at ledger `now' is counted in.
Window(bucket, now, window) ==
  IF bucket.calls > 0 /\ now - bucket.start < window
    THEN bucket
    ELSE [start |-> now, calls |-> 0]

\* max = 0 turns the limit off: the code returns before it reads the bucket.
Admits(bucket, now, window, max) ==
  max = 0 \/ Window(bucket, now, window).calls < max

Charged(bucket, now, window, max) ==
  IF max = 0 THEN bucket
  ELSE [Window(bucket, now, window) EXCEPT !.calls = @ + 1]

-----------------------------------------------------------------------------
VARIABLES
  book,          \* share ledger (module Book)
  funds,         \* where the USDC is (module Funds)
  wallet,        \* USDC of the users and of the agent
  holders,       \* UserSharesIndex, the set of users ever indexed
  lastDeposit,   \* LastDepositLedger(u), 0 = never
  locks,         \* LockedShares(u) and LockExpiry(u), expiry 0 = no entry
  breaker,       \* Paused and ConsecutiveFailures
  mode,          \* MultiProtocolEnabled and the two allocation targets
  lastRebalance, \* LastRebalanceLedger, 0 = never
  migration,     \* MigrationTarget is set, MigrationPaused, USDC sent there
  calls,         \* rate limit buckets
  ledger,        \* ledger sequence number, from 1
  accrued        \* yield the venues have paid so far

accounting == <<book, funds, wallet>>
governance == <<breaker, mode, migration>>
vars == <<book, funds, wallet, holders, lastDeposit, locks, breaker, mode,
          lastRebalance, migration, calls, ledger, accrued>>

Init ==
  /\ book = [shares        |-> [u \in Users |-> 0],
             totalShares   |-> 0,
             totalAssets   |-> 0,
             totalDeposits |-> 0]
  /\ funds = [idle     |-> 0,
              pool     |-> [v \in Venues |-> 0],
              protocol |-> "none",
              deployed |-> [v \in Venues |-> 0]]
  /\ wallet = [p \in Payers |-> InitialUsdc]
  /\ holders = {}
  /\ lastDeposit = [u \in Users |-> 0]
  /\ locks = [u \in Users |-> [amount |-> 0, expiry |-> 0]]
  /\ breaker = [paused |-> FALSE, failures |-> 0]
  /\ mode = [multi |-> FALSE, bps |-> [v \in Venues |-> 0]]
  /\ lastRebalance = 0
  /\ migration = [target |-> FALSE, paused |-> FALSE, received |-> 0]
  /\ calls = [k \in Buckets |-> NoBucket]
  /\ ledger = 1
  /\ accrued = 0

-----------------------------------------------------------------------------
(* Guards shared by the entry points. *)

NotPaused == ~breaker.paused

(* enforce_user_rate_limit, enforce_global_rate_limit *)
Admitted(k) == Admits(calls[k], ledger, WindowLedgers, MaxCalls[k[1]])
Charge(k)   == calls' = [calls EXCEPT
                 ![k] = Charged(@, ledger, WindowLedgers, MaxCalls[k[1]])]

\* Mutant of CooldownElapsed: off by one.
CooldownAlmostElapsed ==
  MinRebalanceInterval > 0 /\ lastRebalance > 0
    => ledger - lastRebalance >= MinRebalanceInterval - 1

(* The rebalance cooldown that rebalance, rebalance_multi, harvest and     *)
(* emergency_harvest check.                                                *)
CooldownElapsed ==
  MinRebalanceInterval > 0 /\ lastRebalance > 0
    => ledger - lastRebalance >= MinRebalanceInterval

(* require_positive_amount, require_minimum_deposit, require_maximum_deposit *)
DepositSizeOk(a) == a > 0 /\ a >= MinDeposit /\ a <= MaxDeposit

(* require_within_deposit_cap *)
WithinUserCap(b, u, a) == UserDepositCap > 0 => Value(b, u) + a <= UserDepositCap

\* Mutant of WithinTvlCap: compares before the deposit is added.
TvlCapNotReached(b, a) == TvlCap > 0 => b.totalAssets <= TvlCap

(* require_within_tvl_cap *)
WithinTvlCap(b, a) == TvlCap > 0 => b.totalAssets + a <= TvlCap

-----------------------------------------------------------------------------
(* Environment. *)

\* A ledger closes.
CloseLedger ==
  /\ ledger < MaxLedger
  /\ ledger' = ledger + 1
  /\ UNCHANGED <<book, funds, wallet, holders, lastDeposit, locks, breaker,
                 mode, lastRebalance, migration, calls, accrued>>

\* Yield accrues to a position; TotalAssets does not know of it yet.
Accrue(v) ==
  /\ funds.pool[v] > 0
  /\ accrued < MaxAccrual
  /\ accrued' = accrued + 1
  /\ funds' = [funds EXCEPT !.pool[v] = @ + 1]
  /\ UNCHANGED <<book, wallet, holders, lastDeposit, locks, breaker, mode,
                 lastRebalance, migration, calls, ledger>>
================================================================================
