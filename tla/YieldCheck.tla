------------------------------- MODULE YieldCheck -------------------------------
(***************************************************************************)
(* The yield-check job (yieldCheckJob.ts): a run reads the vault, decides   *)
(* on a rebalance and submits it within a time limit.  The submission goes  *)
(* on after the limit, and keeps the hash of what it sent so that no later  *)
(* run submits over an unknown outcome.                                     *)
(***************************************************************************)
EXTENDS Integers, FiniteSets, Sequences

CONSTANTS
  Checks,       \* executions of runOnce that may be under way at once
  Protocols,    \* the registered adapters
  MaxTxs,       \* transactions built in a behaviour
  MaxRestarts

ASSUME YieldAssumption == MaxTxs \in Nat /\ MaxRestarts \in Nat

VARIABLES
  deployed,     \* the vault's current protocol
  check,        \* where each run stands
  target,       \* bestProtocol of each run
  submission,   \* where each run's submitRebalance stands
  txHash,       \* the hash each submission has built
  pendingHash,  \* pendingRebalanceHash; 0: null
  txs,          \* the transactions built: destination and fate
  txCount,        \* how many
  reports,      \* the results with rebalanceTriggered: <<destination, hash>>
  forgotten,    \* transactions built by a process that has restarted
  yieldRestarts

yieldVars == <<deployed, check, target, submission, txHash, pendingHash, txs, txCount,
               reports, forgotten, yieldRestarts>>

Hashes == 1 .. MaxTxs
Unbuilt == [to |-> CHOOSE p \in Protocols : TRUE, fate |-> "unbuilt"]

YieldTypeOK ==
  /\ deployed \in Protocols
  /\ check \in [Checks -> {"idle", "reading", "submitting", "reconciling"}]
  /\ target \in [Checks -> Protocols]
  /\ submission \in [Checks -> {"none", "resolving", "building", "sending", "polling"}]
  /\ txHash \in [Checks -> 0 .. MaxTxs] /\ pendingHash \in 0 .. MaxTxs
  /\ txs \in [Hashes -> [to : Protocols,
                fate : {"unbuilt", "signed", "air", "success", "failed", "dropped"}]]
  /\ txCount \in 0 .. MaxTxs
  /\ reports \subseteq Protocols \X Hashes
  /\ forgotten \subseteq Hashes
  /\ yieldRestarts \in 0 .. MaxRestarts

YieldInit ==
  /\ deployed \in Protocols
  /\ check = [c \in Checks |-> "idle"] /\ target = [c \in Checks |-> Unbuilt.to]
  /\ submission = [c \in Checks |-> "none"]
  /\ txHash = [c \in Checks |-> 0] /\ pendingHash = 0 /\ txs = [t \in Hashes |-> Unbuilt] /\ txCount = 0
  /\ reports = {} /\ forgotten = {} /\ yieldRestarts = 0

vault == <<deployed, txHash, txs, txCount>>
world == <<deployed, txHash, txs, txCount, forgotten, yieldRestarts>>

\* The interval, or runOnce called on demand.
RunOnce(c) ==
  /\ check[c] = "idle" /\ submission[c] = "none"
  /\ check' = [check EXCEPT ![c] = "reading"]
  /\ UNCHANGED <<target, submission, pendingHash, reports>> /\ UNCHANGED world

\* Cooldown, no usable APY, already the best, or a dependency timed out.
SkipRebalance(c) ==
  /\ check[c] = "reading"
  /\ check' = [check EXCEPT ![c] = "idle"]
  /\ UNCHANGED <<target, submission, pendingHash, reports>> /\ UNCHANGED world

\* apyFetchers: rates that are configured, so that any protocol may have the best one.
Rated == Protocols
\* Any usable APY may beat that of the protocol the vault is in.
Better == Rated \ {deployed}

DecideRebalance(c, best) ==
  /\ check[c] = "reading" /\ best \in Better /\ txCount < MaxTxs
  /\ target' = [target EXCEPT ![c] = best]
  /\ check' = [check EXCEPT ![c] = "submitting"]
  /\ submission' = [submission EXCEPT ![c] = "resolving"]
  /\ UNCHANGED <<pendingHash, reports>> /\ UNCHANGED world

Ends(c) == submission' = [submission EXCEPT ![c] = "none"]

\* The row of yield_check_history with rebalance_triggered.
Stored(c, hash) == reports \cup {<<target[c], hash>>}

\* The promise settles: a run that still waits reports, reconciles or ends;
\* for one whose limit has passed nothing changes.
Returns(c, hash) ==
  /\ Ends(c)
  /\ IF check[c] = "submitting"
     THEN /\ check' = [check EXCEPT ![c] = "idle"]
          /\ reports' = Stored(c, hash)
     ELSE UNCHANGED <<check, reports>>

Throws(c, uncertain) ==
  /\ Ends(c)
  /\ check' = IF check[c] # "submitting" THEN check
              ELSE [check EXCEPT ![c] = IF uncertain THEN "reconciling" ELSE "idle"]
  /\ UNCHANGED reports

\* getTransaction of the pending hash.
Pending == IF pendingHash = 0 THEN "none" ELSE txs[pendingHash].fate

MayBuild == Pending \in {"none", "failed"}

Resolves(c) ==
  /\ submission[c] = "resolving" /\ MayBuild
  /\ submission' = [submission EXCEPT ![c] = "building"] /\ pendingHash' = 0
  /\ UNCHANGED <<check, target, reports>> /\ UNCHANGED world

PriorSucceeded(c) ==
  /\ submission[c] = "resolving" /\ Pending = "success"
  /\ pendingHash' = 0 /\ Returns(c, pendingHash)
  /\ UNCHANGED target /\ UNCHANGED world

PriorUncertain(c) ==
  /\ submission[c] = "resolving" /\ Pending \notin {"none", "failed", "success"}
  /\ Throws(c, TRUE)
  /\ UNCHANGED <<target, pendingHash>> /\ UNCHANGED world

Build(c) ==
  /\ submission[c] = "building" /\ txCount < MaxTxs
  /\ txCount' = txCount + 1
  /\ txs' = [txs EXCEPT ![txCount'] = [to |-> target[c], fate |-> "signed"]]
  /\ pendingHash' = txCount' /\ txHash' = [txHash EXCEPT ![c] = txCount']
  /\ submission' = [submission EXCEPT ![c] = "sending"]
  /\ UNCHANGED <<deployed, check, target, reports, forgotten, yieldRestarts>>

\* getAccount or prepareTransaction fails before there is a hash.
BuildFails(c) ==
  /\ submission[c] = "building"
  /\ \E uncertain \in BOOLEAN : Throws(c, uncertain)
  /\ UNCHANGED <<target, pendingHash>> /\ UNCHANGED world

Sends(c, fate) ==
  /\ submission[c] = "sending"
  /\ txs' = [txs EXCEPT ![txHash[c]].fate = fate]
  /\ UNCHANGED <<deployed, txCount, target, txHash, forgotten, yieldRestarts>>

SendAccepted(c) ==
  /\ Sends(c, "air") /\ submission' = [submission EXCEPT ![c] = "polling"]
  /\ pendingHash' = txHash[c]
  /\ UNCHANGED <<check, reports>>

SendRejected(c) == Sends(c, "failed") /\ pendingHash' = 0 /\ Throws(c, FALSE)

\* A send that failed keeps the hash.
AfterLostSend == pendingHash

\* The request fails: the transaction has gone out, or it has not.
SendLost(c) ==
  /\ \E fate \in {"air", "dropped"} : Sends(c, fate)
  /\ pendingHash' = AfterLostSend /\ Throws(c, TRUE)

PollSucceeds(c) ==
  /\ submission[c] = "polling" /\ txs[txHash[c]].fate = "success"
  /\ pendingHash' = 0 /\ Returns(c, txHash[c])
  /\ UNCHANGED target /\ UNCHANGED world

\* An hour lies between two runs: the polls of a check end before the next check
\* builds a transaction, unless its time limit cut it off.
PollFails(c) ==
  /\ submission[c] = "polling" /\ txs[txHash[c]].fate = "failed"
  /\ pendingHash' = 0 /\ Throws(c, FALSE)
  /\ UNCHANGED target /\ UNCHANGED world

PollsRunOut(c) ==
  /\ submission[c] = "polling" /\ txs[txHash[c]].fate \in {"air", "dropped"}
  /\ Throws(c, TRUE)
  /\ UNCHANGED <<target, pendingHash>> /\ UNCHANGED world

\* dependencyTimeoutMs is shorter than the thirty polls.
LimitPasses(c) ==
  /\ check[c] = "submitting"
  /\ check' = [check EXCEPT ![c] = "reconciling"]
  /\ UNCHANGED <<target, submission, pendingHash, reports>> /\ UNCHANGED world

\* Mutant of Confirmed: a hash that is pending counts as a rebalance.
ConfirmedIfPending == pendingHash # 0
Confirmed == Pending = "success"

ReconcileRebalance(c) ==
  /\ check[c] = "reconciling"
  /\ check' = [check EXCEPT ![c] = "idle"]
  /\ reports' = IF Confirmed THEN Stored(c, pendingHash) ELSE reports
  /\ pendingHash' = IF Confirmed \/ MayBuild THEN 0 ELSE pendingHash
  /\ UNCHANGED <<target, submission>> /\ UNCHANGED world

\* The network: a transaction expires unseen thirty seconds after its build.
Settles(t, fate) ==
  /\ txs[t].fate = "air"
  /\ txs' = [txs EXCEPT ![t].fate = fate]
  /\ deployed' = IF fate = "success" THEN txs[t].to ELSE deployed
  /\ UNCHANGED <<check, target, submission, txHash, pendingHash, txCount, reports, forgotten,
                 yieldRestarts>>

RestartJob ==
  /\ yieldRestarts < MaxRestarts /\ yieldRestarts' = yieldRestarts + 1
  /\ check' = [c \in Checks |-> "idle"] /\ submission' = [c \in Checks |-> "none"]
  /\ pendingHash' = 0 /\ forgotten' = 1 .. txCount
  /\ UNCHANGED <<target, reports>> /\ UNCHANGED vault

YieldNext ==
  \/ RestartJob
  \/ \E t \in Hashes, fate \in {"success", "failed", "dropped"} : Settles(t, fate)
  \/ \E c \in Checks :
       \/ RunOnce(c) \/ SkipRebalance(c) \/ \E p \in Protocols : DecideRebalance(c, p)
       \/ Resolves(c) \/ PriorSucceeded(c) \/ PriorUncertain(c) \/ Build(c) \/ BuildFails(c)
       \/ SendAccepted(c) \/ SendRejected(c) \/ SendLost(c) \/ PollSucceeds(c)
       \/ PollFails(c) \/ PollsRunOut(c) \/ LimitPasses(c) \/ ReconcileRebalance(c)

YieldSpec == YieldInit /\ [][YieldNext]_yieldVars

InTheAir == {t \in Hashes : txs[t].fate = "air"}

(***************************************************************************)
(* One process whose runs do not overlap never has two rebalances that may  *)
(* still land, although a run's limit passes and its answers are lost.      *)
(***************************************************************************)
OneInTheAir == Cardinality(InTheAir \ forgotten) <= 1

(***************************************************************************)
(* A result says "rebalanceTriggered" only with a transaction that landed,  *)
(* whether it was polled, found again or reconciled.                        *)
(***************************************************************************)
TriggeredHasLanded == \A r \in reports : txs[r[2]].fate = "success"

-----------------------------------------------------------------------------
(***************************************************************************)
(* The preferences of the depositors as one allocation                      *)
(* (strategyAggregator.ts): strategies are read in batches, counted, and    *)
(* averaged into shares of Blend and DEX that are rounded one by one.       *)
(***************************************************************************)

CONSTANTS
  depositorBatch,  \* batchSize: depositors asked at once
  DepositorNumbers \* how many depositors there may be in a cycle

ASSUME MixAssumption == depositorBatch \in Nat \ {0} /\ DepositorNumbers \subseteq Nat

Strategies == {"conservative", "balanced", "growth"}

\* STRATEGY_WEIGHTS
BlendWeight == [conservative |-> 10000, balanced |-> 6000, growth |-> 2000]
DexWeight == [conservative |-> 0, balanced |-> 4000, growth |-> 8000]

VARIABLES
  depositors,  \* answer of getActiveDepositors: how many there are
  counts,
  latest       \* latestDistribution, which the API hands out; nobody's before the first

mixVars == <<depositors, counts, latest>>

NoCounts == [s \in Strategies |-> 0]
Total(c) == c["conservative"] + c["balanced"] + c["growth"]
Weighted(c, w) ==
  c["conservative"] * w["conservative"] + c["balanced"] * w["balanced"] + c["growth"] * w["growth"]

MixTypeOK ==
  /\ depositors \in DepositorNumbers
  /\ counts \in [Strategies -> Nat] /\ latest \in [Strategies -> Nat]

Rounded(a, n) == (2 * a + n) \div (2 * n)

\* computeAggregateAllocation; balanced where nobody deposited.
Aggregate(c) ==
  IF Total(c) = 0 THEN [blend |-> BlendWeight["balanced"], dex |-> DexWeight["balanced"]]
  ELSE [blend |-> Rounded(Weighted(c, BlendWeight), Total(c)),
        dex |-> Rounded(Weighted(c, DexWeight), Total(c))]

MixInit ==
  /\ depositors \in DepositorNumbers /\ counts = NoCounts /\ latest = NoCounts

Left == depositors - Total(counts)

BatchSize == IF Left < depositorBatch THEN Left ELSE depositorBatch

\* Promise.allSettled over the next depositors.  Those whose strategy is unset,
\* or whose request fails, count as balanced.
CountBatch ==
  /\ Left > 0
  /\ \E conservative, growth \in 0 .. BatchSize :
       /\ conservative + growth <= BatchSize
       /\ counts' = [conservative |-> counts["conservative"] + conservative,
                     growth       |-> counts["growth"] + growth,
                     balanced     |-> counts["balanced"] + BatchSize - (conservative + growth)]
  /\ UNCHANGED <<depositors, latest>>

\* The distribution is complete (it is logged, stored and kept for the API); the
\* next cycle begins.
SetLatestDistribution ==
  /\ Left = 0
  /\ latest' = counts /\ counts' = NoCounts /\ depositors' \in DepositorNumbers

\* The depositors cannot be read: the loop keeps the latest distribution for its hour.
CycleFails ==
  /\ counts = NoCounts /\ depositors' \in DepositorNumbers
  /\ UNCHANGED <<counts, latest>>

MixNext == CountBatch \/ SetLatestDistribution \/ CycleFails

MixSpec == MixInit /\ [][MixNext]_mixVars

(***************************************************************************)
(* The two shares, of the cycle under way and of the one the API hands out, *)
(* add up to the whole, or to one basis point more, never to less: nobody's *)
(* deposit is left unallocated by the rounding.                             *)
(***************************************************************************)
MixIsWhole ==
  \A c \in {counts, latest} : LET a == Aggregate(c) IN a.blend + a.dex \in {10000, 10001}

-----------------------------------------------------------------------------
(***************************************************************************)
(* The APY samples of the Blend pool (agent/src/blendApyFetcher.ts): a call *)
(* takes the sample in Redis, or else asks the pool, stamps the answer and  *)
(* stores it for SampleLife; when the pool fails it looks in Redis once     *)
(* more.  Calls overlap, and Redis may be out of reach at any of them.      *)
(***************************************************************************)

CONSTANTS
  Rates,       \* supply rates of the pool
  Readers,     \* calls of getBlendApySample
  SampleLife,  \* REDIS_TTL_SECONDS in ticks
  MaxTicks,    \* length of a behaviour
  MaxSamples,  \* calls in a behaviour
  Outages      \* may Redis be out of reach?

ASSUME ApyAssumption ==
  SampleLife \in Nat /\ MaxTicks \in Nat \ {0} /\ MaxSamples \in Nat
  /\ Outages \in BOOLEAN

VARIABLES
  rates,    \* the pool's rate at every tick so far
  sample,   \* what Redis holds under apy:blend, <<>> for nothing
  life,     \* ticks until it expires
  reader,   \* where each call stands
  finding,  \* what it has found
  served,   \* samples returned
  everStored,   \* has a sample ever been stored?
  begun     \* calls begun

apyVars == <<rates, sample, life, reader, finding, served, everStored, begun>>

Now == Len(rates)

\* asked is when the request went out, observedAt the stamp.
Samples == [rate : Rates, asked : 1 .. MaxTicks, observedAt : 1 .. MaxTicks]
Found(rate, asked, stamp) == [rate |-> rate, asked |-> asked, observedAt |-> stamp]

ApyTypeOK ==
  /\ rates \in Seq(Rates) /\ Now \in 1 .. MaxTicks
  /\ sample = <<>> \/ sample \in Samples
  /\ life \in 0 .. SampleLife
  /\ reader \in [Readers -> {"idle", "reading", "fetching", "answered", "storing",
                             "fallback", "threw"}]
  /\ \A r \in Readers : finding[r] = <<>> \/ finding[r] \in Samples
  /\ served \subseteq Samples /\ everStored \in BOOLEAN /\ begun \in 0 .. MaxSamples

ApyInit ==
  /\ \E rate \in Rates : rates = <<rate>>
  /\ sample = <<>> /\ life = 0
  /\ reader = [r \in Readers |-> "idle"] /\ finding = [r \in Readers |-> <<>>]
  /\ served = {} /\ everStored = FALSE /\ begun = 0

Steps(r, from, to) == reader[r] = from /\ reader' = [reader EXCEPT ![r] = to]
cache == <<sample, life, everStored>>

GetBlendApySample(r) ==
  /\ reader[r] \in {"idle", "threw"} /\ begun < MaxSamples
  /\ reader' = [reader EXCEPT ![r] = "reading"] /\ begun' = begun + 1
  /\ UNCHANGED <<rates, finding, served, cache>>

Answered(r, found) ==
  /\ served' = served \cup {found}
  /\ finding' = [finding EXCEPT ![r] = <<>>]

\* Redis holds a sample and can be reached.
CacheHit(r, at) ==
  /\ Steps(r, at, "idle") /\ sample # <<>>
  /\ Answered(r, sample)
  /\ UNCHANGED <<rates, cache, begun>>

\* It holds none, or it cannot be reached: readCachedSample returns null.
Missed == sample = <<>> \/ Outages

CacheMiss(r) ==
  /\ Steps(r, "reading", "fetching") /\ Missed
  /\ \E rate \in Rates : finding' = [finding EXCEPT ![r] = Found(rate, Now, Now)]
  /\ UNCHANGED <<rates, served, cache, begun>>

\* The pool executes get_reserve.
PoolReads(r) ==
  /\ Steps(r, "fetching", "answered")
  /\ finding' = [finding EXCEPT ![r].rate = rates[Now]]
  /\ UNCHANGED <<rates, served, cache, begun>>

Stamp(r) == Now

\* The answer arrives and is stamped.
Stamps(r) ==
  /\ Steps(r, "answered", "storing")
  /\ finding' = [finding EXCEPT ![r].observedAt = Stamp(r)]
  /\ UNCHANGED <<rates, served, cache, begun>>

\* the sample is stored, or Redis cannot be reached and it is only returned.
StoresSample(r) ==
  /\ Steps(r, "storing", "idle")
  /\ \/ sample' = finding[r] /\ life' = SampleLife /\ everStored' = TRUE
     \/ Outages /\ UNCHANGED cache
  /\ Answered(r, finding[r])
  /\ UNCHANGED <<rates, begun>>

PoolFails(r) ==
  /\ reader[r] \in {"fetching", "answered"}
  /\ reader' = [reader EXCEPT ![r] = "fallback"]
  /\ finding' = [finding EXCEPT ![r] = <<>>]
  /\ UNCHANGED <<rates, served, cache, begun>>

\* The error is passed on when the second look finds nothing.
SampleThrows(r) ==
  /\ Steps(r, "fallback", "threw") /\ Missed
  /\ UNCHANGED <<rates, finding, served, cache, begun>>

\* Time passes, the pool's rate moves and Redis drops what has expired.
ApyTick ==
  /\ Now < MaxTicks
  /\ \E rate \in Rates : rates' = Append(rates, rate)
  /\ IF life = 0 THEN sample' = <<>> /\ UNCHANGED life
                 ELSE UNCHANGED sample /\ life' = life - 1
  /\ UNCHANGED <<reader, finding, served, everStored, begun>>

ApyNext ==
  \/ ApyTick
  \/ \E r \in Readers :
       \/ GetBlendApySample(r) \/ CacheMiss(r) \/ PoolReads(r) \/ Stamps(r) \/ StoresSample(r)
       \/ PoolFails(r) \/ SampleThrows(r)
       \/ \E at \in {"reading", "fallback"} : CacheHit(r, at)

ApySpec == ApyInit /\ [][ApyNext]_apyVars

-----------------------------------------------------------------------------
(***************************************************************************)
(* The adapters of further venues (protocolAdapters.ts).  A call races its  *)
(* request against a deadline; the venue may execute the request after the  *)
(* caller has been answered.  Nothing in src/ calls them but their tests.   *)
(***************************************************************************)

CONSTANTS
  VenueCalls,   \* calls of an adapter
  VenueAmounts  \* amounts they ask for

ASSUME VenueAssumption == VenueAmounts \subseteq Nat

VARIABLES
  venueLog,     \* what the venue held for the vault, at the start and after every move
  venueAsked,   \* the operation of each call, its amount, and the length of venueLog then
  venueWork,    \* where the request of each call stands
  venueMoved,   \* what it moved there, or read
  venueError,   \* the answer: "open", "none" for a success, or what went wrong
  venueSaid     \* the number of a success

venueVars == <<venueLog, venueAsked, venueWork, venueMoved, venueError, venueSaid>>

Moments == Len(venueLog)
InVenue == venueLog[Moments]
VenueOperations == {"supply", "withdraw", "balance"}
VenueErrors == {"invalid", "refusal", "timeout", "transport", "unreadable"}
VenueAsks == [operation : VenueOperations, amount : Nat, at : Nat \ {0}]
NotAsked == [operation |-> "balance", amount |-> 0, at |-> 1]

VenueTypeOK ==
  /\ venueLog \in Seq(Nat) /\ Moments >= 1
  /\ \A c \in VenueCalls :
       /\ venueAsked[c] \in VenueAsks /\ venueAsked[c].at <= Moments
       /\ venueWork[c] \in {"none", "out", "executed", "refused"}
       /\ venueMoved[c] \in Nat /\ venueSaid[c] \in Nat
       /\ venueError[c] \in VenueErrors \cup {"open", "none"}

VenueInit ==
  /\ \E held \in VenueAmounts : venueLog = <<held>>
  /\ venueAsked = [c \in VenueCalls |-> NotAsked]
  /\ venueWork = [c \in VenueCalls |-> "none"] /\ venueMoved = [c \in VenueCalls |-> 0]
  /\ venueError = [c \in VenueCalls |-> "open"] /\ venueSaid = [c \in VenueCalls |-> 0]

\* A failure has no number, or for supply and withdraw the number 0.
AdapterFails(c, error) == venueError' = [venueError EXCEPT ![c] = error] /\ UNCHANGED venueSaid

\* withdraw of 0 is an exit; supply of 0 is refused at once.
InvalidAmount(operation, amount) == operation = "supply" /\ amount = 0

\* getApy runs as getBalance does.
CallsVenue(c, operation, amount) ==
  /\ venueWork[c] = "none" /\ venueError[c] = "open"
  /\ venueAsked' = [venueAsked EXCEPT
       ![c] = [operation |-> operation, amount |-> amount, at |-> Moments]]
  /\ IF InvalidAmount(operation, amount)
     THEN AdapterFails(c, "invalid") /\ UNCHANGED venueWork
     ELSE venueWork' = [venueWork EXCEPT ![c] = "out"] /\ UNCHANGED <<venueError, venueSaid>>
  /\ UNCHANGED <<venueLog, venueMoved>>

\* The venue executes the request, before the deadline or after it.
VenueDoes(c, held, moved) ==
  /\ venueWork' = [venueWork EXCEPT ![c] = "executed"]
  /\ venueMoved' = [venueMoved EXCEPT ![c] = moved]
  /\ venueLog' = IF held = InVenue THEN venueLog ELSE Append(venueLog, held)
  /\ UNCHANGED <<venueAsked, venueError, venueSaid>>

Wanted(a) == IF a.amount = 0 \/ a.amount > InVenue THEN InVenue ELSE a.amount

VenueExecutes(c) ==
  LET a == venueAsked[c] IN
  /\ venueWork[c] = "out"
  /\ \/ a.operation = "supply" /\ \E n \in 0 .. a.amount : VenueDoes(c, InVenue + n, n)
     \/ a.operation = "withdraw" /\ \E n \in 0 .. Wanted(a) : VenueDoes(c, InVenue - n, n)
     \/ a.operation = "balance" /\ VenueDoes(c, InVenue, InVenue)

\* It answers { ok: false }.
VenueRefuses(c) ==
  /\ venueWork[c] = "out"
  /\ venueWork' = [venueWork EXCEPT ![c] = "refused"]
  /\ UNCHANGED <<venueLog, venueAsked, venueMoved, venueError, venueSaid>>

\* The gateway settles in time: with a number, with something else, or with a refusal.
GatewayReplies(c) ==
  /\ venueWork[c] \in {"executed", "refused"} /\ venueError[c] = "open"
  /\ IF venueWork[c] = "refused" THEN AdapterFails(c, "refusal")
     ELSE \/ /\ venueError' = [venueError EXCEPT ![c] = "none"]
             /\ venueSaid' = [venueSaid EXCEPT ![c] = venueMoved[c]]
          \/ AdapterFails(c, "unreadable")
  /\ UNCHANGED <<venueLog, venueAsked, venueWork, venueMoved>>

\* The deadline passes, or the transport rejects; the request goes its way.
AdapterGivesUp(c) ==
  /\ venueWork[c] # "none" /\ venueError[c] = "open"
  /\ \E error \in {"timeout", "transport"} : AdapterFails(c, error)
  /\ UNCHANGED <<venueLog, venueAsked, venueWork, venueMoved>>

VenueNext ==
  \E c \in VenueCalls :
    \/ \E op \in VenueOperations, n \in VenueAmounts \cup {0} : CallsVenue(c, op, n)
    \/ VenueExecutes(c) \/ VenueRefuses(c) \/ GatewayReplies(c) \/ AdapterGivesUp(c)

VenueSpec == VenueInit /\ [][VenueNext]_venueVars

-----------------------------------------------------------------------------
(* Properties. *)

\* The stamp of a sample belongs to its value: whoever returns it, from Redis or
\* from the pool, the pool had that rate between the request and the stamp.
SampleIsOfThePool ==
  \A s \in served : \E t \in s.asked .. s.observedAt : rates[t] = s.rate

\* A failure that leaves open what the venue did.
InDoubt(c) == venueError[c] \in {"timeout", "transport", "unreadable"}

\* A call that has answered without a doubt is over at the venue: what it says it moved
\* is what has moved, after a refusal nothing, and a balance was held since it asked.
AnswersStand ==
  \A c \in VenueCalls : venueError[c] # "open" /\ ~InDoubt(c) =>
    /\ venueWork[c] # "out"
    /\ venueMoved[c] = IF venueError[c] = "none" THEN venueSaid[c] ELSE 0
    /\ venueError[c] = "none" /\ venueAsked[c].operation = "balance" =>
         \E t \in venueAsked[c].at .. Moments : venueLog[t] = venueSaid[c]

(***************************************************************************)
(* What a check decides and records of a rebalance is true: one transaction *)
(* is in the air, what is recorded has landed, the mix it follows is the    *)
(* whole, the APY it is compared by was the pool's, and what an adapter     *)
(* says of its venue is so.                                                 *)
(***************************************************************************)
YieldSafety ==
  /\ YieldTypeOK /\ OneInTheAir /\ TriggeredHasLanded
  /\ MixTypeOK /\ MixIsWhole
  /\ ApyTypeOK /\ SampleIsOfThePool
  /\ VenueTypeOK /\ AnswersStand
================================================================================
