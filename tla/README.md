# NeuroWealth: TLA+ models, model checking and proofs

NeuroWealth is a yield vault on Stellar/Soroban (`neurowealth-vault/`) run by an
off-chain agent (`agent/`), with a cross-chain bridge, monitoring, clients and user
interfaces around it (`packages/`, `frontend/`, `whatsapp/`). This directory holds
specifications of the vault, of its governance, and of those parts of the agent, the
packages and the interfaces whose behaviour depends on the order of calls, answers,
timers and crashes.

`lib.rs` below is `neurowealth-vault/contracts/vault/src/lib.rs`; file names without
a directory are in `agent/src/`, or in the package their sentence is about.

## 1. Inventory

### The vault contract

| Part | State | Operations | What is hard | What makes it correct |
|---|---|---|---|---|
| Share ledger | `Shares(u)`, `TotalShares`, `TotalAssets`, `TotalDeposits`, `UserSharesIndex` | `deposit`, `batch_deposit`, `withdraw`, `withdraw_all`, `emergency_withdraw`, `migrate_shares` | two roundings per redemption, stale totals in a batch, totals that drift apart over long histories | shares are conserved; rounding never takes from the others; principal stays covered; assets are backed |
| Locks, holding period | `LockedShares(u)`, `LockExpiry(u)`, `LastDepositLedger(u)` | `lock_shares`, `unlock_shares` | checked on assets, burned in shares; skipped by some exits | a withdrawal never cuts into locked shares |
| Venues | token balance, pool positions, `CurrentProtocol`, `DeployedTo*` | `rebalance`, `rebalance_multi`, `harvest`, `emergency_harvest`, `enable_multi_protocol`, and the recall of every redemption | pools are external contracts that may move less than asked at each leg; a leg may commit without the other | every deployed unit is reachable through `CurrentProtocol`; one venue only in single mode |
| Circuit breaker, pause | `Paused`, `ConsecutiveFailures` | outcomes of rebalances, `pause`, `unpause`, `emergency_pause`, `reset_circuit_breaker` | four writers of one flag | a run of failures pauses the vault; a paused vault only returns funds |
| Asset reports | `TotalAssets` | `update_total_assets` | what counts as held depends on a summary of the venues | a report is never above what is held |
| Cooldown, rate limits, caps | `LastRebalanceLedger`, rate buckets, caps | checks of the entry points | boundaries; a batch is checked once and credited entry by entry | movements are spaced; caps hold after a mint |
| Migration | `MigrationTarget`, `MigrationPaused` | `set_migration_target`, `set_migration_paused`, `migrate_shares` | runs in a paused vault; calls the same deposit in another contract | the ledger stays consistent |
| Further assets | `SupportedAsset*`, shares and totals per asset | `deposit_asset`, `withdraw_asset`, `add_`, `update_`, `remove_supported_asset` | writes the totals of the primary book, in another token; an asset may be removed and registered with another token | pool shares are conserved; the totals are backed by all tokens together |
| Governance | agent, standby, guardian, owner, two proposals, the code | `update_agent` ... `execute_upgrade` | actors in any order around an expiry | nothing takes effect before its notice has run |
| Configuration | caps, limits, pools, TTLs | `set_*` | a pool replaced while funded | constants of the model |

Users, the agent and the owner interact only through these entry points. Each
runs as one Soroban transaction: it commits all its writes or none. Calls into the
pools and the token are synchronous, and the contract believes only the change of
its own token balance around them.

### Off-chain

Everything here is TypeScript on one event loop per process: code between two
`await`s is one step, and everything else may happen between two steps. Timers of
`setInterval` do not wait for the callback they started.

| Component | State and operations | What is hard | What makes it correct |
|---|---|---|---|
| `transactionQueue.ts` | Bull jobs, deduplication keys, dead letters | check-then-set, retry after an unknown outcome, two runs of one job | an envelope lands once; a payment twice only after a lost outcome; every job ends |
| `accountSequence.ts`, `transactionSubmission.ts` | a chain of promises per process, a lock in Redis with a lease | a lease that runs out or whose holder dies | one operation at a time, distinct sequence numbers, refused stays refused |
| `rpcClient.ts` | a circuit per endpoint | calls that began before the circuit changed | submissions go out once; the primary gets its turn again |
| `scheduler.ts` | job queue, breaker, interval lease | replicas, overlapping ticks, a lease key that changes | two replicas do not rebalance at once; urgent first; queued jobs run |
| `failover.ts` | a lease record without test-and-set | read-then-write races, two primaries | the tie break, and one primary in the end |
| `rebalanceRecovery.ts`, `harvestJob.ts`, `health.ts` | streaks, status, alerts | sequences that sleep for hours beside each other; answers out of order | one alert per streak or outage, none missed |
| `issuerFreezeMonitor.ts`, `backgroundWork.ts` | last flags, response under way | late answers, shutdown | a freeze is answered once |
| `yieldCheckJob.ts`, `strategyAggregator.ts`, `protocolAdapters.ts` | last hash, time limit of a run, deadline of a venue call | a limit that passes while the transaction is in the air | one transaction in the air; only landed ones are recorded; a refusal moved nothing |
| `serviceRecovery.ts`, `stateBackup.ts`, `reconcile.ts`, `api.ts` | checkpoints, queue, backups, sweeps and sums over the tables of deposits | crashes between an effect and its record; a sweep while rows move | see section 3 |
| `otpService.ts`, `authService.ts`, `custodialKeypair.ts` | codes, nonces, refresh tokens, sealed keys | concurrent calls that read before they write | single use; an address that was replaced is named in the log |
| `intentParser.ts`, `openAiKeyManager.ts`, `blendApyFetcher.ts` | breakers, confirmations, key rings, cached samples | shared counters, caches behind each other | see section 3 |
| `eventListener.ts`; `packages/vault-client` `event-listener.ts` | start ledger, pages, handlers | overlapping polls, a page that ends within a ledger, restarts | an event is passed unseen only where an insert failed or a full page cut its ledger |
| `packages/bridge` | transfers in a manager, rows in a store | time-out, retry and cancel against a call under way | confirmed only if executed; open rows settle |
| `packages/vault-client`, `packages/admin-panel`, `packages/vault-ui` | the generated client; the ledger of a page; batches of notices | polling that ends before the transaction is final; two timers | what is reported agrees with the ledger; screens converge |
| `frontend/` | deposit dialog, onboarding wizard, portfolio, pause banner, rates | answers for a former account, timers nobody clears, several tabs, caches | what is shown belongs to who is shown |
| `whatsapp/` | sessions, codes, wallets, queue of intents | messages delivered twice, jobs run twice | an intent runs once, and an acknowledged one runs unless its handler failed after the answer |

`PROJECT.json` lists every component with its status, and every hazard at its line.

## 2. Modules

One operation, handler or awaited step of the code is one action; its guards are the
code's checks and early returns in their order. What the code calls (Redis, databases,
the network, a relay, a wallet) is external and answers in every way the code handles.

### The contract

| Module | Models |
|---|---|
| `ShareMath` | the three conversions of the `share-math` crate, which the contract computes as well; the share ledger as a record with minting, burning and valuation |
| `Funds` | idle and deployed USDC, `CurrentProtocol`, trackers; supply and withdraw legs as functions on that record |
| `VaultState` | constants, variables, `Init`, the guards entry points share, the rate limiter, the environment (ledger closes, yield) |
| `UserOps` | deposits, batches, redemptions, locks, migration |
| `AllocationOps` | rebalances, multi-protocol mode, harvests, the breaker's outcome, asset reports, pause control |
| `Vault` | `Next`, `Spec`, the inputs of the entry points, the properties |
| `MultiAsset` | `deposit_asset`, `withdraw_asset` and the list of assets, composed with the whole `Vault`: its steps are `Next` or a step of the pools, and both write `book` and `funds` |
| `BackedShares` | abstract: shares bought and redeemed against assets that exist, at a price only reports lower; `Vault` implements it |
| `TimelockedChange` | abstract: a value changes only to one announced before and after its notice |
| `Governance` | owner, guardian, agent, standby agent, the two proposals, the code; implements `TimelockedChange` |

State correspondence: `book` is `Shares`, `TotalShares`, `TotalAssets`,
`TotalDeposits`; `funds.idle` is the vault's token balance and `funds.pool` what
the pools answer; `funds.protocol` is `CurrentProtocol` and `funds.deployed` the two
trackers; `locks`, `lastDeposit`, `holders`, `breaker`, `mode`, `lastRebalance`,
`migration` and `calls` are the keys named in `VaultState`. `wallet`, `ledger` and
`accrued` are the token balances of the callers, the network's ledger sequence and
a counter that bounds yield.

A call that panics (failed check, overflow, failed transfer) is a call that does not
happen. A helper that moves funds is a function from the `funds` record before to the
one after, so a leg, an exit and a whole rebalance compose, and the amount moved is a
difference of balances as in the code. An early return that commits (the incomplete
exit of `rebalance`) is a disjunct of its action. A venue hands back (`pays`) and
accepts (`takes`) at most what the call names, chosen freely from `Limits`, so
every leg may move nothing, a part or all. Yield adds to a position at any time;
`TotalAssets` learns of it by a report only.

### Off-chain

| Module | Code |
|---|---|
| `TransactionQueue` | `transactionQueue.ts` |
| `AccountSequence` | `accountSequence.ts`, `transactionSubmission.ts` |
| `RpcCircuit` | `rpcClient.ts` |
| `Scheduler` | `scheduler.ts` |
| `Failover` | `failover.ts` |
| `RebalanceRecovery` | `rebalanceRecovery.ts` |
| `Alerts` | `harvestJob.ts`, `health.ts` |
| `FreezeMonitor` | `issuerFreezeMonitor.ts`, `backgroundWork.ts` |
| `YieldCheck` | `yieldCheckJob.ts` and the loop of `index.ts` that calls it, `strategyAggregator.ts`; `blendApyFetcher.ts`; the adapters of `protocolAdapters.ts` |
| `ServiceRecovery` | `serviceRecovery.ts` |
| `Reconcile` | `reconcile.ts`; login, balance, totals and the recording of transactions of `api.ts` |
| `StateBackup` | `stateBackup.ts` |
| `Authentication` | `otpService.ts` and the WhatsApp codes; `authService.ts` |
| `Custody` | `custodialKeypair.ts`: which addresses row and log name |
| `IntentParser` | the breakers and confirmations of `intentParser.ts`; `openAiKeyManager.ts` |
| `VaultEvents` | the agent's `eventListener.ts`; `packages/vault-client/src/event-listener.ts` |
| `VaultClient` | `packages/vault-client/src/generated/vault.ts` and its transport |
| `Bridge` | `packages/bridge` |
| `AdminPanel` | the two pages of `packages/admin-panel`: owner, ledger and network; no panel is ever mounted |
| `DepositForm` | `frontend`: `DepositForm.tsx`, `vaultHelpers.ts` |
| `Dashboard` | `frontend`: `OnboardingWizard.tsx`, the live portfolio, the vault status route and the pause banner, the APY route and its card |
| `WhatsApp` | `whatsapp/src`; the batches of notices of `packages/vault-ui/src/notifications` |

`PROJECT.json` maps every definition to its lines. Code between two `await`s is one
action; each concurrent call, tick, job or socket has an identity (`Runs`, `Requests`,
`Polls`, `Slots`, ...) and a program counter in its state. A timer that fires while its
callback is under way starts a second one, as `setInterval` does.

### Suites

`MCVault` and `MCAssets` give the vault its instances. `MCSubmission`, `MCAgent`,
`MCInterfaces` and `MCRecords` each check several components that share no state: the
variable `part` names the component that moves, the others stay where they begin.
Because nothing is shared, a state of the product adds nothing to the states of its
factors; each component runs through all of its own. Fairness is that of the chosen
component. Each suite bundles what its components promise into a few properties, whose
parts are stated and commented in the components' modules.

### Abstractions

* Authorisation is assumed: the model lets each caller make only calls it may make.
* Left out because no modelled behaviour reads them: events of the contract,
  `DepositSnapshot`, `UserStrategy`, expected APY, token allowances, storage TTLs.
* Pools, caps, periods and limits are constants; the setters are not modelled.
* A batch has two entries, one of which may be invalid and so stands for none.
* A report is between `LeastReport` (below zero in `allocation` and `claim_reports`) and
  one above the custody. `WithinWhole`, `DecreaseCaps \subseteq 0..BPS`, names what the
  theorems need: `max_decrease_bps` is at most 100 %. The code accepts any `u32`, with
  which agent and owner together store a negative total (`claim_reports`).
* Amounts are unbounded integers; the code's checked `i128` aborts on overflow.
* All assets that are not USDC are one token; the vault holds it beside `funds`.
* A migration target is taken to run the same `deposit`.
* Names, messages, amounts and keys off-chain are model values or small numbers; a
  cipher opens what it sealed and nothing else. Yields, prices and delays of back-offs
  are choices, since the code computes them in floating point.
* Time off-chain is counted in the unit its comparison tells apart (the life of a cache,
  the age of a lease); where the code only waits, the end of the wait is an action.
* The handlers of the vault client's event stream are registered before it starts.
* The on-chain query of `reconcile.ts` is modelled as what it does: it throws while it is
  built, and every address counts as one without shares. In the same way the reads of the
  admin pages fail, because they simulate as an account that does not exist.
* `VaultClient` knows of a method only whether the generator has it sent or simulated; its
  tables say so, because the client previews some functions that change the vault.

## 3. Runs

| Run | Instance | Properties |
|---|---|---|
| `accounting` | 2 users, one venue that pays and takes nothing or everything, deposits of 2 and 4, withdrawals of 1 and 3, 2 units of yield | `AssetsCover`, `SharesAreBacked`, `DepositorKeepsValue` |
| `entry` | 2 users, deposits of 2, batches of two entries of 0 and 1, TVL cap 5 and user cap 3, 1 unit of yield, migration, one venue | `LedgerConsistent`, `CapsHold` |
| `locks` | 1 user, deposits of 3, withdrawals of 2, locks of -1 and 1 share, holding period 1, two calls per window, venue limits 1 and 9, pause control, 3 ledgers | `EmergencyExitOpen`, `LockedSharesStay` |
| `allocation` | 1 user with 2 units, 1 unit of yield, two venues with limits 0, 1, 9, every target, four allocations, cooldown 1, multi mode, threshold 2, all pause controls, loss reports, totals below zero among what is reported | `TypeOK`, `Solvency`, `FundsReachable`, `EveryoneCanLeave`, `BreakerTrips`, `DeploymentsGuarded` |
| `assets` | 2 users, one further asset that may be in USDC or another token, its limits changed, removal and new registration, two calls per window, one rebalance failure | `PoolsBacked` |
| `submission` | two jobs (a payment, an envelope), two callers and two runs, one lost answer; three requests in two processes, one of which dies; three RPC calls, one opted in to retries; two calls of the generated client | `QueueSafety`, `SequenceSafety`, `SubmissionsEnd`, `RpcServes`, `ClientKeepsWord` |
| `agent` | two replicas, one of which may tick beside itself (`overlap`) or stop; two agents; two failures, harvests, flag checks, probes | `AnswersMatchCauses`, `SchedulerSafety`, `JobsOfTheAgentRun`, `OnePrimaryOfTheAgent`, `CausesAnswered` |
| `interfaces` | two polls over four ledgers in pages of two; two stream loops over three events in pages of two; a conversation of five messages, one delivered again, the queue may reject; one transfer with two relay messages; two pages and two networks of two ledgers; two wallets; two notices | `NoEventIsPassed`, `WorkIsDoneOnce`, `ConfirmedWasExecuted`, `DialogTellsTruth`, `WorkIsDone`, `ScreensConverge` |
| `records` | one yield check with restarts, two readers of the samples and two venue calls; three queued jobs, two with one key; three depositors in pages of one with two rows; two keys and two wasm hashes; two verifications, two sign-ins, two keypair calls over three keypairs, two backups over two stores, two parses over two providers, one confirmation of up to two amounts or one JSON cannot write, two tabs, three sockets | `YieldSafety`, `RecoverySafety`, `TablesReadRight`, `ShownIsCurrent`, `AddressesNamed`, `BackupSafety`, `IntentSafety`, `CredentialsOnce`, `UpgradeIsTimelocked` |

The vault's runs check deadlock (the environment or a report can always move) and use
the symmetry of the users where there are two. The suites do not check deadlock: a
queue that is empty, a wizard that is finished or a bound that is used up is a proper
end. That they end where they should is what their liveness properties say.

What they show, and why the bounds are enough:

* `SharesAreBacked` and `DepositorKeepsValue` are about the two roundings. They need a
  price that is not a whole number and a position below the price of one share;
  deposits of 2 and 4 with 2 units of yield give prices such as 3/2, 5/4 and 4/3 and
  holders of one share. `SharesAreBacked` is a refinement (below): every mint, burn and
  batch keeps the price and takes from no other holder, whatever the venues withheld.
* `AssetsCover`: principal (I-3 of `ARCHITECTURE.md`) and shares (first half of I-6) are
  covered by total assets in histories without a loss report and without migrations,
  although a redemption reduces the principal by the whole payout, yield included.
* `CapsHold` holds for both caps except for two cases the property names: the first
  deposit after everyone has left, which takes over assets that nobody has shares
  of, and a user who, by rounding, gains a unit from the next entry of the same batch.
* `LockedSharesStay` compares a burn rounded up with a check on assets rounded down.
  It is stated for an active vault: the emergency exit and a migration do not look
  at locks.
* `EveryoneCanLeave` and `EmergencyExitOpen` say that in every reachable state where a
  redemption should be possible, it passes each check of the code and pays the whole
  worth of the shares. The venues pay in full there; in `"multi"` each is asked for its
  proportion. The first is about `withdraw_all` in an active vault, the second about
  the emergency exit of a paused one, whatever the locks.
* `FundsReachable` needs two venues that withhold a part in the middle of an exit.
  Limit 1 is such a part of positions of up to 3.
* `BreakerTrips`: two failures in a run against a threshold of two, and more after an
  unpause without a reset.
* `PoolsBacked`: two rate-limited calls per user and window, and one failed rebalance,
  bound the run; they leave room for a deposit, the removal of the asset, its new
  registration with the other token and a withdrawal.
* `QueueSafety`, `RecoverySafety`, `YieldSafety`: whatever is done twice is excused only
  by an outcome nobody learned of. One lost answer and one crash per run reach that case;
  a second one repeats it.
* What is about the order of calls, answers and timers (`SequenceSafety`, `AddressesNamed`,
  `CredentialsOnce`, `AnswersMatchCauses`, ...) needs two or three of each to go wrong; that
  more make no difference is proved (section 4).
* `TypeOK` in `allocation` includes that nothing is negative, with totals of -1 among the
  reports: it is the limit of a decrease that refuses them, and only when it is at most
  the whole (`WithinWhole`), which the code does not ask for: see `claim_reports`.
* `DeploymentsGuarded` looks at what a step does to each pool. A harvest takes out and
  supplies in one step; in a paused vault the owner's `emergency_harvest` does so too, and
  what the property asks of it is that no venue holds more afterwards.
* `SchedulerSafety` says that two replicas do not rebalance *at the same time*. The lease
  is released with the job, so that within one interval they may do so one after the
  other (`claim_interval`), and one that lost its lease is excused (`astray`).
  `JobsOfTheAgentRun` leaves out overlapping ticks, one of which may take a job the other
  has seen; a tripped breaker and a stopped replica end its promise.
* `AnswersMatchCauses` has one alert for one outage, however long; `StatusIsLatest` says
  that the recovery's status is the last thing learned, and no more than that.
* `ShownIsCurrent`: what the banner shows may be as old as the route's copy, the browser's
  (`BrowserLag`, three ticks of which stand for `max-age` and stale-while-revalidate) and
  the two delays of an answer together, the sum `Recent`, and the polls that were lost.
  This counts from the moment the route's fetch returned: the data cache of Next behind
  it revalidates in the background and may hand out a status of any age. The portfolio is
  shown to be the account's except after `strayed`, a reconnect whose handle was
  overwritten; three sockets and two refreshes reach it. Four ticks of `MaxApyTime` and two
  requests let the copy of the rates expire under a second request.
* `TablesReadRight`: three depositors in pages of one put a page boundary before, at and
  behind the row that is added; two rows in each table show the join, in which each row
  of one table counts once for every row of the other.
* `IntentSafety`: five failures against a threshold of three open a breaker, half-open it
  and fail it again. One confirmation is enough for a fingerprint to stand for another
  operation: the edit comes between.
* `YieldSafety`: batches of up to four over 0, 3 and 7 depositors give a mix of shares that
  are not whole; a venue call of 0 or 2 may land after its deadline.
* `NoEventIsPassed`: pages of two events over four ledgers let a page end at a ledger and
  within the range, with a second poll that began before. For the stream, three events
  over three ledgers in pages of two have a full page end within a ledger and at its end.
  What it excuses is what the code loses: `dropped`, an insert that failed, and `CutOff`,
  the rest of a ledger a full page cut. What closes while the agent is down is not looked
  for at all.

### Fairness

The vault, the pools and everything in `records` (governance, custody, backups,
credentials, ...) act only when called, and nobody is bound to call: no fairness, safety
only. What must remain possible in the vault is stated by the checks a call passes.
Elsewhere:

| Component | Fair | Because |
|---|---|---|
| queue | weak: runs start and go on, delayed jobs are promoted, the `failed` handler runs | Bull's processors and timers |
| sequence | weak: a call goes on, a lease runs out | promises settle, polling has a deadline, Redis expires keys |
| RPC | strong for calls to the primary taken together, weak for answers and the reset interval | callers keep calling while the primary may be tried; clients have time limits |
| scheduler, failover | weak: ticks, heartbeats and their answers, the age of a record, due jobs | `setInterval`, time limits of requests, the clock |
| recovery, harvest, freeze, health | weak: steps of a sequence or check, the clock; strong for a health probe whose answers are in | as above; somebody keeps asking `GET /health`, and a probe whose checks are in is recorded |
| listener, webhook, bridge | weak: polls, the worker, checks, half an hour passes | `setInterval`, Bull |
| upgrade page | weak for the interval, strong for the answer to a read of the latest ledger | `setInterval`; `getLatestLedger` needs no account, and a node that is asked again and again answers at some time |
| dialog, client, notices | weak: ticks of the polling, the timer | their deadlines |

Nothing is assumed about users, other processes or crashes. `OnePrimaryOfTheAgent` asks
further that rivals' reads are not in lockstep for ever (`RivalsAreRead`), which the code
does not enforce: both write the record and read it at one interval.

### Refinement

`UpgradeIsTimelocked` is the specification of `TimelockedChange` under the mapping of
`Governance`: the announced value is the pending hash, the time of its notice the ledger
of the proposal. It is checked in `records` and proved (section 4).

`SharesAreBacked` is the specification of `BackedShares` under the mapping `Pool` of
`Vault`: `shares` and `supply` are the ledger's, `assets` is `TotalAssets`, and `backing`
is the custody, what is idle and deployed together. It has four kinds of steps. A
purchase or a redemption keeps the price of a share and moves assets and backing by the
same amount, a redemption at the cost of one holder only; a profit raises the backing
before anyone counts it; a revaluation sets the assets to at most the backing. A whole
batch is one purchase, a migration one redemption, and everything that happens between
the venues a stutter. It is checked in `accounting` and proved.

### Runs that find a contradiction

Each `claim_*` run checks one sentence of a comment, quoted with its place under
`findings` in `PROJECT.json`, and finds a history that contradicts it.

| Run | The sentence | The history |
|---|---|---|
| `claim_pricing` | each asset is priced independently | a deposit into a pool raises what the primary shares are worth |
| `claim_reports` | `update_total_assets` panics if the new total is negative | agent and owner report one below zero with a limit of twice the whole |
| `claim_interval` | only one replica owns a given rebalance interval | one has rebalanced and released the lease; the other's next tick takes it and rebalances too |

### Other sentences the code does not keep

Met while modelling, or found by an earlier form of a run; stated here and not run.

Vault (`lib.rs`):

* A withdrawal may pay more than asked, against `lib.rs:2993`.
* The emergency exit pays out locked shares, against `lib.rs:540`.
* A lock of -1 share is accepted and then neither locking nor unlocking works, against
  `lib.rs:3578`.
* A migration leaves `TotalDeposits` above `TotalAssets`, against
  `ARCHITECTURE.md:1167`.
* A harvest in `"multi"` leaves both positions idle, against
  `docs/state-machine.md:125`.
* A report in `"multi"` does not count what is deployed, against `lib.rs:7491`.
* A short recall may fail the call where `docs/PARTIAL_WITHDRAWAL_BEHAVIOR.md:127`
  promises a partial fill.
* `deposit_asset` does not look at the global caps, against `ARCHITECTURE.md:149-151`.
* The holding period does not bind `withdraw_all`, against `docs/state-machine.md:237`.
* A loss report lowers the exchange rate, against `ARCHITECTURE.md:1244`.
* A report or the dust of a last payout leaves assets without shares, against
  `docs/monitoring.md:186`.
* The recall of a redemption and an exit do not write the `DeployedTo*` trackers,
  against `lib.rs:462` and `docs/ASSET_CONSERVATION.md:15`.
* An incomplete exit commits one leg of a move, against `docs/state-machine.md:128`.
* Pools of further assets have no exit in a paused vault and earn nothing, and their
  withdrawals may fail once holders of the primary shares took the USDC.
* The standby agent may be the agent.
* The documents disagree on `DEFAULT_USER_DEPOSIT_CAP`.

Agent:

* `transactionQueue.ts:199-202` says that an envelope is re-signed with a fresh sequence
  number; the account is loaded again and not used, `fromXDR` keeps the number of the envelope,
  and it is the old number that keeps the envelope from being applied twice
  (`QueueSafety`).
* `health.ts:14-15` has the alert once per window until the check clears, and
  `alertSent` is reset by a good result only, so that a long outage has one alert.
* `acquireLease` of `db.ts` has no caller (the scheduler gets an in-memory store unless
  it is given another).
* `whatsapp/src/webhook.ts:42-43` says not to resubmit, and Bull runs a stalled job again.
* A recovery records the key of a duplicate before the first of the batch has run, so
  that a crash in between skips both (against `serviceRecovery.ts:323-324`), and actions
  in doubt may be repeated.
* A backup of another version is rejected after the choice of the store, so that a
  readable one behind it is not restored (against `stateBackup.ts:13-14`).
* The fallback to the last cached APY looks where nothing has just been found (against
  `blendApyFetcher.ts:11-12`), and concurrent samples may overwrite newer ones.
* `eventListener.ts:45-46` promises to resume from a checkpoint that is never read, and
  the cursor moves past a failed insert.
* `yieldRebalanceTriggered` is stored with a protocol that has not moved, and a poll
  that ends in `FAILED` is swallowed.
* A timed-out supply of `protocolAdapters.ts` reports 0 and may still land, against its
  line 51 ("0 when nothing moved"), reading an APY drops the signal of its deadline, and
  its registry has only `register` and `get`.
* The reconciliation never reads the chain (`reconcile.ts:193-226` builds a call that
  throws, and takes 0), against lines 4-6 and 275, so that every depositor who has not
  withdrawn everything is reported, and its two LEFT JOINs (line 114) count each row
  once per row of the other table, against the difference of sums its comment and line
  271 speak of.
* The freeze monitor answers a late, older flag again, and a pause that throws alerts
  nobody.
* A harvest compares TVL and not yield.
* Two replicas may rebalance at once when the interval changes.
* Two primaries in lockstep need not give way.
* A half-open RPC circuit admits more than one probe.
* Duplicates are not always dropped by the queue.
* The two shares of a mix may add up to 10001 basis points.
* Confirmations of intents are not single-use, do not show whether everything is
  withdrawn, and one of "withdraw all" shows an amount of 0, which
  `IntentConfirmationSchema` does not admit.
* "withdraw ," parses to an amount that is not a number, which passes the check at
  `intentParser.ts:142` and is `null` in the fingerprint, as an infinite or a missing
  one is, against lines 113-114 ("Any edit to amount/... changes the fingerprint").
* A rotation of API keys may throw with a key untried.
* A rotation logs the old public key where `custodialKeypair.ts:362-363` says the old
  encrypted secret, and the statement that follows overwrites the only copy of it.
* Every generation rejects after its row is written, because the `finally` at
  `custodialKeypair.ts:309-313` fills a string, against line 265 ("Return the public key
  and encrypted blob").
* Getting, deleting and storing a refresh token is not atomic.
* `intentParser.ts`, `blendApyFetcher.ts` and the rotation of `openAiKeyManager.ts` are
  used by tests only.
* `app.ts` mounts `api.ts`, `index.ts` the health and strategy routers, and nothing
  `apiRouter.ts`.
* There is no route `/api/vault/status`, which the frontend's status route asks for.

WhatsApp:

* An intent is acknowledged before it is queued (`whatsapp/src/webhook.ts:309-323`), and when the
  queue rejects or the process dies in between it is lost and nobody is told
  (`AcknowledgedIsWorkedOff` names it).
* The service mounts no check of Twilio's signature (`whatsapp/src/index.ts:42`).

Interfaces:

* The dialog shows a failure with its retry although the deposit may still be committed
  (against `design/dashboard/TRANSACTION_PROGRESS_VOCABULARY.md:153`), may show a
  preview of the former signer (against `DepositForm.tsx:422`) or an older estimate.
* The pause banner stays dismissed in its tab when the vault pauses again (against
  `VaultPauseBanner.tsx:56`) and dismisses `unavailable` too.
* A close of the portfolio's socket beside a pending reconnect loses its timer
  (`useRealtimePortfolio.ts:127`), which then connects for the account of before and
  joins the current generation.
* No component uses that hook, and none the APY card.
* The APY route stamps values of its data cache, of any age, and its demonstration
  values as of now, and answers a failure with status 200, so that the card's mark of
  cached data never shows.
* The admin pages read the owner by simulating as a key drawn at random, whose account
  does not exist (`generated/vault.ts:1045-1050`), so that the owner is never recognised
  and no panel is mounted.
* The panels themselves would sign with a key drawn at each render or with none
  (`app/page.tsx:109-121`, `218-303`), read in the same way, and send an empty field as
  0 (`CapsConfiguration.tsx:75`), and are not modelled.
* A third network, devnet, behaves like the two of the model.
* `UpgradeTimelock.tsx:6-7` promises a banner for a pending upgrade and looks for named
  fields in a pair, and may initialise its client twice.
* `AgentManagement` passes `update_agent` an argument too many.
* The generated client lacks `set_guardian` and others, and its invoke returns as if
  done when a transaction is not found for 30 s.
* The batcher's "Latest" is the oldest notice.
* A deposit skipped in the wizard is not stored and a dismissal drops the progress.
* A handler of the stream that names a user receives the events of another handler's
  user (`event-listener.ts:428`, against lines 375-376).
* A stream whose page ends within a ledger skips the rest, runs two loops after stop and
  start, and stays `running` when its first request fails.
* A cancelled or timed-out transfer of the bridge may execute later, its automatic retry
  is not reachable, retry and execute do not look at the status, and overlapping checks
  may overwrite `confirmed` with `failed`.
* "hi" in WhatsApp may bring no code.
* `TransactionProgress.tsx` calls helpers that are not defined.

## 4. Proofs

TLAPS proves the theorems below for every value of the constants that the named
assumptions allow. The proof modules extend the modules they are about; nothing in them
is assumed beyond the `ASSUME`s next to the constants, which TLC evaluates in a run.

### What is proved

| Module | Theorem | States |
|---|---|---|
| `VaultLemmas` | `RoundTripNeverProfits`, `WithdrawalPaysFromItsShares` | the rounding of a deposit followed by a redemption, and of a withdrawal, which never pays less than asked |
| `VaultProofs` | `TypeCorrectness`, `Solvent`, `LedgerIsConsistent` | `TypeOK` (nothing goes negative, under `WithinWhole`), `Solvency`, `LedgerConsistent` |
| `LedgerProofs` | `VaultIsAPool`, `PriceHolds`, `AssetsAlwaysCover`, `LockedSharesHold`, `CapsAreKept`, `DepositorsKeepValue` | `SharesAreBacked` (a refinement), `PriceNeverFalls`, `AssetsCover`, `LockedSharesStay`, `CapsHold`, `DepositorKeepsValue` |
| `VenueProofs` | `FundsStayReachable`, `DeploymentsAreGuarded`, `BreakerAlwaysTrips`, `EveryoneLeaves`, `EmergencyExitStaysOpen` | `FundsReachable`, `DeploymentsGuarded`, `BreakerTrips`, `EveryoneCanLeave`, `EmergencyExitOpen` |
| `AssetProofs` | `PoolsStayBacked` | `PoolsBacked`, for the vault and the pools of further assets together |
| `AgentProofs` | `SequenceSafe` and its parts, `QueueSafe`, `AnswersMatch`, `SchedulerSafe` | `SequenceSafety`, `QueueSafety`, `AnswersMatchCauses`, `SchedulerSafety` |
| | `FailoverKeepsPrimary`, `RpcSafe`, `ClientSafe` | the safety parts of `OnePrimaryOfTheAgent`, `RpcServes`, `ClientKeepsWord` |
| `InterfacesProofs` | `ConfirmedHasExecuted`, `DialogTruthful` and its parts, `NoEventPassed`, `WorkDoneOnce`, `ShownCurrent` | `ConfirmedWasExecuted`, `DialogTellsTruth`, `NoEventIsPassed`, `WorkIsDoneOnce`, `ShownIsCurrent` |
| `RecordsProofs` | `NoticeGiven`, `UpgradeTimelocked`, `AddressesStayNamed`, `IntentSafe` and its parts, `BackupsSafe`, `ReadersSafe`, `RecoverySafe`, `CredentialsSingleUse`, `YieldSafe` | the notice of agents and upgrades, `UpgradeIsTimelocked` (a refinement), `AddressesNamed`, `IntentSafety`, `BackupSafety`, `TablesReadRight`, `RecoverySafety`, `CredentialsOnce`, `YieldSafety` |

The theorems about the vault assume `WithinWhole`: the owner signs for no decrease above
the whole. Nothing in the code keeps a signature to that, and without it the types do
not hold (`claim_reports`); what is reported is unrestricted, negative totals included.

Three theorems have a hypothesis of their own. `AssetsAlwaysCover` assumes that no loss is
reported and nobody migrates (`DecreaseCaps = {}`, `MigrationControl = FALSE`): a loss
report lowers assets and not principal, and a migration takes assets without principal,
both by design; `accounting` checks the property under the same restriction.
`DepositorsKeepValue` assumes `BPS \notin DecreaseCaps`: a report that may write off
everything leaves shares that are worth nothing, and a deposit into them buys at no
price at all. `YieldSafe` assumes that there is a protocol and that runs of the job do
not overlap (`\A c, d \in Checks : c = d`): the hourly timer does not start a run beside
another, whose time limit is far shorter, but `runOnce` may be called on demand and has no
guard. A submission that outlives its run is covered.

A theorem about several components of a suite assumes the specification of each; they
share no variable.

### The vault

`TypeOK` is not inductive: a burn leaves `TotalShares` natural only if no user has more
shares than there are, which needs that the shares sum up to `TotalShares`, and a
migration deletes a holder from an index that must name everyone. That `TotalAssets` stays
natural under a report below zero is `DecreaseLeaves`: under `WithinWhole` a decrease leaves
something, or nothing. The inductive invariant
is

    Inv == TypeOK /\ LedgerConsistent

`LedgerConsistent` is stated with the fold of the library, a recursive definition in a
`CHOOSE`. `VaultLemmas` first shows that such a sum exists and is unique and what it does
when one value changes. Induction over finite sets is not to be had as a rule here, so
those lemmas take a minimal counterexample: a set of subsets of a finite set has a
smallest member. `Sum` and everything after it is by lemma, never by unfolding.

`VaultProofs` has one lemma per entry point, with one step for the ledger, one for the
funds and one for the rest, and `Invariance` collects them. `Solvency` is a step of its
own and not part of `Inv`: the pools of `MultiAsset` count in `TotalAssets` in a token
of their own, so that `Inv` holds of the vault with its pools and `Solvency` only of the
vault alone. It rests on two facts: every leg keeps `Custody`, whatever a venue
withholds, and a redemption takes as much from the ledger as from the balance.
`KeepsBacking` says that of one step, exactly: assets and custody move alike, or the
shares stay as they are and a profit came in or a report was made. `AssetProofs` and
`VaultIsAPool` use it again.

`LedgerProofs` first classifies every step by what it does to the ledger (`LedgerSteps`: a
deposit, a batch, a redemption, a migration, a report, or none); each of its theorems
then has one case per kind, and the arithmetic is in lemmas about the conversions.
`PriceHolds` needs that a mint rounds down and a burn is rounded up, twice for a batch.
`AssetsAlwaysCover` is inductive together with `Inv` and with no target being set: a
share that is worth at least a unit keeps it. `DepositorsKeepValue` needs that assets are
positive while shares are (`Priced`). `VaultIsAPool` puts `LedgerSteps` and `KeepsBacking`
together: the first says which kind of abstract step it is, the second that the backing
follows, and a step without either is a stutter (`QuietStep`).

`VenueProofs` strengthens `FundsReachable`: `VInv` ties `CurrentProtocol`, the mode and
what each pool holds, and says that the last rebalance is never in a future ledger, from
which the cooldown is counted. A leg is described by its shape (what it may take from
which pool), so that withdrawals, exits and rebalances compose from one lemma per leg.
`BreakerAlwaysTrips` is a case analysis of the outcomes. `EveryoneLeaves` and
`EmergencyExitStaysOpen` need three things. The recall finds enough: `VInv` leads it to
every pool, and the proportions of `"multi"` add up with neither venue asked for more
than it has (`FullAsk`, `RecallBringsBack`, by `Solvency`). The roundings meet again:
the shares burned for their whole worth are no more than held and are worth as much
(`WorthBurnsBack`). And no other check of the entry point is in the way.

`AssetProofs`: the sum over the supported assets changes when an asset is added or
removed. `AssetInv` says that a pool that is not supported is empty, so that it joins or
leaves the sum with nothing. A step of `Next` keeps the rest by `KeepsBacking`.

### Submission

`SequenceInv` ties the lock in Redis, the chain of promises and the outcome of each
transaction: whoever is in the critical section without having overrun its lease has the
lock; the one of a process is the head of its chain; a transaction is in the air, or its
number is used. `NumbersDistinct` needs all three.

`QueueInv` counts. That a payment is applied at most once more than its outcomes were lost
does not survive a step: a run under way may add one. `JobStands` says that what was
applied, the runs under way and one for a job that is still due are at most one more than
the lost outcomes, and `RunStands` that a run that could apply an envelope has the
sequence number it was signed with, which is used once. `OneOwner` (two runs that own one
job are the same) is needed because an attempt that ends speaks for its job.

`RpcInv` ties what a call has sent to where it stands. `ClientInv` says of each call of the
generated client that a transaction which is polled for is at least as old as the polling,
so that a polling that ends after 30 s leaves nothing that could still land; and it counts
the previews that have landed against the vault's window.

### The rest of the agent

* Answers (`AnswersMatch`): `RebalanceInv` ties the health flag of a failed rebalance to the
  stage of its sequence, failure by failure. `HarvestInv`: a streak has at most one alert,
  and one only when it is marked as sent. `FreezeInv`: unless the freeze was lifted
  meanwhile, a response under way means an active freeze, and there is only one.
  `HealthInv`: an alert since the outage began means that the dependency is marked as
  alerted and has been bad for the whole window.
* Scheduler: `UrgentFirst` needs a sorted queue. That `enqueue` keeps it sorted is shown
  of the place where the job goes, the least position it sorts before
  (`EnqueuedSorted`). `NeverTwoAtOnce` says nothing of the lease; in `SchedInv` a
  replica with a job it emitted is the owner of the live lease of its interval, unless
  it lost it under the job, and as long as no interval changes there is one key.
* Failover: `ClaimInv`, whoever has claimed the lease (in the record, in what was loaded of
  it, in a write under way), there is a primary with at most that number; giving way to
  a lower number keeps it.

### Interfaces

* Bridge: a status may be written long after it was read. `StatusHasReason` gives every
  stored and every read status its reason, and `ReasonsKept` says that reasons last: an
  executed message stays executed.
* Dialog: `DepositInv` ties the view to the step of the attempt and both to the ledger,
  with the transactions ordered by their numbers. `EstimateFollows` says that an
  estimate is for the amount it was asked for until the amount changes, which sets the
  timer. The cancelled reads of balances are part of `PreviewInv`.
* Listeners: `PollStands` says of each poll that everything between where it began and where
  it is has been stored or dropped. The stream needs that events are in the order of
  their ledgers and that a page is a prefix of what follows its cursor.
* Portfolio, rates and banner: in `RealtimeInv` sockets, polls and answers of the
  current generation are of the account of the last effect (`AllBelong`), unless a call
  has strayed. `ApyCardInv`: as long as the route lives, no answer is newer than its
  copy. In `WizardInv` every stored and displayed step behind the connection has a key.
  `PauseInv` adds up: the ages of the route's copy, of a response and of an answer on
  its way are each bounded by their lag, and the polls that are missing are at most the
  misses.
* WhatsApp: `RunsArePaidFor`, executions and the run that may still execute are at most one
  more than the stalls. Notices: `WaitingIsNew`, what waits in a bucket is there once and
  has not been handed over.

### Records

* Governance: that a proposal is ripe at its expiry says nothing of its notice unless the
  two are tied; `GovernanceInv` adds that a pending proposal's expiry is its notice plus
  the timelock. A step is then one of the abstract change or a stutter.
* Custody: `CustodyInv` says that the stored address is already accounted for by the log, or
  by an entry about to be written, *before* it is replaced.
* Backups: `BackupInv` says of each backup under way what the stores have accepted, and
  that no store is behind what all had accepted.
* Tables: `StillToCome`, an address not yet swept lies ahead of the cursor. `AnswerInv`, the
  sum that a balance has read is within what was held since; a row adds to both sums
  of everybody what it adds to those of its address (`RowAdds`).
* Intents: a breaker is `Calm` when it is closed with few failures or open for a reason.
  A confirmation shows what its fingerprint was computed from, but for amounts JSON
  cannot write (`Sealed`). For the ring of keys, `RotationInv` says that keys which were
  due and are not tried stay warm and lie ahead of the position by fewer steps than
  attempts are left.
* Recovery: `WindowStands` (the window of events read reaches from the checkpoint to the
  head), `DoubtStands` (an action that landed without an answer is in doubt, and its key
  is pending or recorded) and `KeysStand` (what Redis and the database know of each
  key).
* Credentials: a code that was used, which happens once, is no longer the stored one,
  and the stored one is newer than the last lockout; sessions and sign-ins still waiting
  for their tokens are together at most the sign-ins that were accepted. This counts
  requests, so `SignInAssumption` asks that they are finite.
* Yield: `YieldInv`, a transaction that is signed or in the air, and that no restart
  made the job forget, is the one whose hash it keeps; for a venue call, that it is over
  at the venue once it has answered without a doubt; for the mix, that two rounded
  shares of the depositors make the whole; for samples, that each cached one is genuine
  (`Genuine`), read in the interval it names.

### Only model-checked, and why

* Liveness (`SubmissionsEnd`, `JobsOfTheAgentRun`, `CausesAnswered`, `WorkIsDone`,
  `ScreensConverge`, and the live parts of `RpcServes`, `ClientKeepsWord` and
  `OnePrimaryOfTheAgent`, whose safe parts are proved): TLAPS has no rules for fairness
  that the installed provers can use.
* Every safety property of the passing runs is proved.

## 5. Not modelled

* Configuration setters and the replacement of a pool (`lib.rs:5132-6300`, `7053-7200`):
  one write after a bounds check each; their values are constants. Changing one under
  way would multiply every vault run by its values.
* Views, events, APY, MEV and prediction reports: read-only, or keys nothing reads.
* `insurance.rs` and `storage.rs`: not part of the crate.
* `monitor.ts` of the monitoring package does not parse, `dexApyCalculator.ts` breaks off,
  `ActionModal.tsx` does not compile: what they do is not defined.
* `alertEngine.ts`, `riskScoring.ts`, `metrics.ts`, `apiRouter.ts`, the routes of
  `api.ts` that read or write one row, `rateLimiter.ts`: one call each, floating point,
  I/O or a library's windows.
* The panels of the admin pages, their forms and dialogs: neither page mounts them for
  anybody, as said above.
* `requireAuth` and the contents of access tokens; the text `generate-client.js` writes;
  router and poller of the Blend fetcher; pages that render what they are given.
* The fixed window of the rate limiter admits twice its limit around a boundary; no
  document says what it should guarantee, so no property does.

## 6. Plan

1. Configuration setters, the replacement of a pool first: while funds are in the old
   one `FundsReachable` cannot hold, and what the owner has to do first is the question.
2. The pools of `MultiAsset` as pools of backed shares, each under a mapping like `Pool`.
