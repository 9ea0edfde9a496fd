# Multisub: a TLA+ development

This directory specifies and verifies the Multisub infrastructure: the card
authorization backend (`backend/src`), the Safe modules that move its USDC
(`contracts/src`) and the services between them. Every definition that models
code is listed in `PROJECT.json` under `map` with the lines it stands for.
Paths below are relative to the repository.

## 1. The system

A user's USDC sits in a Safe of their own (*M2 Safe*). Lithic, the card
processor, asks the backend by webhook to approve each purchase within 300 ms;
the backend answers from a Redis entry, and later a settlement service makes the
Safe pay the issuer through the `SpendSettler` module. A watcher follows the
chain and feeds deposits back. For some tenants the USDC is swept to a treasury
Safe (*M1*) where it earns yield in Morpho. The deployment runs **two replicas**
of the backend (`k8s/backend-deployment.yaml:11`), each with every service.

| Component | State it keeps | Operations | Talks to |
|---|---|---|---|
| `SpendSettler` + `Module` (contract) | roles, cap, pause, settled tokens, 200-slot ring buffer, totals | `settle`, pause, setters, two-step ownership, views | USDC through the M2 Safe |
| Authorization engine + ASA webhook | none of its own: Redis `auth:`, `card:`, `webhook:processed:`; `Transaction` rows | dedupe, `authorize` (card, KYC, balance, limits, MCC, atomic spend), `refreshCache`, row, enqueue | Redis, Postgres, settlement queue |
| Settlement service | BullMQ queue, running job, `Transaction.status` | `enqueue`, worker, `processJob` with retries | chain (nonce, pool, receipts), Postgres |
| Watcher: poll loop | cursor in `WatcherMeta`, `BalanceLedger`, `SpendSettledEvent`, failure counter | `poll` and what it calls | chain logs, Postgres, Redis |
| Watcher: cache synchronisation | Redis `auth:` | `reconcile`, `updateRedisCacheForDeposit` | chain balance, Redis |
| `TreasuryVault` (contract) | per-tenant shares and basis, totals, vault address | deposit, withdraw, redeem, yield view, `setMorphoVault`, `snapshotYield`, pause | a Morpho vault through M1 |
| `DeFiInteractor` (contract) | allowlist, `treasuryVault` | Morpho and Aave in and out, rewards, allowlist, one-way wiring | the same M1, `TreasuryVault` for a check |
| Yield manager | timers; `YieldLedger`, `BalanceLedger` | snapshot, 60/30/10 allocation, sweep, issuer top-up | `TreasuryVault`, Morpho, M1, the settler's account |
| Sweep service | timer, counters; `BalanceLedger` | sweep of M2 Safes | M2 Safes, the settler's account |
| `TenantRegistry`, `SafeFactory`, `ModuleSetupHelper` (contracts) | tenants, user lists (swap-and-pop), reverse map, salts and nonces | register, remove, deploy with modules | Safe proxies |
| Webhook dispatcher | none | signed delivery with three tries | tenants' servers |
| KYC routes and client | `User.kycStatus`, audit rows | start, status, Sumsub webhook | Sumsub |
| Cards, users, tenants, admin routes | Postgres rows, `card:` mapping | CRUD, freeze, limits | Lithic, Redis |
| Middleware | API keys, rate counters | authentication, `INCR` per window | Postgres, Redis |

**What is hard here.**

* *Several processes, one Redis entry.* Lua scripts, `WATCH`/`EXEC`, and blind
  `SET`s by three different writers meet on `auth:{eoa}`.
* *Several processes, one account.* Settlement workers, sweeps and allocations of
  both replicas send from one key and read its nonce from the node.
* *Asynchrony after the answer.* The row and the settlement job are written after
  the card network has its answer.
* *Chain time.* Reorganisations, receipts that do not come, a cursor that two
  watchers write.
* *At-least-once delivery.* Lithic repeats webhooks, BullMQ repeats jobs.
* *Two modules on one Safe.* `DeFiInteractor` knows nothing of tenants and shares
  their vault position.
* *Integer rounding* of proportional cost basis.

**What makes each component correct** is stated in section 3, property by
property; `PROJECT.json` lists the hazards line by line with the properties that
would catch them, and, for those no property covers, why.

## 2. Modules

Core modules are parameterised by `CONSTANTS` with a named assumption; `MC*`
modules only give values. Nothing recursive is declared anywhere.

| Module | Models | State ↔ code, actions ↔ code |
|---|---|---|
| `SpendSettler` | `SpendSettler.sol`, `base/Module.sol` | Storage variables by name; `balanceOf` is the ERC-20s, `events` the log of `SpendSettled`, `now` the block time. One action per external function, enabled exactly when the call does not revert. `SafeBalanceMoves` is the Safe's other traffic; `Received` lets the token deliver short. |
| `AuthCache` | the value of `auth:{eoa}`; the tests and updates of the Lua script | `Refuses`, `Charged`; shared by the next two. |
| `CardAuth` | `routes/webhooks.ts`, `services/authorization-engine.ts`, `lib/redis.ts` | `redis`, `db`, `jobs` are the shared stores; `pc`, `seen`, `tries`, `answer` a request's locals; `background` its promise chain. An action is the code between two awaits. `processOf` says which process serves a request; `watch[p]` is the WATCH of process *p*'s connection, which all its requests share (`server.ts:49`): every write to the key dirties it, every `UNWATCH` and `EXEC` drops it. `settles` is the guard of the enqueue (`webhooks.ts:129`): there is a settlement service, and the user has a Safe. `OthersRefill` is another request of the card in `refreshCache`. `AuthorizeThrows` and `HandlerThrows` are the two catch blocks. |
| `SettleOnce` | nothing in code: the promise of settlement | A token is paid at most once, booked as settled only if paid, or given up. |
| `Settlement` | `services/settlement-service.ts`, `settle` as the chain executes it | `waiting`/`jobIds`/`stalled` are the BullMQ queue, its deduplication by `jobId` and its stalled list; `txs` the account's transactions with nonces (a pending one may be *replaced*); `row` is `Transaction.status`. `Fault` says which calls may fail. |
| `DepositIndexer` | the poll loop of `services/watcher.ts` | `blockOf` places events on a chain that `Reorg` rewrites within `ReorgDepth`; `cursor`, `credits`, `rows` are the tables; `pc`, `from`, `to`, `batch`, `failures` a watcher's locals. |
| `CacheSync` (EXTENDS `AuthCache`) | `reconcile`, `updateRedisCacheForDeposit`, `refreshCache` and the WATCH fallback as writers of one entry | `held[w]` is the entry a writer read and will write; `Spend` is the Lua script; `GetWatched` and `Exec` are the fallback, whose WATCH a request of another user may have ended. |
| `Treasury` | `TreasuryVault.sol` and `DeFiInteractor.sol` on one Safe | Storage by name; a Morpho vault is an exchange rate with ERC-4626 rounding (`test/mocks/MockMorphoVault.sol`). The Safe's assets are USDC and the shares of each vault; any of them can be supplied to the Aave pool. `claimRewards` calls any venue on the allowlist: it takes a reward, or takes shares out of a vault or assets out of the pool, for the Safe or for another. |
| `TenantRegistry` | `TenantRegistry.sol` | Storage by name (`isUser[t]` is the set of Safes flagged for `t`), a call per action, `getUsersForTenant` as an operator. |
| `PagedReading` (EXTENDS `SafeFactory`) | a reader that lists a tenant's users with one call of `getUsersForTenant` per page (external: `docs/infrastructure.md:165` names it, the backend has none) | `offset`, `limit`, `seen` are the reader's; between two pages the chain moves. |
| `SafeLife` | nothing in code: what a Safe's registration promises | A Safe enters once, under the tenant it was made for, and never comes back. |
| `SafeFactory` (EXTENDS `TenantRegistry`) | `SafeFactory.sol`, several of them over one registry | An address is what CREATE2 hashes: factory, tenant, signer, nonce. `code` are the addresses that hold a Safe; a call that reverts is no step. |
| `CardGate` | `routes/cards.ts`, `routes/kyc.ts`, `refreshCache` as a writer of the card mapping | `lithic`, `row`, `mapping` are the three copies of a card's status; `issue`, `patch`, `charge`, `review`, `session` are where each handler stands. The four `Authorize*` actions are the awaits of an authorization. |
| `Sweep` (EXTENDS `Settlement`) | `services/sweep-service.ts`; `sweep` and `topUpIssuerSafe` of `services/yield-manager.ts`; what `server.ts` starts on one account | `at`, `amount`, `ref` are a loop's locals between its awaits; `usdc` the three Safes' balances, `sweepRows` the ledger's rows, `calls` what a loop's transaction carries. `executes` is whether a Safe acts on the call it gets. viem's `sendTransaction` is two steps, nonce with estimate and raw transaction. |
| `Dispatcher` | `services/webhook-dispatcher.ts`, the PATCH of a tenant's URL, the age check of `sdk/src/webhook.ts` | `at`, `url`, `attempt`, `age` are a dispatch's locals; `inbox` counts the copies a tenant has taken. An attempt is refused, fails, or reaches the tenant and loses its answer. |
| `YieldManager` (EXTENDS `Treasury`) | snapshot and allocation of `services/yield-manager.ts` | Over the moving treasury, await by await; decodes `getTenantPosition` with the manager's own ABI. |
| `SumTheorems` | nothing in code: sums of a function over a finite set | Lemmas about `SumFunctionOnSet` of the community modules, cited by three proof modules. |
| `*Proofs` | theorems (section 5) | Modules whose components meet share one: `AuthorizationProofs` (`CardAuth`, `CardGate`), `SettlementProofs` (`Settlement`, `Sweep`), `WatcherProofs` (`DepositIndexer`, `CacheSync`), `TreasuryProofs` (`Treasury`, `YieldManager`). |

Composition: `CardAuth` and `CacheSync` share `AuthCache`; `Settlement` embeds
the rule of `SpendSettler.settle` it depends on and implements `SettleOnce`; `Sweep`
puts the loops and the balances beside it, so that a settlement fails when a sweep has
emptied the Safe; `Dispatcher` starts where `CardAuth` answers;
`YieldManager` runs on `Treasury`; `SafeFactory` calls `TenantRegistry` inside its
deployment and with it implements `SafeLife`; `PagedReading` reads beside both. `CardGate` is what `CardAuth` takes
as given: it ends where an authorization reaches the entry.

History variables (`epoch`, `since`, `total`, `chargedBy`, `watching`, `blind`, `lapsed`;
`total`, `atRisk`, `before`, `bare`; `began`, `moved`, `repeated`;
`dropped`, `missed`, `cut`, `overlap`; `abandoned`, `unanswered`; `earned`, `moves`; `unchecked`; `removed`; `disturbed`,
`overlapped`, `lastReview`) are read by properties
and never by guards, except `earned` in the bound of `RateMoves`.

## 3. Runs

`tlc -workers 2 -config X.cfg M`. Twelve runs: ten pass and check forty properties; two must find a
violation.

### Passing runs

**`settler`** (`MCSpendSettler`): every call by two accounts, two tokens, three
transactions, a ring buffer of two slots, a window of one tick, an amount wider
than the slot, short transfers.
* `SettledOnce`: the mapping, the log and the nonce agree; no token twice,
  whatever is rotated or paused.
* `PaidInFull`: what the log says an account was sent, it received.
* `BufferHoldsLatest`, `RollingSpendExact`: the ring buffer is the tail of the log
  through every wrap, and the backwards walk sums the window as long as its records
  still are in the buffer.

Three transactions over two slots wrap the buffer; a window shorter than
`MaxTime` makes records leave it. The real sizes (200, 24 h) differ only in number,
and all four properties are proved for all of them.

**`auth`** (`MCCardAuth`): a purchase of one unit and its replay, on one process and so on
one Redis connection, or on two; daily limit 1, funds 3, every failing call and deadline,
every TTL, a crash, another request's refill, under fairness.
* `SpendLostOnlyIf`: between full writes of the entry no charge is lost, unless two requests
  share a connection and one has dropped the other's WATCH. That does happen
  (section 6), and the property says that nothing else loses one.
* `OverLimitOnlyIf`: what is charged between two full writes fits balance and limits
  *together* unless an `EXEC` ran without its WATCH; and all that is ever charged fits the
  card's limits unless one did, or a refill was stored that missed a charge.
* `ApprovedIsCharged`: an approval anywhere (answer, replay key, row, job) rests
  on a charge.
* `EveryDeliveryAnswered`: the retries of the WATCH path end.
* `ApprovedIsEnqueued`: where the backend has a settler's key and the user a Safe, an
  approval's job gets in the queue though the row is refused; only a crash, a failed enqueue or a mapping that cannot be read lose it. The run
  found the last: a call that fails after the token was marked (`webhooks.ts:89-103`)
  leaves a mark from which the replay is approved, and no job.

The limit admits one of the two, so every order of test and charge matters; two
attempts of the WATCH path suffice to fail, retry and give up. To keep safety and liveness
in one run, `MCCardAuth` splits what is beside them: requests on one connection are checked
with jobs to enqueue and another request's refill, requests on two with crashes and replay
keys that run out. The theorems know no such split.

**`settle_one`** (`MCSettlement`): one process, two tokens, two attempts, every
fault, one crash, lost lock or forgotten job.
* `KeepsPromise`: the service implements `SettleOnce`, with `payments` and `row`
  mapped to themselves.
* `EveryJobConcludes`: each job ends with its row booked, unless the queue or
  database lost it.

**`account`** (`MCSweep`): a settlement worker, the two sweeping loops of a process, the
top-up and an allocation on the settler's account; one purchase, one Safe, two
transactions in the pool, lost answers, late receipts, reverts, failed inserts, and
one deposit, crash, lost lock or allocation.
* `PromiseOrReplaced`: the promise of `SettleOnce` is kept step by step beside the other
  senders, but for a row booked as settled after another transaction took the nonce of its
  `settle()`. (`KeepsPromise` does not hold on a shared account.)
* `BookedUnpaidOnlyIf`: a row says settled for an unpaid token only when another
  transaction took its nonce and the worker that one's receipt.
* `PhantomRowOnlyIf`: a sweep row is of a sweep that succeeded, once and in its
  amount, unless its transaction was replaced.
* `UnbookedSweepOnlyIf`: a sweep without a row has a sender that died, timed out, lost an
  answer or failed to insert.
* `IssuerWithinTarget`: one loop does not top the issuer Safe up beyond its target, unless it
  sent while an earlier top-up was on its way.

Two transactions at one nonce are the first that replace each other, and the first two
sweeps of one balance; a second attempt of the job comes from a lost lock. Three
transactions were explored up to fourteen million states without a violation, which is
too long for a run; all five are proved for any number of workers, loops,
transactions and disruptions (section 5).

**`dispatch`** (`MCDispatcher`): two events of one card on two processes, two URLs, the
code's delays and timeout, every failure, one change of URL, one crash.
* `EventAccountedFor`: a signed event is taken, or logged as failed, or its process died
  or could not log.
* `CopiesExplained`: what the dispatcher believes and what the tenant has differ only by a
  lost answer.
* `RetriesStayFresh`: no retry is too old for the SDK.

Three attempts are the code's; a third event would add no interaction, since dispatches
share only the tenant's row and the mapping.

**`deposits`** (`MCDepositIndexer`): two watchers on one cursor, one deposit and
one settlement event, three blocks with a buffer and reorg depth of one, two
failed polls or crashes, enough to trip the circuit breaker.
* `CursorCovers`: no event up to the cursor is left behind, whichever watcher
  overwrote the cursor.
* `IndexedIsFinal`: nothing credited is reorganised away.
* `CreditedTwiceOnlyIf`: a second credit needs a poll cut short or two watchers in
  one range; nothing else makes one.
* `FinalIsIndexed`: every confirmed event is indexed in the end, but for one whose own
  write failed (`dropped`) or whose Safe was unknown when it was read (`missed`).

**`cache_writers`** (`MCCacheSync`): two writers, two spends, a deposit, a failure,
an expiry; a writer may be the fallback of an authorization, whose WATCH holds or not.
* `LimitsKept`: limits are lost only where the watcher rebuilds a missing entry.
* `SpentAccounted`: never too much counted; what is missed was charged between another
  writer's read and its write, or before the entry last expired. The spends counted are
  those of the entry's life: the code resets nothing with the day or the month.
* `BalanceConverges`: the cached balance becomes the chain's and stays so.

**`treasury`** (`MCTreasury`): two tenants, two vaults, rates 1 and 1.5, amounts 1
and 2, every call of both modules.
* `PositionsAddUp`: totals are the sums of positions after partial burns and
  rounding.
* `YieldIsEarned`: no tenant shows yield its shares did not earn.
* `BackingLostOnlyIf`: once wired, the backing falls short only by `claimRewards`, whose
  calldata nothing reads, or by `supplyToAave` of the vault's own shares; the two checked
  withdrawals and every call of `TreasuryVault` keep it. The history `unchecked` records
  that one of the two calls took shares, so that a withdrawal with its check left out,
  which moves the same shares, is not mistaken for them.

A rate of 1.5 makes conversions of 1 and 2 round; `MaxEarned` is 3, a rise of the rate on
three shares, after which it may fall and others deposit and withdraw; the allowlist is
bounded at one venue at a time since a call looks at one.

**`registry`** (`MCSafeFactory`): a factory and its successor, two tenants, up to
four deployments, removals, deactivations, changes of factory and registry; a reader that
goes through one tenant's users in pages of one or two, while at most three Safes are deployed;
symmetric in factories and tenants.
* `ListsAgree`: flag, list, index and count describe one set after any
  swap-and-pop.
* `ReverseAgrees`: `registerUser` looks only at the tenant it is given; that no
  other tenant lists the Safe follows from how factories make addresses.
* `PagesMissOnlyMoved`: a reader that takes page after page while Safes come and go sees
  every user that stays, each once, but for one that a removal's swap-and-pop moved from a
  page to come into a page already read. It does miss that one.
* `AddressesByNonce`: an address with code is of a nonce its factory has used, so no
  deployment finds its address taken.
* `EntersOnce`: the refinement of `SafeLife`.

Three users of one tenant are the first list in which a removal moves a user that
is neither removed nor alone.

**`gate`** (`CardGate`): a card issued, two PATCHes, an authorization, a review and a
session at a time, each again and again, failing anywhere.
* `CancelledIsClosed`: a card cancelled in Postgres or Redis is closed at Lithic.
* `CopiesAgree`: the three copies agree unless writers overlapped or one was cut short,
  and the next PATCH that runs alone repairs them. Two overlapping writers do leave
  them apart: an authorization's refresh writes the status it read over a freeze.
* `BlockTakesHold`: but not for ever: `refreshCache` needs an active row, so a
  stale "active" mapping is not renewed and its TTL ends it.
* `KycFollowsReviews`: the status is that of the last review, unless handlers overlapped.

A second review handler would add only overlaps, which the property leaves out.

`Treasury!TypeOK` and `CardGate!GateTypeOK` are checked in their runs. The type
invariants of the other core modules are theorems (`TypeCorrect`, section 5) and no run
repeats them.

Every property has a mutant in `PROJECT.json`: a definition of the code replaced by a
plausible bug (an `EXEC` that never fails, a cursor two ahead, a check on the
balance before the withdrawal ...), under which TLC finds it violated.

### Violations

| Run | What it shows |
|---|---|
| `auth_replay` (`ReplayChargesOnce`) | The token is marked as processed after `authorize` has charged (`webhooks.ts:75,87,90`): two concurrent deliveries both charge. |
| `yield_again` (`YieldAllocatedOnce`) | Each snapshot allocates the *unrealized* yield in full and nothing books or withdraws it, so the next snapshot allocates it again. The history `moves` makes sure the position has not changed in between. |

### Bounds

`MaxTime`, `Funds` (settler: the Safe's balance); `MaxCrashes`; `MaxDisruptions`
and `MaxTxs` (settlement and the loops); `MaxBlock`, `MaxDisruptions` (indexer); `MaxDeposits`,
`MaxFailures`, `MaxExpiries` (cache); `MaxFunds`, `MaxListed`, `MaxEarned`
(treasury); `MaxRows` (yield); `MaxRefills` (another request's refills of an entry); `MaxUpdates`,
`MaxCrashes` (dispatcher); `MaxNonce`, `MaxDeployed` (factory), `MaxDeployedRead` (while a
reader is under way). All are guards on the environment or on a total
that would grow for ever, named in the module that has them. `MAX_RECORDS`,
`MAX_ATOMIC_RETRIES` (3 in the code), `MaxRetries` (3), `CONFIRMATION_BUFFER` (2)
and `MAX_CONSECUTIVE_FAILURES` (5) are the code's constants and get the smallest
values at which their branch is taken both ways.

`CHECK_DEADLOCK FALSE` appears where the system may rest: every delivery answered,
every job ended.

### Fairness

* `CardAuth`: weak fairness of a request's own steps and of its promise chain.
  Node runs what is ready and every await in this path has an outcome (Redis and
  Prisma calls resolve or reject). None for arrivals, expiries and crashes.
* `Settlement`: weak fairness of taking a job, of running it, and of mining
  something pending. A crash is unfair and bounded; BullMQ's stalled check
  returns the job.
* `Dispatcher`: weak fairness of a dispatch: its awaits resolve, its requests are aborted
  by their timer and its delays are timers. None for decisions, updates and crashes.
* `DepositIndexer`: weak fairness of a watcher's step. `scheduleNextPoll` is called on
  every path of `poll`. Failed polls and crashes are bounded: with failures for
  ever nothing is indexed.
* `CacheSync`: weak fairness of a writer's steps: `reconcile` re-arms its timer in a
  `finally`.
* `CardGate`: weak fairness of the requests for the card, since each await ends, and
  of the mapping's TTL, which no read renews. None for arrivals.

## 4. What the models leave out inside modelled components

* Units: the engine subtracts cents from base units (section 6); the models have
  one unit.
* `CardAuth` and `CacheSync`: nothing happens at the turn of a day or a month, since no code
  resets a spend then; a count ends with its entry.
* `CacheSync`: the fallback's attempts are not counted, a conflict is retried or given up;
  `CardAuth` counts them.
* `CardAuth`: HMAC checks, parsing, audit rows; the tenant's webhook is `Dispatcher`. The card's status
  does not change during a run: `CardGate` has its writers.
* `Settlement`: `processQueue`, which nothing calls; gas limits; audit rows. The
  service talks to one `SpendSettler`, as the code does.
* `DepositIndexer`: the logs of a range and the known Safes are read in one step:
  the range is behind any reorg and a Safe registered in between only moves
  an event from `missed` to the batch.
* `Treasury`: pausing, the operator and owner checks and the slippage bounds only make
  calls revert, so a behaviour with them is one without; `snapshotYield` writes what no
  call reads. The real vault's rate is any number: TLC takes two of them. Interest and
  loans of the Aave pool, and calls on venues other than the vaults, the pool and a
  distributor, are left out; an approval given through `claimRewards` is one step with its use.
* `SafeFactory`: the modules of a Safe, the custody model and the setters that decide
  them. Whatever fails in deploying or enabling them reverts the deployment.
* `CardGate`: limits and blacklist, which `PATCH` writes to the row alone (section 6);
  the row read before Lithic is called, which only says that the card is there;
  audit rows.
* `YieldManager`: the transfer is sent to the Safe's own address as calldata; what
  a Safe's fallback makes of it is external, so only a receipt is modelled.
* `Sweep`: which users a cycle visits and the circuit breaker, which say when a cycle
  runs; the audit log, which nothing reads. The balance that bounds a settlement is the
  Safe's: the issuer's spending cap is `SpendSettler`'s.
* `Dispatcher`: the signature itself and the ranges of blocked addresses; a URL that no
  longer validates is an attempt that fails. The name look-up is not under the abort
  timer (`webhook-dispatcher.ts:210-213`), so an attempt may last longer than
  `Durations` says; `RetriesStayFresh` has more than four minutes of slack.

## 5. Theorems

Eight proof modules. Every theorem is for all values of the constants under the
named assumptions of its module, which TLC evaluates for the values of its run.
Every invariant and every action property of section 3 is proved, and the refinement of
`SafeLife`. Of the promise of `SettleOnce`, the part that holds on the shared account is
proved; that a service alone on it keeps all of it (`KeepsPromise`) is model-checked.

| Theorem | States | Argument |
|---|---|---|
| `SpendSettlerProofs!TypeCorrect`, `SettledOnceHolds` | types; no token twice | Inductive on their own once `Settle` is the only action that touches `books` (`OwnerCallKeepsBooks`). |
| `PaidInFullHolds` | received = logged, for every account but the Safe | Inductive with `TypeOK`; both sides are sums that one settlement changes by its amount (`SumChanges`, `SumAdds`). |
| `BufferHoldsLatestHolds` | buffer = tail of the log | Needs `HeadFollowsCount`: before the first wrap the head is the count. `SlotsShift` is the modular arithmetic of one step. |
| `RollingSpendExactHolds` | the loop sums the window | `ScanSumsLatest`: a walk back over the ring adds the latest entries of the log, by `BufferHoldsLatest` and `SumReorders`. `ScanCoversWindow`: with `LogInOrder`, where the walk stops at an old slot everything before is old too. |
| `AuthorizationProofs!TypeCorrect` | types, retry bound, no negative balance | `Typed` adds that a request at `exec` or `fill` holds an entry that covers it. |
| `SpendLostOnlyIfHolds`, `OverLimitOnlyIfHolds` | what a lost spend and a broken limit need | For any number of requests and processes and any sharing of connections. `IInv` adds `WatchGuards`: a request before `EXEC` has its connection's watch, or has lost it to another request and `blind` will say so; and while the watch is clean the entry it read is the entry in Redis. |
| `ApprovedIsChargedHolds` | an approval rests on a charge | `ApprovalsSpent` says it of every place where an approval is on its way: the request's verdict, the mark, the background step. No assumption on connections. |
| `GateTypeCorrect`, `CancelledIsClosedHolds` | types; cancelled means closed | `CancelInv`: a `PATCH` that asked for a cancellation, or is to write one, has closed the card. `Issued`: nothing is under way before the card. |
| `CopiesAgreeHolds` | the copies agree at rest | `CopiesInv` says what each copy is while the one undisturbed writer has written some of them, for each kind of writer. |
| `KycFollowsReviewsHolds` | status = last review | `KycInv`: one handler decides at a time or `overlapped` remembers, and a session alone finds "pending". Assumes that no review is a session (`GateAssumption`). |
| `SettlementProofs!TypeCorrect`, `PaidOnceHolds` | a token is paid at most once | Theorems of `SweepSpec`, for any number of workers, loops and replacements: `StepIsShared` shows that a step of a loop is `OtherStep` to the service, and the invariant is that of `Next` with `OtherStep`. `JobsKnown` and `NoncesHeld` make it inductive; the contract's idempotency carries the rest. |
| `PromiseKept` | `SweepSpec => PromiseOrReplaced` | Of the service beside any loops, for any number of workers: every step is one of `SettleOnce` or leaves `payments` and `row`, but for the row that books another transaction's receipt. Cites `BInv` for that receipt. |
| `BookedUnpaidOnlyIfHolds` | a settled row is a payment, or its transaction was replaced | Of `SweepSpec` too, for any number of workers and loops. `BInv` adds that one transaction stands at a nonce (`OneStands`), that a worker waits for its own (`OwnReceipt`) and that what succeeded is settled; `Grows`: the chain takes back neither a payment nor a replacement. |
| `SettlementProofs!SweepTypeCorrect` | types of the loops | No transfer takes a Safe below zero, no top-up is negative. `LoopsTyped` adds that a loop waits for a transaction of the loops. |
| `PhantomRowOnlyIfHolds`, `UnbookedSweepOnlyIfHolds` | what a sweep row says of the chain, and a sweep without one | For any number of loops, settlements and transactions. `AwaitedIsOwn`: a loop waits for its own transaction, which no row and no other loop has; `SweepsAccounted`: a sweep is booked, awaited, abandoned, or final without success. `OneStands` of `BInv` is needed for the receipt to be the loop's own. |
| `IssuerWithinTargetHolds` | no top-up past the target | `TopUpsAwaited`: a top-up that may still be mined is awaited by its loop or abandoned. `TargetKept`: the balance with what the loop is about to add stays below the target and what came in (`Inflow`). |
| `WatcherProofs!TypeCorrect`, `CursorCoversHolds`, `IndexedIsFinalHolds` | as in section 3 | `PollOK`: a poll's range is behind the buffer, begins right after covered blocks, and its events are accounted for or in its batch. That `ReorgDepth <= CONFIRMATION_BUFFER` is an assumption of the module. |
| `CreditedTwiceOnlyIfHolds` | what a second credit needs | `OnceInv`: until a poll is cut short or overlaps another, one watcher reads at a time, from the cursor on (`OneReader`), and a credited deposit is behind the cursor or gone from the batch (`CreditedBehind`). |
| `SyncTypeCorrect`, `LimitsKeptHolds`, `SpentAccountedHolds` | as in section 3 | The strengthenings say the same of every entry a writer holds; `AccountedWith` is `SpentAccounted` of the entry with which the fallback is about to replace the one in Redis. |
| `DispatcherProofs!TypeCorrect`, `CopiesExplainedHolds` | no more copies than attempts; a copy too many has a lost answer | `CopiesCounted`: no copy before the loop, and in it no more than the attempts that are over. |
| `RetriesStayFreshHolds` | no retry is refused for its age | `Aged`: an event has aged by at most its attempts times the longest attempt with its wait. Assumes that all of them but one fit the SDK's age (`Fits`: 70 s twice against 300 s). |
| `TreasuryProofs!TypeCorrect`, `PositionsAddUpHolds`, `YieldIsEarnedHolds` | no total or position below zero; totals are sums; no yield from rounding | One invariant, `BooksInv`: the totals stay natural because they are sums. Its part `GrowthIsEarned` is `YieldIsEarned` before the vault rounds, which a partial burn keeps (`BurnKeepsGrowth`: the basis falls by a share of itself rounded down, or by all of it when the shares are gone); the rounded property is not inductive. |
| `BackingLostOnlyIfHolds` | once wired, only `supplyToAave` and `claimRewards` take the tenants' backing | For every rate, rounding and number of tenants. `StepKeepsBacking` goes through the calls: a deposit promises what the vault minted, a burn takes what it burns, the interactor's two withdrawals leave enough; `FallenShares` is the rest. |
| `RowsAllocatedOnceHolds` | a snapshot row is allocated at most once, and only from `MinYield` up | `RowsAllocatedOnce` with `ManagerTyped`, over the treasury as it moves beside the manager (`BooksBesideManager`). It bounds what `yield_again` shows: the yield is allocated again because the next snapshot writes another row of it. No run checks it: `YieldManager` has the violation run only. |
| `SafeFactoryProofs!TypeCorrect`, `ListsAgreeHolds`, `ReverseAgreesHolds` | the views of a tenant's users agree | `RegisterKeepsLists` and `RemoveKeepsLists` are the two changes of the list; the second is the swap-and-pop, last user included. The reverse map needs `UsersAreOwn`, that a tenant's users are Safes deployed for it: the registry alone looks at one tenant only. |
| `PagesMissOnlyMovedHolds` | what a reader of pages misses was moved | Over `ReaderSpec`, for any page size, number of users and interleaving of calls. A user that stays keeps its index but for a swap, which `moved` remembers (`IndexFalls`), so a page shows it when its index comes up (`PageShows`). |
| `AddressesByNonceHolds` | no address is taken | `NoncesCount`: every deployment took the next nonce and the next place of its list. |
| `LifeImplemented` | `Spec => Life!Spec` | Refinement: a Safe that registers is new, so it was never listed and never removed. Assumes that an address determines factory, tenant, signer and nonce (`FactoryAssumption`). |

**Sums.** `SumFunctionOnSet` is a recursive function chosen over the subsets of its
set. `SumTheorems` shows that the function exists and is unique, that an element can be
taken out in any order, and what a sum does when its function or its set changes. Each
is an induction over finite sets; since the library's induction theorems take an
operator, it is done by hand: were there a counterexample there would be a
smallest subset that is one (`MinimalSubset`), and taking out an element contradicts it.
The sums are over `Tokens`, `Tenants` and the transactions sent: the first two are
assumed finite, as any set of ids that has been used is.

Only model-checked: liveness and anything about fairness (`EveryDeliveryAnswered`,
`ApprovedIsEnqueued`, `EveryJobConcludes`, `KeepsPromise`, `EventAccountedFor`, `FinalIsIndexed`,
`BalanceConverges`, `BlockTakesHold`), which the prover does not do, and `KeepsPromise`, which the theorem for the shared account
replaces. The two violation runs refute what they check.

## 6. Divergences met while modelling

The two violation runs are findings in `PROJECT.json`. Others, which no run
isolates:

* A restart of the watcher between a ledger row and the cursor credits a deposit
  twice: `BalanceLedger` has no key on the transfer (`watcher.ts:151`).
  `CreditedTwiceOnlyIf` says that only this and two watchers in one range do.
* When the last attempt's receipt is late the row becomes `failed`, and nothing
  corrects it when the transaction is mined (`settlement-service.ts:212`).
* A KYC session reads "pending", waits for Sumsub and then writes "pending": a review
  approved in between is lost (`kyc.ts:66-72`, whose write would change nothing
  otherwise). Two reviews handled at once may leave the older result.
* Limits set by `PATCH` never reach the `auth:` entry (`cards.ts:237-285`), and
  `reconcile` renews the entry's TTL of 300 s every 60 s with the limits it finds
  (`watcher.ts:39,476-490`).
* An authorization that is refreshing writes "active" over a freeze or a cancellation
  (`authorization-engine.ts:322`): the card passes the status check until the mapping
  expires. `BlockTakesHold` bounds it.
* Amounts from Lithic are cents; cached balances, limits from the chain and
  settlement amounts are 6-decimal base units (`authorization-engine.ts:124`,
  `webhooks.ts:136` against `types/index.ts:37,61`).
* The `Transaction` row is created with `userId: cardMapping.subAccountId`
  (`webhooks.ts:111`), which its foreign key to `User` refuses. `RowAccepted` is
  therefore false in the runs, and a rebuilt entry counts no spends
  (`authorization-engine.ts:259`): the daily limit restarts with each expiry.
* `WATCH` is used on the process's shared connection (`redis.ts:64`): an `UNWATCH`
  or `EXEC` of another request drops it and a stale entry can be written, which loses a
  charge and lets two purchases exceed balance and limits together;
  `docs/infrastructure.md:481` says that atomic operations prevent this. The `auth` run has
  such pairs of requests, and `SpendLostOnlyIf` and `OverLimitOnlyIf` say that nothing else does it.
* A daily spend is kept in the entry and never reset at midnight. While spends and
  `reconcile` renew the entry's TTL it goes on counting, for days; when the entry does expire,
  all of the day's count goes with it.
* Without `SETTLER_PRIVATE_KEY` there is no settlement service (`server.ts:104-118`), and
  for a user without a Safe none is asked (`webhooks.ts:129`): purchases are approved and no
  job is enqueued, nor is one later.
* The card mapping has a TTL of a day (`redis.ts:244`; `docs/infrastructure.md:87`
  says none); when it runs out between the decision and the second lookup, an
  approved spend gets no job.
* `reconcile` forgets spends charged between its GET and SET (`watcher.ts:476-490`
  against `docs/infrastructure.md:293`), rebuilds a missing entry with limits of 0
  (unlimited), and replaces a balance net of unsettled spends by the chain's.
* A failing call after the token was marked answers DECLINED while its replay
  answers APPROVED.
* Two replicas read the same pending nonce; a worker can book the receipt of the
  transaction that replaced its own (`settlement-service.ts:65,173`).
* A retry whose `enqueue` fails is lost (`settlement-service.ts:205`).
* Every settlement goes to one configured `SpendSettler` though each Safe has its own
  (`settlement-service.ts:277` against `docs/infrastructure.md:120`).
* `getActiveRecordCount` never shrinks (`SpendSettler.sol:214-216`); beyond 200
  settlements a day the rolling spend leaves out the oldest.
* The yield manager's ABI names the words of `getTenantPosition` in the wrong order
  (`yield-manager.ts:20` against `ITreasuryVault.sol:12-17`).
* `claimRewards` (`DeFiInteractor.sol:329`) sends any calldata to any address on the
  allowlist, the tenants' Morpho vault included, and `supplyToAave` (`:214`) takes any
  asset, that vault's shares included; neither looks at the tenants' shares.
  `BackingLostOnlyIf` names them, and holds once `setTreasuryVault` was called, which no
  deployment script does.
* A client that pages through `getUsersForTenant` misses a user whom a removal moved to a
  page it has read (`PagesMissOnlyMoved`).
* Sweeps, top-ups and allocations send `transfer` calldata to a Safe's address and
  not through a module (`sweep-service.ts:247-264`). The Safes of this repository have no
  fallback handler (`SafeFactory.sol:262,286`), so such a call succeeds and moves
  nothing: the receipt says success, a ledger row is written, and the next cycle sweeps
  the same balance again. `executes` is therefore both ways in `Sweep`; with it false
  every sweep row is of this kind, and `PhantomRowOnlyIf` speaks of the transaction.
* A sweep takes the whole balance (`sweep-service.ts:155`), where the doc sweeps the
  "excess" (`docs/infrastructure.md:301`): spends that were approved and not settled
  then have no funds to be settled from.
* `server.ts:136-151` starts two sweepers over the same Safes.
* A lost answer or late receipt leaves a sweep that moved without a row, and no later cycle
  looks for it; a top-up in that state is sent again.
* A failure between the mark of a token and the read of its mapping loses the job
  of a charged purchase whose replay is approved (`webhooks.ts:89-103`).
* The dispatcher's docs promise retries after 1, 10 and 60 s
  (`webhook-dispatcher.ts:82`); the 60 s are never waited, since nothing follows the
  third attempt.
* No route writes `webhookSecret`, and a tenant without one is skipped
  (`webhook-dispatcher.ts:99`). A replayed authorization makes an event with a new id, so
  a tenant cannot tell it by its id.
* The SDK names the header `X-MultiSubs-Signature` (`sdk/src/webhook.ts:13`), the
  dispatcher sends `X-Webhook-Signature`.
* The rate limiter called sliding counts fixed windows (`lib/redis.ts:256-275`), and a
  tenant's `rateLimit` is not read.

## 7. Not modelled

`PROJECT.json` lists every component with its reason. The Lithic and Sumsub clients
and the SDK's client are I/O; middleware is single atomic operations; the admin,
transaction and user routes read, or insert one row; the schema and manifests are
declarations that the models use as guards and as the number of processes.

## 8. Plan

Done, in this order: `SpendSettler`, `AuthCache`/`CardAuth`, `SettleOnce`/
`Settlement`, `DepositIndexer`, `CacheSync`, `Treasury`, `YieldManager`, `TenantRegistry`/
`SafeFactory`, `CardGate`, `Dispatcher`, `Sweep`, and the proofs.

Next, most important first.

1. Proofs: what a row of the `YieldLedger` was written from, against what its
   allocation pays and credits, in `TreasuryProofs`.
2. `YieldManager`, rest: what is credited to a position bought at two rates, under the
   swapped ABI. A passing run of the snapshot cycle.
3. `SafeFactory`, rest: the modules a Safe gets through changes of the factory's
   settings, and their addresses.
4. The limits of `PATCH` in `CacheSync`: when does a new limit take hold?
