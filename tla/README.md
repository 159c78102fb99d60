# WAR ARENA: a verification development

TLA+ models of the WAR ARENA server (`src/src`): what takes money and runs paid
scans, what watches wallets and sends alerts, what acquires and evaluates market
data, and what stores it. Paths below are relative to `src/src` unless they start
with `src/`.

## 1. The system

One Node process serves a Telegram mini app. It scans a token (market data from
the GMGN command line tool, evaluated by the WAR core into a report), charges a
prepaid balance for it, and, when an external cron pings it, watches wallets and
notifies subscribers. It runs on a host that scales to zero, so it is restarted
often; what is in PostgreSQL survives, what is in memory does not. There is one
thread: everything between two `await`s is atomic, everything else interleaves
with other requests, webhooks and ticks.

| component | state | operations | interacts with | what is hard |
|---|---|---|---|---|
| scan pipeline (`product/scan`) | execution, usage and entitlement rows, snapshots | `execute`: gate, reserve, mark, acquire, evaluate, persist, failAndRelease | entitlement ledger, unit of work, GMGN and WAR ports | retries and shared entitlements at every await, half-failed transactions, exceptions outside the `try`s, restarts |
| entitlement ledger (`product/payment/entitlement.ts`) | status and usage by id, in memory | issueFrom, consume, releaseIfUnused | pipeline, `POST /scan` | single consumption against releases by others |
| balance ledger (`product/payment/balance.ts`) | account, movements, refunded ids, in memory | register, topUp, setTier, charge, refund | `POST /scan`, webhooks, plans | replays and repeated or foreign refunds |
| payment settlement (`product/payment/paymentWebhook.ts`) | settled ids, in memory | settle | balance ledger | events again, late, short of the price |
| wired API (`api/wiredApp.ts`) | request counter, intel cache | POST /scan, consent, wallet-watch, referral, founder, tick, webhooks | all of the above | check-then-act on caps and quotas, refund on every failure path |
| pricing, promotion, daily usage (`product/pricing`) | one row per user and day | check, record | `POST /scan` | the cap between check and count, midnight |
| tick engine (`integration/tickEngine.ts`) | cursor per watch, founder snapshot and events | runWalletWatchTick, runFounderReceivedTick | watch store, GMGN feed, Telegram channel | overlapping cycles, crash between send and cursor, exceptions in the middle of a watch |
| wallet-watch store and plans (`product/watch`) | watches, cursors, tiers | subscribe, cancel, advanceCursor, setTier | API, tick | quota check before subscribe, charge before plan |
| monitoring (`product/monitor`, `integration/MonitoringService.ts`, `monitorTick.ts`) | session status, carry | tick, pause, cancel, expire | ports, alerts, token memory | status written back after awaits, expiry |
| transport resilience (`hardening`) | breaker, kill switch, retries, timers | run | GMGN executor | concurrent calls and the breaker, timeouts racing answers |
| trending cache (`product/trending`) | snapshot, refresh in flight | get | GMGN, briefing, collector | one refresh for all callers, failing refreshes |
| performance dataset and briefing (`product/intel`) | one observation per wallet, token and day | collect, calibrate, build | trending, tick | which tokens a tick reaches, how much an observation counts |
| war indices (`product/analysis`) | none | indices, blend, mood | trending, world | missing data, inverted indices, rounding |
| rate limiter, scheduler (`runtime`, `api/security.ts`) | buckets | tryAdmit, planSchedule, prune | HTTP, GMGN routes | numeric edges, a clock set back |
| persistence (`product/persistence`) | tables, or maps with copy-and-restore transactions | repositories, transaction | all | commits whose answer is lost; rollback over concurrent writes; two implementations of one contract |
| WAR core (`core`) | none between calls that its callers use | evaluate | pipeline, monitoring | thresholds, missing data, rows of other tokens |
| timeline, replay, outcome (`core/timeline`, `replay`, `outcome`) | an append-only log | build, frames, judge | reports | observations late, twice, out of order |
| coordination detector (`structure/coordination`) | none | detect | funder lookups | what a later record changes |
| referrals (`product/referral`) | codes, invites, rewards | codeFor, recordInvite, markGranted | API | reward marked before it is issued |
| consent, membership, auth (`product/legal`, `auth`) | consents | record, latest | API | - |
| world, experience, renderer, ui | none that the server depends on | rendering | reports | - |

`PROJECT.json` lists every component with its status, and 40 hazards at their
lines with the properties that cover them. Five hazards have no property. For two
no text of the repository says what should hold: buys that fall into different
cycles never converge, and a delivery the channel reports as failed is not tried
again. The other three do happen, and what is checked excuses them: a rollback of the
in-memory store erases what others wrote meanwhile (`RepeatsConverge` excepts it), a
trade that
shows up late within a second already alerted on is passed (`NothingSkipped` calls
it covered), and a cancel or pause during a tick is undone by whoever stores the
tick's result (`EndedStaysEnded` speaks of sessions that ended between ticks).

## 2. The modules

| module | models | extends / instances |
|---|---|---|
| `ScanService` | `ScanService.execute` with the `EntitlementLedger` and the rows it writes | |
| `BalanceLedger` | the balance ledger | |
| `PaymentSettlement` | `PaymentWebhookService.settle`, with charges and refunds around it | `BalanceLedger` |
| `PaidScan` | abstract: pay one credit, get the result or the credit back | |
| `ScanApi` | `POST /scan`, webhooks, restarts: composes all of the above | `PaymentSettlement`; instances `ScanService` and, as its promise, `PaidScan` |
| `WatchQuota` | consent, plans and watches: routes and store | `BalanceLedger` |
| `Referrals` | invites, milestones and their rewards | |
| `Repositories` | the in-memory and the PostgreSQL unit of work, side by side | |
| `WalletWatchTick` | `runWalletWatchTick` with the PostgreSQL watch store | |
| `FounderTick` | `runFounderReceivedTick` | |
| `TrendingFeed` | the trending cache and its three readers | |
| `PerfDataset` | collector, observation store, calibration, selection of the briefing | |
| `WarIndices` | the view of a trending token: indices, score, mood | |
| `History` | timeline, replay and outcome over a growing log | |
| `Coordination` | the detector of linked wallets | |
| `Transport` | `ResilientCliExecutor` around `GmgnCliExecutor` | |
| `RateLimits` | the HTTP token bucket, the GMGN leaky bucket and the planner | |
| `Evaluation` | acquisition of one token and the core's evaluation of it | |
| `Monitor` | a monitoring session over it: ticks, carry, alerts, records | `Evaluation` |
| `BalanceLedger_proofs` | lemmas about accounts, movements and sums over them | `BalanceLedger`, `TLAPS` |
| `ScanService_proofs`, `ScanApi_proofs`, `Repositories_proofs`, `WalletWatchTick_proofs` | theorems about the module they are named after | that module, `TLAPS`; `WalletWatchTick_proofs` also `FiniteSetTheorems` |
| `Feeds_proofs` | theorems about the components `MCFeeds` puts side by side | `FounderTick`, `TrendingFeed`, `WarIndices`, `PerfDataset`, `History`, `Coordination`, `FiniteSetTheorems`, `TLAPS` |
| `Accounts_proofs` | theorems about settlement, plans and watches, referrals | `BalanceLedger_proofs`, `PaymentSettlement`, `WatchQuota`, `Referrals` |
| `Acquisition_proofs` | theorems about the executor, the limiters and the session | `Transport`, `RateLimits`, `Monitor`, `TLAPS` |
| `MC*` | constant values for TLC; `MCAccounts`, `MCFeeds`, `MCAcquisition` put components side by side | |

*Side by side.* Components that share no state need no product of their state
spaces. `MCAccounts`, `MCFeeds` and `MCAcquisition` choose one of their components
in `Init` (the variable `side`), and the others stutter: a run of such a module is
as large as the sum of its parts, and every part is explored in full.
`MCWalletWatchTick` chooses one of three environments in the same way.

### How state and actions correspond to the code

*Granularity.* An action is the code between two awaits or one database
transaction. `pc` (ScanService), `api` (ScanApi), `at` (WalletWatchTick), `handler`
(WatchQuota), `rewarder` (Referrals), `fpc` (FounderTick), `req` and `burst`
(TrendingFeed), `tpc` (Transport) and `ticking` (Monitor) say at which await a
call, request or cycle stands.

*ScanService.* `status` and `usage` are the two maps of `EntitlementLedger`;
`entRow`, `usageRow`, `execRow`, `snapshots` the tables `entitlements`,
`usage_ledger`, `scan_executions`, `intelligence_snapshots`. `Gate` is the read at
the start of `execute`, `Consume`/`Refuse` the synchronous consume of `reserve`,
`Reserve`, `Mark`, `Persist` and `RecordFailure` its database steps,
`Produce`/`ProduceNothing` acquisition and evaluation, `UndoReserve` and `Release`
the two places that give an entitlement back. `DbStep` gives every database step
its three outcomes: commit, rollback with an exception (`Throws`), commit with an
exception because the answer is lost (`LostAcks`). An exception continues where
the code catches it (`reserve`, `persist`) and otherwise leaves `execute`
(`threw`). A report's content is abstracted to "stored for this request". The
constants bind a request to its entitlement, as a `scan_requests` row does.

*BalanceLedger, PaymentSettlement.* Every operation is synchronous, so each is one
action. A movement is a record by its id; `REFUND` movements are the set
`refunded`, which the code keeps too. Opening an account on first use is `Require`.

*ScanApi.* One op is one request; its `opId` (unique per request, from a counter)
is the id of its charge, entitlement and execution, so `ScanService` is
instantiated with one call per op. `Enter` is authentication (which opens the
account) and consent; `Admit` runs after the membership answer; `CheckCap` is
`usage.check`; `ChargeAndIssue` and `CannotPay` the synchronous stretch after it;
`IssueRow` the row of the entitlement; `Scan` any step of the pipeline; then
`RefundFailed`, `Succeed` or `Escape`, and `RecordUsage`. `RestartProcess` empties
exactly what `deploy/server.ts` keeps in memory with a database configured:
accounts, movements, settlements and the entitlement ledger.

*WatchQuota.* A handler is cut at every await; each query reads or writes the
tables when it runs, under the clock its handler read when it issued it. `Buy`
charges under the next `opId`, `SetTier` stores the plan; `ReadTier`, `CountUsed`,
`IssueWatch` and `Subscribe` are the four queries of a subscription;
`HandlerThrows` any of them failing. `bought` counts, for each user, the paid plans
that were opened and those whose write failed after the charge. Payments are settled
between the awaits.

*Referrals.* `ReadGranted` reads the count and the milestones, `MarkGranted` inserts
the row that only one request gets in (`Won`), `IssueReward` the entitlement;
`RewarderEnds` an exception or a crash between them.

*Repositories.* Every call is made to both units of work: `mem`, with the copy
`saved` its transaction began with, and `db`, with the rows `mine` an open
transaction has written and the row locks that makes (`Waits`, `Touches`). One table
per behaviour: operations on different tables do not meet, except that `EnsureToken`
inserts the token that a foreign key wants. A row is what its insert writes and what
its update writes. No order of the calls on a row is assumed: a user is inserted
again by every request, a scan's rows by every retry, with other content and after
updates. `parted` says that one took a call the other refused.

*WalletWatchTick.* A slot is one running cycle; a trade is one row of the wallet's
feed. `TakeWatch` reads the cursor, `Fetch` the feed and picks what is strictly
newer, `SendTrade`/`SendDump` hand alerts to the channel, `Advance` counts a buy
and overwrites the cursor, `Converge` sends the convergence alerts and ends the
cycle. `WatchFails` is the exception the `catch` of a watch swallows, `FetchFails`
the provider failing (the fetcher answers with no trades), `ConvergeFails` an
exception no `catch` of the tick sees, `Crash` the host stopping the process.

*FounderTick.* A transfer is `<<mint, n>>`, the n-th time the wallet received the
mint; n stands for the transaction hash. A cycle is `BeginFounder`, `List`,
`ReadKnown`, one `Upsert` per mint held, then `Inbound`, and for every new mint
`TakeMint`, `Verify`, `RecordEvent` (the insert that only one cycle gets in) and
`Broadcast`. `direct` chooses between the chain whose provider names sender and
transaction and the ones where they are looked up. The provider names only the
newest transfers of all, `Window` of them; `later` counts, up to it, those that came
after a mint's own, and `Buried` are the mints behind it. `Verify` may find nothing
of a mint that did come by transfer: GMGN is asked for the first 100 holders, and a
row without flag or transaction counts as none. `obscured` is the history of mints
either look could miss. `SnapshotThrows` and `MintThrows` are the two `catch`es of a
cycle.

*TrendingFeed.* `inFlight` is the shared promise, `burst` the refresh its owner
runs, one chain after the other (`RankChain`), `EndBurst` the snapshot it leaves or
the old one marked stale (`Fallback`). `Get` is `TrendingCache.get`, called by the
browse route, by the briefing past its own cache (`intel`), and by the collector.
What the chains rank is left out: the cache hands it on unread.

*PerfDataset.* `BeginHarvest` takes the next tokens from the clock (`Offset`),
`Harvest` stores what their traders are reported with, by wallet, token and day;
`Calibrate` and `Briefing` are the thresholds and the selection read from it. A
briefing is calibrated on at most `ScanLimit` rows, any of them (`Reads`: the query
promises no order), while its cards are made of the whole store. Amounts are parts of
a dollar, `Dollar` of them, so that `Rounded` rounds.

*WarIndices.* A behaviour learns one piece of worse news about one token at a time;
`view` is what the browse route makes of the row. A quotient is computed exactly
and rounded once, as `Math.round` does; a number that was not confirmed is
`Unknown`, its index is left out and the blend renormalised.

*History.* `Arrive` appends an observation, `Seal` a decision; timeline, replay and
verdicts are functions of the log. A lane, which the code sorts and rids of repeats,
is the set of what it keeps: no two of it share an identity, so the set says the
order. A frame of the replay keeps repeats and is a sequence. Prices are hundredths of the
reference price.

*Coordination.* The detector is a function of what it has been given; a behaviour
gives it one more entry or funding record at a time. The members of a group are their
places among the entries. Funders are numbered in the order of their addresses, which
decides ties.

*Transport.* Callers share one executor, hence its breaker and kill switch. `timer`
counts down what an attempt or a sleep has left; `TimeOut` races `Answer`. A
timed-out attempt is not cancelled: its child process stays in `strays` until the
executor's own limit kills it. `Conclude` feeds breaker and retry policy.

*RateLimits.* Tokens are counted in units of `1/Second` of a token, so refilling is
exact. The clock is the host's, and may be set back. The planner is checked as a
function on every queue of up to three requests.

*Evaluation, Monitor.* `KlineAnswers`, `TrendingAnswers` and `TrackAnswers` are the
three reads of an acquisition, `LaneFails` any of them failing; the last one
evaluates. Times are minutes, ratios sixtieths. What a score feeds only through a
threshold keeps the threshold; the weights are those of `config/scoring.ts`. A
session tick is `TickSkips`, or `TickBegins` to `TickEnds`/`TickFails`; whoever calls
`tick()` is injected in the code and not part of it: the model's host lets one tick
run at a time, on the stored session, and stores what it returns. Cancelling and
pausing come at any time, also during a tick.

*Mutants.* Some definitions are preceded by a variant marked `Mutant`, the way a
plausible bug would have it. No specification uses them; substituting one for its
original makes the property it is listed with in `PROJECT.json` fail, which shows
the property is about the code.

## 3. The runs

All bounds are constants in the `.cfg` files. Invariants, action properties and
liveness properties are listed together.

| run | instance | checks | shows |
|---|---|---|---|
| `scan_service_handled` | 4 calls: two retries of one request, one by a foreign user, one request sharing the entitlement; failures only where `execute` catches them | `ScanTypeOK`, `NoSilentConsumption`, `RowsMirrorLedger`, `ResultOnRecord`, `CallsEnd` | with the failures the code plans for, nothing is silently consumed, rows and ledger agree, every call ends |
| `scan_service_faults` | the same calls, every step may throw or lose its answer, one restart | `OneHolder`, `AtMostOneResult`, `NewResultOnRecord` | what survives any fault |
| `scan_api_money` | 2 requests of one user, 1 free scan, cap 1, a payment, the promotion ending, caught failures | `ResultIsPaid`, `FreeQuotaOnce`, `KeepsPromise` | `POST /scan` implements `PaidScan`, its liveness included |
| `scan_api_restart` | 3 requests, 2 open at a time, cap 1, a midnight, a restart, all faults | `CapOvershoot` | the cap is passed by at most the requests in flight |
| `wallet_watch` | 2 watches of one user; 2 overlapping cycles over 3 trades of one wallet (a buy and a dump in one second, a later trade) with 1 fault, or with a cancelled and renewed watch; or one cycle after the other, with 1 fault and a buy of the other wallet as well | `NothingSkipped`, `RepeatsNeedFaults`, `TradesAreAlerted` | no trade is lost to overlaps or faults, and repeats have a cause |
| `accounts` | ledger: 2 users, 3 opIds, 2 payments, a plain and a tier pack, amounts below, at and above the price; watch: 2 users, 2 wallets, 2 handlers, 3 purchases, 1 free scan each and 2 payments, so that plans are paid for by the free scan, from the balance and by both users; referral: 3 people, 2 requests; rows: 17 tables, 2 ids, 2 writers, 3 writes | `SettledIsCredited`, `BooksBalance`, `AccountsMoveByTheBook`, `PlanIsPaid`, `QuotaHolds`, `RewardsHonest`, `RepeatsConverge` | the audit trail explains every account; plans and rewards have been earned; rows stand however inserts are repeated |
| `feeds` | founder: 2 cycles, 2 mints, 2 receipts, a window of 1 transfer, 1 fault; trending: 2 requests, 2 chains, TTL 3, clock to 5, 1 crash; dataset: 4 tokens, batches of 2, ticks 1 to 4 apart, thirds of a dollar, 3 rows read; indices: 6 profiles; history: 4 arrivals; detector: 5 entries | `OncePerTransfer`, `NoneForgotten`, `AnswersHonest`, `BurstsSpaced`, `DatasetSound`, `BadNewsNeverHelps`, `PastStands`, `MoreNeverUnlinks` | what the tick and the read routes rest on |
| `acquisition` | transport: 2 callers, 3 attempts, threshold 3; limiters: clock to 8, set back by 2; session: 30 minutes, steps of 10, a checkpoint at 15 | `ProcessesBounded`, `CooldownKept`, `RunsEnd`, `BucketsBound`, `PlanIsEarliest`, `EndedStaysEnded`, `NewOnce`, `RecordKeepsUp`, `DangerNeedsEvidence`, `SessionEnds` | from GMGN to an alert |
| `scan_api_cap_race`, `scan_api_unrefunded`, `evaluation_mixed`, `stores_null_evidence` | - | one property each, violated | section 4 |

*Why the bounds are enough.* The pipeline's protocol is per entitlement, and two
calls already make every race for it; the third and fourth add the foreign user
and the second request, which take different branches. One restart reaches every
state a restart can leave behind, because it resets memory to one fixed value;
the theorems of section 5 remove this and the other bounds. Money is counted in
prices: amounts are multiples of the scan price, as only comparisons with the
price matter. Two handlers, cycles, callers or writers are the smallest overlap,
and in none of these components does a third take a branch the second does not.
In the tick, four trades give a repeated cursor, a tie within a second, a trade that
shows up late in its second with a later one behind it, a dump and a convergence. Two receipts of one mint tell the transfer from the token, and one transfer within the
window makes the other mint's one too late. Three
purchases of two users, each with a free scan and a payment, give one a plan of a gift
and one from the balance while the other buys too. Thirds of a dollar round up and down; four rows in
the store and three read leave one out. The
cache's clock passes the TTL while a refresh runs and after it; the tick intervals
include one that is coprime with the number of tokens and ones that are not. Three
attempts against a threshold of three let one run open the breaker that two share.
Four arrivals hold a tie, a duplicate, a late observation and one of foreign
coverage; five entries or records make two groups with a tie between them.

*Fairness.* `ScanFairSpec`, `ApiFairSpec` and `TickFairSpec` assume weak fairness of
each call's, request's or cycle's next step: the event loop resumes settled
awaits, and database, GMGN calls and Telegram calls settle or time out. The tick
also assumes that cron keeps pinging. `TransportFairness` assumes only what the
host's timers give: the clock moves, a timer that has run out fires; never that an
attempt is answered. `Fairness` of `Monitor` assumes that the clock moves, that the
host keeps calling `tick()` and that a read settles, which `RunsEnd` is about.
`MCAcquisition` states the same conditions on the side that runs. Nothing is
assumed of users, webhooks, midnight, the end of a promotion, the feed, renewals,
faults or restarts. Liveness runs allow a bounded number of faults; a cycle that
fails every time delivers nothing. No symmetry is used in a run with a
liveness property.

*Deadlock* is not checked where calls, requests, arrivals or the clock are bounded:
when all have ended the model stops, as the server idles. It is checked in
`wallet_watch`, whose cycles go on for ever.

## 4. Where code and documentation disagree

Shown by a run:

1. **Daily cap** (`scan_api_cap_race`). `pgUsageStore.ts:6-7` says two concurrent
   scans "can never both slip past the cap". The count is read at
   `wiredApp.ts:449` and incremented at `:503`, after the scan; two requests in
   flight both pass. `CapOvershoot` is what does hold.
2. **Refund** (`scan_api_unrefunded`). `wiredApp.ts:9-10` promises refunds "so a
   failed scan never costs the user". An exception - for one, GMGN answering with
   JSON that is not a list, `RealGmgnAcquisitionPort.ts:98` - goes past the refund
   at `:499-502` to a 500, and leaves the entitlement consumed. The same holds for a
   failing insert at `:485`. With the failures the code catches, the promise holds
   (`scan_api_money`, and for all instances the theorem `FailuresAreFree`).
3. **One token** (`evaluation_mixed`). `product/scan/ports/ports.ts:46`: the port
   "acquires + normalizes GMGN data for exactly one token". The trending and track
   rows are of the whole chain (`gmgnRunner.ts:142-149`) and all are kept
   (`RealGmgnAcquisitionPort.ts:104`); the last row of the ranking becomes the
   token's figures (`warEvaluation.ts:124`).
4. **Null evidence** (`stores_null_evidence`). `inMemory.ts:8`: "The SAME invariants
   the pg schema enforces are enforced here". Evidence of events and signals has no
   magnitude and weight (`report.ts:58,63`); the columns are NOT NULL
   (`0001_init.sql:173-174`), so with a database the scan of a token with an active
   signal cannot be persisted (`pgRepositories.ts:317`); in memory it can.

Met while modelling and built into the models as the code has them, without a run
of their own:

- *Restarts.* `tickEngine.ts:143-144` says a crash "never re-sends already-delivered
  alerts"; the cursor is written after the delivery, `:193`. `balance.ts:22` grants
  free scans "once to a new account"; accounts live in memory (`server.ts:332`) and
  are opened again with a new grant, and balances topped up are lost.
  (`RepeatsNeedFaults` and `FreeQuotaOnce` say what holds.)
- *Plans.* A plan may be paid for with a free scan; buying one again discards the
  days that are left; subscribing to FREE drops a paid plan; a plan whose write fails
  after the charge is paid for and not given (`PlanIsPaid` counts it); renewing a watch is
  refused at a full quota, although it adds none.
- *Referrals.* A reward whose issue fails after `markGranted` is lost. A user who is
  not new may claim an invite, and two users may invite each other.
- *Founder.* The first cycle records a baseline without telling anyone, and a failure
  after the snapshot loses its mints. So does a look that does not reach them: the
  provider is asked for 20 transfers (`evmAlchemyProvider.ts:76`), GMGN for 100 holders
  (`server.ts:210`), and a holder's row may lack its flag or transaction (`:220-224`). The memory store replaces the snapshot, the
  PostgreSQL one keeps every mint ever held.
- *Transport.* `guards.ts:28` says HALF_OPEN "allows one trial"; every caller passes
  until the first outcome. The kill switch is not looked at before a retry. A
  missing executable is classified as a network error and retried. The executor
  gives no headers, so a reset time is never known.
- *Trending.* `wiredApp.ts:90` says at most one refresh per TTL; after a failed one
  every request tries again. Empty rankings replace a good snapshot, against
  `trendingCache.ts:32-33`. A briefing built from an older refresh may overwrite a
  newer one.
- *Dataset.* The offset comes from the clock, so tick intervals that share a factor
  with the number of tokens leave some unharvested (`HarvestCovers` says which). The
  thresholds are quartiles rounded to whole dollars (`calibration.ts:95-96`): where all
  profits are 650.6 the floor is 651, and nothing is shown. They are read off 20000
  rows in no promised order and applied to all. A repeat performer counts one token
  once per day.
- *Monitoring.* A cancel or a pause during a tick is undone by whoever stores the
  session the tick returns (`MonitoringService.ts:76`). A signal that expired and returns is not announced again. Event
  alerts are never raised (`monitorTick.ts:83-84`). A session that was never
  activated cannot expire: each tick on it is an error.
- *Core.* The state machine starts from OBSERVING in each evaluation, so only
  OBSERVING, BLEEDING and COLLAPSE occur and the hysteresis margin decides nothing.
  The upward trajectory is scaled by a velocity of 1 per millisecond, so DOMINANCE
  is out of reach; its epsilons are not scaled by the price, so COLLAPSE is out of
  reach of a token priced in micro-dollars. Liquidity is always unknown. Flow is
  fetched after the instant it is evaluated at, against "ANTI-LOOKAHEAD"
  (`powerActivations.ts:23`).
- *Limiters.* `prune` of the HTTP limiter (`security.ts:55`) has no caller; the planner does not
  terminate on a request heavier than the capacity (the weights of the code are
  not).
- *Stores.* They differ in whether a repeated insert overwrites: in memory `users`
  (inserted by every request with a fresh `createdAt`), `requests`, `executions` and
  `monitors` do and in PostgreSQL not, `alerts` are kept twice in memory; and in
  whether an update of a missing row inserts it (`executions`, `monitors`).
  `contracts/repositories.ts:237-238` calls transactions "atomic. The in-memory
  implementation simulates this with a snapshot/rollback"; the snapshot is of the whole
  Store (`inMemory.ts:350`), so a closure that throws erases what other requests
  committed since it began (`:356`), which the model's `RollBack` does and
  `RepeatsConverge` excepts. In `src/` a closure throws on the in-memory store only when
  a status does not admit the step or a row is missing. The rollback does not restore
  `tokenMeta`, although `:361` says "Restore all fields". `lastFingerprint` gives the object that was appended in memory
  and the column's content in PostgreSQL; `observations.list` of PostgreSQL selects columns its
  table does not have, so the arena's replay throws with a database. `advanceStatus`
  takes any status, although it is called forward only.
- *Indices.* Missing inputs reach some indices as 0 or false
  (`gmgnTrendingSource.ts:206-209`), where `warIndices.ts:26-28` leaves them out.
- *Timeline.* Market and analytics keep one observation per instant, although
  `buildTimeline.ts:8` drops exact duplicates only; which one, of two with an equal
  key, is decided by which came first. One observation of foreign coverage refuses
  the whole timeline.
- *Detector.* Its comment at `detector.ts:166` wants tight entries for OBSERVED; the
  code wants them known. A wallet seen twice counts as two members, and a member
  whose entry is unknown turns OBSERVED into CANDIDATE.

## 5. What is proved

The theorems hold for every value of the constants that the named assumptions of
the modules allow: any number of users, requests, calls, cycles, trades, mints,
callers, any prices, packs, thresholds, capacities and rates, any clock. Each is
`Spec => []Inv` or `Spec => [][A]_vars` for the specification without fairness of
its component, from an inductive invariant whose initial states and steps are
lemmas of the same module, one per action.

| theorem | states | hypothesis |
|---|---|---|
| **`ScanService_proofs`** | | |
| `TypeCorrect` | `[]ScanTypeOK` | |
| `SingleConsumption` | `[]OneHolder` | |
| `OneResultPerEntitlement` | `[]AtMostOneResult` | |
| `ResultsAreKept` | `[]NewResultOnRecord` | |
| `NothingSilentlyConsumed` | `[]NoSilentConsumption` | `HandledFaults` |
| `RowsAgree` | `[]RowsMirrorLedger` | `HandledFaults` |
| `ResultsOnRecord` | `[]ResultOnRecord` | `HandledFaults` |
| **`Accounts_proofs`** | | |
| `BooksAlwaysBalance` | `SettlementSpec => []BooksBalance` | |
| `CreditedOnce` | `[]SettledIsCredited` | |
| `MovedOnlyByTheBook` | `AccountsMoveByTheBook` | |
| `RewardedHonestly` | `ReferralSpec => []RewardsHonest` | |
| `PlansArePaid` | `WatchSpec => []PlanIsPaid` | |
| `WatchBooksBalance` | `[]BooksBalance /\ AccountsMoveByTheBook` | |
| `QuotaKept` | `QuotaHolds` | |
| **`ScanApi_proofs`** | | |
| `ResultsArePaid` | `[](restarts = 0 => ResultIsPaid)` | |
| `GrantedOnce` | `[](restarts = 0 => FreeQuotaOnce)` | |
| `OvershootBounded` | `[](TierLasts => CapOvershoot)` | |
| `PromiseIsKept` | `Promise!Init /\ [][Promise!Next]_(Promise!vars)` | `OnlyCaught`, `WholeCredits` |
| `FailuresAreFree` | `[]FailedScanIsFree` | `OnlyCaught`, `WholeCredits` |
| **`Repositories_proofs`** | | |
| `InsertsConverge` | `RepositoriesSpec => RepeatsConverge` | |
| **`Feeds_proofs`** | | |
| `ToldOnce` | `FounderSpec => []OncePerTransfer` | |
| `NothingForgotten` | `[]NoneForgotten` | |
| `AnswersAreHonest` | `FeedSpec => []AnswersHonest` | |
| `BurstsAreSpaced` | `BurstsSpaced` | |
| `BadNews` | `IndicesSpec => BadNewsNeverHelps` | |
| `DatasetIsSound` | `DatasetSpec => []DatasetSound` | |
| `ThePastStands` | `HistorySpec => PastStands` | |
| `LinksAreKept` | `CoordinationSpec => MoreNeverUnlinks` | |
| **`WalletWatchTick_proofs`** | | |
| `NoneSkipped` | `[]NothingSkipped` | |
| `RepeatsAreExplained` | `[]RepeatsNeedFaults` | |
| **`Acquisition_proofs`** | | |
| `KillSwitchDrains` | `TransportSpec => []KillDrains` | |
| `ProcessesAreBounded` | `[]ProcessesBounded` | `ShortInner` |
| `CooldownIsKept` | `CooldownKept` | |
| `BucketsAreBound` | `LimitsSpec => []BucketsBound` | |
| `PlanRunsEarliest` | `[]PlanIsEarliest` | |
| `EndIsFinal` | `MonitorSpec => []EndedStaysEnded` | |
| `NewsToldOnce` | `[]NewOnce` | |
| `RecordIsKept` | `[]RecordKeepsUp` | `NullIsNoRecord` |
| `DangerIsMeasured` | `[]DangerNeedsEvidence` | |

*The hypotheses.* `HandledFaults` and `OnlyCaught` say that only steps throw whose
exceptions the code catches, that no answer of a commit is lost at the others, and
that the process is not restarted; section 4 and `scan_service_faults` show what
becomes of the properties without them. `WholeCredits` says that a pack is worth a
whole number of scans, as each of `pricing.ts:60-75` is (the scan costs 0.1).
`restarts = 0` is a condition on the state: a restart forgets accounts and
charges. `TierLasts` is that condition or that no pack raises a tier: a restart
forgets the tier of a user who has scanned without a cap that day. `ShortInner`
says that the child's own timeout is at most twice the executor's (20 s and 15 s).
`NullIsNoRecord` says that `null` is not a record.

*ScanService.* None of the properties is inductive. That a second call cannot
deliver follows from what the first left in the ledger, and what is on record stays
because no call holds the entitlement any more. `PipelineInv` adds this: a holder's
entitlement is CONSUMED for its request; holders are alone; a delivered call's
entitlement is not ISSUED, has no holder, and its execution is COMPLETED with its
snapshot. The assumption that a request names one entitlement is needed: with two,
a call on the second could write over the first's completed execution.
`HandledInv` adds what the rows hold while a call is between its two writes.

*The ledger.* `BooksBalance` compares an account with a sum over its movements.
`BalanceLedger_proofs` proves what the sum does when one movement is booked or one
given back (`SumOver` is a fold by a recursive function over a finite set; its
lemmas are proved by taking a smallest set that contradicts them, since induction
theorems with an operator parameter cannot be used). Every operation is shown to
be a `BookStep` - no account moves, or one movement is booked, or one given back -
and a `BookStep` keeps the books. Settlement, plans and `POST /scan` all reuse it.

*Watch and referral routes.* A handler carries what it has read across its awaits;
the invariants say what of it is still true: a request for a plan is backed by a
charge under a number nobody else has (`RequestsSound`, `OpsGivenOut`), a count
only goes stale through a subscription (`CountStillHolds`), a rewarder that won a
milestone is the only one that did (`IssuesOnce`).

*ScanApi.* `ChargeOf` relates where a request is in the handler to its charge: none
before the handler charges, its own one after, given back only to one that ended
without a result. `CapInv` counts a request as soon as it has passed the check. For
the refinement, `PromiseInv` adds that no request is answered by another's result,
that no exception leaves the pipeline and that a balance charge is the price; then
each action is a step of `PaidScan` or a stutter (the lemmas `*Promises`): the
charge is `Pay` or `Give`, the commit of the result `Deliver`, the refund `GiveBack`
or `DropGift`, a settlement `Buy`. Purses are quotients by the price, so `DivAdds`
is where `WholeCredits` is needed.

*The ticks.* `OnceInv`: the cycle whose insert of an event was new is the only one
to broadcast it, and what was broadcast is in the table for good. `NoneInv`: a mint
that came is known, in some cycle's hand, recorded, or past what the looks reach, at
every await of every cycle. `TickInv`: a cycle carries a cursor it read long ago and trades it fetched
long ago, and overwrites the cursor with them; what it read had been earned, and
among the wallet's trades only those it holds are neither covered nor later. The
attempt to prove an earlier form of `NothingSkipped` failed: it let no trade be
passed unless it shared its second with *the cursor's*; but once the cursor has
moved on to a later second, a trade that showed up late is behind it for good. The
property and the run's instance now say and reach this.
For `RepeatsNeedFaults`, `SoloInv`: while cycles do not overlap, the cycle that runs
has read the cursor as it stands and holds nothing behind it; an alert is *spent*
when its trade is behind the cursor and held by no cycle, or the cycle at the trade
has handed it over; only a fault unspends, so an alert that is not spent was told at
most once per fault. The buys of a cycle are *open* until its convergence pass; each
pass closes the buys it counts, at least one per wallet, and no step opens a closed
one again, so claims times `MinWallets` never exceeds the number of closed buys.

*Acquisition.* `FeedInv` says that `inFlight` names the one burst that runs and that
whoever waits waits for it. `BreakerInv` relates the breaker to the streak of
failures. `Draining` bounds, for each caller, what it may begin after the kill
switch by what its run had left (`KillDrains` used to bound only the sum over
callers). `OneStray` needs the ages of the attempts. `LimitsInv` counts what the
bucket still holds, and what it would be refilled with, as given; a pruned bucket
is one that would be full. `SessionTyped`, `NewsInv` and `RecordInv` say what the
carry remembers of what was announced and recorded, also while a tick is in flight
and the session is cancelled under it.

*The stores.* What a commit brings to a table was written earlier, on rows as the
transaction saw them then. `RowsInv`: no two open transactions have written one row
(`Apart`), and what one has written still stands on the committed row (`Based`). Both
rest on the locks: a statement on a row another transaction holds waits, or is an
update that finds no row and writes none (`NotItsOwn`). A usage may be released and
consumed again in one transaction, which is the one exception `RepeatsConverge` makes.

*The planner.* `Tight`: after each request of the queue the bucket holds exactly the
least slack over all stretches of requests that end there, so no request could have
begun a step earlier without some stretch exceeding what the bucket allows. The
plan is a recursive function of the queue; that it exists is shown prefix by prefix.
It holds for queues of any length (`MaxQueue` bounds them for TLC only).

*Bad news.* Each index is monotone in each metric it reads, and the blend is
monotone in each index. What makes this more than arithmetic is the renormalisation:
when a metric becomes known or unknown the weights change, so two blends
over different denominators are compared by cross products. The flow index comes and
goes only at the end of its scale, the suspicion of wash trading is always known, so
a score never disappears; rounding is monotone. `NewsAssumption` says what worse
news is, metric by metric: a market cap of 0 is the code's missing one, rates are
percentages.

*Danger.* `EvidenceInv`: what an acquisition in flight has read was measured, and a
report is the evaluation of exactly what it holds. A BLEEDING or COLLAPSE then needs
a threshold that only the three weights together pass, or a direction, which needs two
instants. `Ordered(S, Before)` and `RowsAt` stand where the code sorts and filters:
the provers know nothing of `SortSeq` and `SelectSeq` (`History` and `Coordination`
speak of places for the same reason). That the sorted listing exists is an argument
on ranks.

*The dataset.* `HarvestInv`: what was taken up is exactly the places the ticks so far
came to. Ticks of `interval` minutes over `n` tokens: the least number that steps of
`interval` and of `n` reach divides both, so the offsets fall on every one of its
multiples, and on no other number. The quartiles are values at the nearest rank
(`NearestRank`), and rounding moves them by half a dollar at most. The attempt to prove an earlier form of `CalibrationKeeps` failed: it
claimed of every observation past the floors that one as profitable is shown, which
is so of the most profitable only; the property now says this.
`DatasetAssumption` asks that a ranking name a token once.

*The detector.* No member leaves a group when something is learned (`MembersStay`), so no
group shrinks (`GroupsStay`); among finitely many groups that are large enough one
beats all others (`BestExists`), and it is what is reported (`DetectIs`).

*The past.* The identity and the order of two observations are their own, so one that
arrives later can push out only what shares its instant (`KeptAsBefore`), and
nothing if it was there before: the one it repeats comes first
(`RepeatChangesNothing`). The last price is one of the future's (`LatestIs`), hence a
confirmed decision has a crossing.

*Numbers.* Induction theorems take an operator as a parameter; facts about all
numbers are therefore proved by the least counterexample (`LeastNumber`) or by a set
of numbers closed under successor (`CountUp`), sums and extremes over finite sets by
the smallest set that contradicts them.

*Only model-checked.*

- Liveness (`CallsEnd`, `TradesAreAlerted`, `RunsEnd`, `SessionEnds`) and the fairness
  part of `KeepsPromise`: out of the prover's reach.

Every other property of a passing run is stated by a theorem.

## 6. What is not modelled

Authentication (a check of a signature, without state); world, experience, renderer
and user interface (presentation of finished reports); the wording of alerts,
reports and wallet cards; listing and searching reads; look-ups of reputation and
token information, which only read. Real-valued scores are modelled by their signs
and by the bands the thresholds cut; turnover, distance from the high and attention
carry no weight in the score and are left out. The in-memory `UsageLimiter`
(`product/pricing/usageLimiter.ts`) has no caller but its test. Of PostgreSQL, the constraints and row locks that
the statements meet are modelled, not its planner or isolation beyond them. Time is
abstract: a promotion ends, a day changes, a watch expires as steps of their own.

## 7. What is left

Every safety property of the runs is a theorem; the liveness properties stay with
TLC. What could still be proved are the type invariants of the modules whose
theorems have not needed one, and the operators of `Evaluation` as functions of
their inputs, beyond what `DangerIsMeasured` says of them.
