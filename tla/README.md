# Verification of the payment API

TLA+ models of the payment API: what the code does, one action per stretch of
code between two `await`s, model-checked with TLC on small instances, with the
safety properties, all but one, proved for all sizes with TLAPS.

Paths are relative to the repository; a file name without a directory is under
`src/modules/`, in the module that its name says.

Contents: 1 the system, 2 the modules, 3 the runs, 4 fairness, 5 proofs,
6 differences between the code and its documentation, 7 not modelled, 8 plan.

## 1. The system

A NestJS server over PostgreSQL (TypeORM), Redis (BullMQ queues and cached
rates) and the Stellar network. Several instances may run; each runs its own
cron jobs. All business state is in the database, and almost every service reads
a row, changes the object in memory and saves it: `save(entity)` is a SELECT, a
comparison, and an UPDATE of the columns that differ from the row, stale ones
included; a row that was removed meanwhile is inserted again. There is hardly a
lock, a version column or an isolation level above READ COMMITTED in the code,
so the questions worth asking are about what other handlers do between a read
and the write that depends on it, and about what is left when a handler stops
half-way.

| Component | State | Operations | What is hard | What makes it correct |
|---|---|---|---|---|
| Payment lifecycle | `payments`, `refunds`, `payment_splits`, `settlement_adjustments` | refund, handleWebhook, cancel, expiry sweep, splits, simulate; also the Horizon stream, the overdue sweep, a settlement run | read-modify-write from nine places; webhooks repeated and reordered; splits paid outside any transaction | the refund ledger agrees with the row and stays within the amount; a leg is paid once; statuses follow the lifecycle |
| Idempotency keys | `idempotency_keys` | checkOrClaimKey, handleConflict, updateResponse, deleteKey, cleanupExpired | claims race, expiry, statements that name a row by key, callbacks nobody awaits | one payment per key, answered only to the body that made it, everybody answered |
| Payment creation | `payments`, `merchant_fee_configs`, the pool of connections | create, createBulk, limits, fees, splits | limits checked and then used; a second connection while holding the first; rounding | limits hold, money adds up, every creation ends |
| Payment listing | `payments` | findAll by offset and by cursor | rows created and changed between pages | each row once |
| Recurring payments | plans, charges, keys | the sweep of due plans, notices, update, pause, resume, cancel | overlapping sweeps; a stale plan saved at the end; trials, end dates, limits | one payment per run; cancelled stays cancelled; due plans are billed |
| Horizon stream | subscription, timer | startStream, scheduleReconnect, destroy; records complete payments | errors while reconnecting, destruction meanwhile | one stream or one timer |
| Multi-signature payments | `multi_sig_transactions`, the ledger | sendPayment, signTransaction | signers at once, a submission without an answer | weight counted once; submitted just when on the ledger |
| Settlements | settlements, configuration, payout destinations | runs by cron and by hand, create, update and verify a destination | locks, two connections in one run, stale saves of a destination | only confirmed addresses are paid; each payment settled once |
| Checkout sessions | session and its payment | create, complete, expire, the ten-minute sweep | completion against expiry, crash after the payment | a session sells once, and what is paid stays paid |
| Payment links | link, its counters | create, update, deactivate, visit, completion | edits that save the counters they read; credits that come long after the completion, or never | counters match visits and credited payments |
| Disputes | disputes, their transitions | create, update | check and then insert; two updates of one dispute | one active dispute; ended once |
| Webhook delivery | endpoint, deliveries, jobs | dispatch, the worker, retry, replay, the endpoint's own calls | queue retries, manual retries and replays of one delivery; the failure counter | taken once but for doubts; disabled only after the threshold |
| E-mail | jobs, `email_logs` | enqueue, sendEmail | a mail sent whose log row fails | sent once but for doubts; the log tells the truth |
| Accounts | `users` | login, lockout, two-factor set-up, backup codes, unlock | counters and codes by read-modify-write of the whole row | guesses are counted, codes used up |
| Tokens and sessions | refresh tokens, sessions, password, reset token | login, refresh, logout, revocation, reset, change of password | row locks, bulk updates, reuse detection in a transaction that rolls back | a token is exchanged once; revocation and change of password end all |
| API keys | `api_keys` | create, update, rotate, revoke, validate | validation saves a stale copy | a revoked key stays revoked |
| Access control | routes, guards, `users`, `roles` | every endpoint; roles and accounts changed meanwhile | the order of routes; two guards that read one after the other | who is served had the right |
| Throttling, webhook nonces, rates | hits in memory; nonces in memory; two Redis keys per pair | a request; a signed webhook, with a nonce or without; getRate and its refresh | windows, pruning, overlapping fetches | limits hold; a nonce is taken once; rates do not go back |
| Reports | `report_subscriptions` | the hourly sweep, create, update, remove, unsubscribe | periods that move with the timezone and the frequency | no day is reported twice |
| Onboarding | `merchant_onboardings` | submit, review, change of profile | a review of a copy that has changed | what is approved is what was reviewed |
| Schema migrations | the schema | up and down of every migration | releases of any size, reverts, equal timestamps, rows written in between | a down takes back what its up made |

`PROJECT.json` lists these and the components without a model, the hazards found
in the code, each at its line with the properties about it, and for every
definition the lines it models.

### Interactions

- `POST /payments` passes the throttler, the guards, the idempotency interceptor,
  then `create`. The modules `Throttling`, `Access`/`Endpoints`, `Idempotency` and
  `PaymentCreation` are those four stations.
- The provider's webhook (`WebhookNonces`), the Horizon stream (`HorizonStream`) and
  the sandbox complete payments (`Payments`); the first and the last then pay out
  the splits (`StellarService.sendPayment`, `MultiSig`) and credit the payment link
  (`PaymentLinks`); the stream does not.
- Checkout sessions and recurring plans create payments, the latter under the
  idempotency keys of `Idempotency`'s table.
- Refunds of settled payments leave a settlement adjustment for the merchant's
  next payout; a settlement run (`Settlements`) stamps `settlementId`.
- Events go to merchants through `WebhooksService` (`WebhookDelivery`), mails
  through the e-mail queue (`EmailJobs`); failures of either are logged only.

What two components share is modelled in both, each from its own side: the
`payments` row lives in `Payments`, where every other writer of it is an action;
elsewhere only the outcome of a call counts (a session's payment was made, a
payment that names a link was completed).

## 2. Modules

Every module is one component: its tables and what the code keeps in memory as
variables, a slot or worker per handler in progress that holds what the handler
keeps in its local variables (most of all the copy of the row it will save), and
one action per stretch between awaits. In all of them

- a refused call changes nothing and is left out, unless a refusal is the point;
- `Cut`, `Die`, `Fails` and the like are the process dying or a statement
  throwing, bounded by a constant;
- history variables (`overlapped`, `shared`, `lost`, `spoiled`, `mixed` ...) say
  when the assumption that the code makes and does not enforce was broken; many
  properties exempt just those behaviours. They read no more into the exemption
  than it says: `lost` counts saves that overwrote another one, and the property
  then allows one deviation for each of them.
- `Payments`, `RecurringPayments`, `Onboarding`, `PaymentLinks` and `Settlements` have
  the two halves of a save (SELECT and compare, UPDATE of the columns that differ) as
  two steps. In the others a save is one step, after which the row is the handler's
  copy: what can only happen between the two statements of one save is left to those
  five.

### The payment core

**`Payments.tla`** (`PaymentsMC.tla`, `Payments_proofs.tla`). One row per payment
(`db`), the sums of its Refund and SettlementAdjustment rows (`ledger`), its splits
(`split`), what reached the Stellar network (`sent`), link credits, events, and a
slot `req[w]` per handler: the entity (`mem`), the columns of the pending UPDATE
(`cols`), the refund count it read, whether it completes the payment (`first`), the
splits still to pay.

| Action | Code |
|---|---|
| `Load` | `findOneBy({ id })` of a handler, or the `find` of a job (`Selects`) |
| `RefundCount`, `RefundApply`, `RefundReject`, `RefundCommit`, `RefundFails` | `refund`: checks, count, INSERT and save, adjustment and COMMIT, catch block |
| `WebhookApply`, `CancelApply`, `ExpireApply`, `HorizonApply`, `SimulateApply`, `StatusReject` | the change each handler makes in memory, and the SELECT of its `save` |
| `CommitCompleting`, `Commit` | the UPDATE of that `save` |
| `SplitsFind`, `SplitSend`, `SplitSave`, `SplitsFailed`, `SplitsFailedCommit`, `SplitsAnnounce` | `processSplitsForPayment` |
| `LinkCredit`, `Dispatch` | `incrementCompletions`; the merchant's webhook |
| `MarkOverdue`, `SettleCommit` | `markOverduePayments`; the UPDATE that stamps `settlementId` |
| `Cut` | the process dies, or a statement fails and its error goes to the caller |

Amounts are cents; the four columns that handlers race on are kept; whether
`expiresAt` or `dueDate` has passed is left open, so any pending row may be due.
The writes of `refund`'s transaction become visible at its commit. `SplitSend`
chooses whether the payment reached the network and whether the call returned: a
lost answer throws although the money went, and a multi-signature account returns
although nothing was sent. `SettleCommit` lets a run commit, which as written it
does not (`RunsEnd` below): the module says what refunds owe to a payment that
*was* stamped. `overlapped` holds the payments on which one handler loaded or wrote
while another held a copy, `simulated` those whose amount a simulation forced.

**`Idempotency.tla`** (`IdempotencyMC.tla`) **and `OncePerKey.tla`**. The requests of
one key; every statement names its row by key, so keys do not interact. `Find`,
`Delete`, `Insert` are `checkOrClaimKey`, `Recheck` is `handleConflict`, `Create`,
`Return`, `Throw` the handler behind the interceptor, `Save` and `Clear` the callbacks
that nobody awaits, `Expire` and `CleanupExpired` the clock and the hourly job. An
`Insert` fails because a row is there, because the table cannot hold the key
(`Storable`: nothing checks its length), or because the connection breaks, before or
after the row got in; the catch takes all of these for a conflict. When a key expires
is open: `IDEMPOTENCY_TTL_HOURS` from the environment is a string, so `getHours() +
ttlHours` concatenates and the key may live for days (`idempotency.service.ts:93`);
the properties hold for any lifetime. `OncePerKey` is the abstract specification: at
most one request makes a payment, an answer is that payment for the same body, or a
refusal, and is final. `KeepsPromise` is the refinement while no row has expired and
no committed answer was lost.

**`RecurringPayments.tla`** (`RecurringPaymentsMC.tla`). The plans, their charge rows
by status, how many payments each scheduled run was given, the stored keys, the
notices, a clock, and a slot per job with copies of all the plans its `find`
returned. `Begin`, `CheckKey`, `CreatePayment`, `SaveCharge`, `StoreKey`, `Advance`
are `executePlan` await by await; `RecordFailure`, `SaveFailure`, `AutoPause` its catch
block, which at the threshold calls `notifyPlanPaused`, a method that no class
defines, and throws from there; `SendNotice`, `MarkNotice` the reminders; `Apply`
the owner's calls. Only `raced` runs and `unkeyed` payments excuse a second payment.

**`PaymentCreation.tla`**. `create` and `createBulk` with the pool of connections: a
creation holds the connection of its transaction (`StartCreate`) and takes another
for each query of its checks (`CheckMerchant`, `CheckLimits`, `CalculateFee`), waits
for it and gives up after the pool's timeout (`GiveUp`). Money is in cents, `Fees` is
`calculateFee` with its rounding, `Legs` the split amounts, each rounded on its own.

**`PaymentListing.tla`**. `findAll`: the filter, the order, the page by offset, the
cursor with its key of sort value and id (`After`), creation times in microseconds
that the cursor has in milliseconds and in UTC (`Ahead` is what the clock of the
process is ahead of it: the column has no time zone), and the client that pages while rows are
created and completed. The search conditions are one bit (`scoped`).

### Around the payment

**`CheckoutSessions.tla`**: `StartComplete`, `CreatePayment`, `Save`, `Announce` are
`completeSession`; `Find`, `ExpireStale` the sweep: `find`, the filter on the copies
found, one UPDATE of those still open, the announcements. **`PaymentLinks.tla`**: a
visit reads the link, counts the view by an increment in the database and answers;
`CompletePayment` is the commit of a completion, `Credit` the increment some awaits
later, `LoseCredit` the throw or crash between them, `CompleteByStream` a completion
that has no credit in it; an edit saves its copy in two halves (`SelectLink`, `Save`).
**`Disputes.tla`**: `StartOpen` looks for a dispute of the payment as `findOne` does,
any of them, `Open` inserts; `StartUpdate`, `SaveUpdate`, `Announce` are `update` with
its table of transitions. **`HorizonStream.tla`**: the subscription, its `onerror`, the
timer with the delay that grows, and destruction. **`MultiSig.tla`**: `Send` decides
whether the platform's key suffices, `Store` keeps the transaction, `Find`, `Add`,
`Submit`, `Save` are `signTransaction`; signatures are stored unverified and verified
by the network, whose answer may be lost; `TooLate` is the thirty seconds that the
transaction is valid for. **`Settlements.tla`**: one merchant's destination and runs.
`SelectDestination` and `WriteDestination` are the halves of a save of the destination;
`blended` says that an UPDATE left it with columns of two saves.
`LockConfig` takes the row lock in the run's transaction; everything that goes
through a repository instead of the transaction's manager is on another connection
(`SaveCompleted`, `Fail`) and waits for that lock; `BreakTransaction` and
`BreakInsert` are the connection that breaks, the only way such a run ends.

### Delivery

**`WebhookDelivery.tla`**: one endpoint, its deliveries and the jobs that carry them.
`Dispatch`, `Replay`, `Retry` make them; `Take`, `Post`, `SaveSuccess`, `MarkFailed`,
`RecordSuccess`, `RecordFailure` are the processor and the failure counter, which is a
read-modify-write of the endpoint's row and therefore races the merchant's own
edits. BullMQ is external: a job that throws runs again up to its attempts, one
whose worker died runs again uncounted. **`EmailJobs.tla`** is the same for mails:
`sendEmail` sends, logs `SENT`, and on any error logs `FAILED` and throws.

### Accounts and access

**`Endpoints.tla`** has no state: every endpoint of every controller as a record of
its verb, path and what its guards ask for, in the order in which Nest registers
them, and which of them answers a request (the first that matches; controllers
that no module of `app.module.ts` mounts answer nothing). **`Access.tla`** instantiates
it with the guards (`Authenticate`: the JWT and the user it names, soft deletion
included; `Permit`: `RolesGuard` and `PermissionsGuard`) and with the handlers that
change what the guards read: roles, assignments, deletion of accounts.
**`Accounts.tla`**: every operation on the row of a user is a list of stages (`Plan`):
look at the password, look at the code or a backup code, clear or count, save; each
stage reads and saves the whole row, and one save is awaited by nobody
(`LateSave`). A secret and a set of codes are known by the number of the call that made
them. **`Tokens.tla`**: `Refresh`, `LockToken`, `FindSession`, `TouchSession`,
`Commit` are the refresh in its transaction with the lock on the token's row;
`UpdateTokens` is an UPDATE of many rows, which sees the rows there were when it
began and waits (`Unblocked`) for those that are locked. **`ApiKeys.tla`**: `Find`,
`Save`, `InsertHeir` are revocation, update, rotation and validation, which saves the
whole copy to note when the key was used.

### Windows, reports, reviews, schema

**`Throttling.tla`**: the five named throttlers count every request, because no handler
skips one, in the order of their windows and up to the first that blocks (`Reached`); a
bucket is the set of its requests that still count, with their times.
**`WebhookNonces.tla`**: `Verify` in one step, nothing in it is awaited. The nonce is
optional, and not signed: a call without one touches no cache.
**`Rates.tla`**: a rate is named by the time it was quoted at; a fetch writes two keys
one after the other (`SetCache`, `SetFallback`). No await outlasts a tick, since the
provider has five seconds and Redis one try. **`Reports.tla`**: `LocalMidnight`,
`PeriodStart`, `IsDue` are the arithmetic of `reports.service.ts:209-248` on a clock
of ticks with timezones as offsets; `Find`, `Mail`, `Save` the sweep. The month is
a period like the others, of so many days. **`Onboarding.tla`**: the record of one
merchant with the two halves of a save. **`Migrations.tla`**: a schema is a set of
objects, a statement what it needs, adds, drops and refuses; `Insert` is a row of the
application that some statement refuses (a merchant's second currency, a link without
an amount, a key without a scope); `All` is the list of the
migrations in TypeORM's order; `Migrate(n)` runs the pending ones of a release in
one transaction, `Revert` the last one's down, `MigrateByHand` executes what cannot
be run (one migration throws) statement by statement.

## 3. Runs

`PaymentsConcurrent`, `PaymentsSweep`, `IdempotencyKey` and `RecurringPlan` check one
module each. The other components share no table, and `PartsMC` and `FairPartsMC`
instantiate them side by side: the variable `focus` names the one that moves, the
others stay as they began (those with several initial states in one of them), and each
property says what it says of the component in focus. A variable that two modules
declare is renamed on the way. `Workers` of `PartsMC` is a symmetric set: a worker is
an interchangeable slot in every module there, and no liveness is checked in that run.
The bounds below are constants of the suite with values in its `.cfg`, so that the
theorems hold for every value of them. Two are fixed in the suites: a release has at
most two migrations, and a user's own limit is one above the default.

| Run | Bounds | Shows |
|---|---|---|
| `PaymentsConcurrent` | two slots with every kind on both, a crash | the ledger and the adjustments (without overlap); with it `refundedAmount` within the amount, and the lifecycle but where a handler writes over a status it has not seen |
| `PaymentsSweep` | one slot for every kind of call and job, simulation with a forced amount included, and one for the sweep, fair; 2 legs, 3 cents, cap 1, 2 calls and any number of jobs, a crash | refund cap, legs paid once, PARTIALLY_COMPLETED has a failed leg, links credited after the payout; a pending payment does not stay pending |
| `IdempotencyKey` | 4 requests, 2 bodies, 1 expiry, 1 lost commit, 1 INSERT that fails with the connection, 1 crash, fair | payments per key, one request at a time, answers that fit the body; valid claims respected, refinement of `OncePerKey`, everyone answered |
| `RecurringPlan` | one plan with a trial, an end date and a limit of 2 occurrences; a minute sweep, and 2 jobs of any kind on a second slot (a second sweep included); one failed statement, crash or expired key; thresholds 1 and 2; fair | one payment per run, occurrences count paid runs, charges on record, one notice per cycle, cancellation final, due plans are billed |
| `PartsMC` | two workers | see below |
| `FairPartsMC` | fair where section 4 says so | see below |

What the two suites show, component by component:

| Component | Bounds | Property | Says |
|---|---|---|---|
| `PaymentLinks` | one link, one visit and one payment, two edits at a time against them until one wrote back what had changed, one tick | `LinksKept` | counters match visits and payments but for credits still to come, lost, or left out by the stream; an inactive link is revived only by an edit that means it or writes back what it read |
| `WebhookDelivery` | 2 deliveries, 2 jobs, 2 attempts, threshold 2, one event, one upset (dead worker, lost answer) | `DeliveriesKept` | a delivery is taken once but for doubts; disabled only after so many failures in a row |
| `EmailJobs` | 2 mails, 3 attempts, 2 faults | `DeliveriesKept` | the same for mails |
| `Access` | an administrator and a user, 2 roles, every request of `Endpoints`, 2 changes meanwhile | `AccessKept` | who is served had the right; every request reaches the handler meant for it but one; roles in use stay |
| `Tokens` | 3 refresh tokens, a session, one change of password, one fault | `CredentialsEnd` | a token is exchanged once; revocation and change of password leave none alive |
| `ApiKeys` | 3 keys, 5 calls, one fault | `CredentialsEnd` | ended keys stay ended and have one heir |
| `Accounts` | threshold 2, one tick, 3 calls | `FactorsKept` | guesses counted, codes used up, two-factor only with a verified secret |
| `Throttling` | five limits from 2 to 4 in windows of 1 and 3 ticks, 8 ticks, 5 requests | `WindowsKept` | no window lets more through |
| `WebhookNonces` | 2 nonces, tolerance 1, 4 ticks, a restart | `WindowsKept` | a nonce is taken again only with a later timestamp, until the process restarts |
| `Rates` | TTL 1, 4 ticks, one fault | `WindowsKept` | no older than its time to live and its fetch; does not go back |
| `Settlements` | one payment, 2 addresses entered, 2 ticks, 2 runs, 2 faults | `SettledOnce` | confirmed addresses only, until two saves blend; listed once per broken connection |
| `Disputes` | 2 disputes, 3 updates | `DisputesEndOnce` | resolved and closed announced once; the first dispute is alone |
| `MultiSig` | 2 transactions, signers a and b and one who is not one, 4 calls, one fault | `SignaturesAddUp` | weight counted once; submitted just when on the ledger |
| `CheckoutSessions` | one session, 3 workers, a crash | `SalesKept`, `NothingHangs` | one payment; paid stays paid; stale sessions expire |
| `PaymentCreation` | 2 connections and 2 workers, amounts 1 and 5 of a daily 6, 2 payments, a split of three thirds | `MoneyAddsUp`, `NothingHangs` | limit kept; fee and net, and the legs, add up but for rounding; each creation ends |
| `HorizonStream` | delays 1 to 5, 4 errors | `OneStreamAtATime` | one subscription or one timer, none after destruction |
| `PaymentListing` | 3 payments, pages of one, two amounts, two microseconds in a millisecond, the process in UTC (`Ahead` is 0), as in the image that the `Dockerfile` builds | `PaymentsListedOnce` | each payment once |
| `Reports` | one recipient, periods of 1 and 2 days, 2 zones, 5 ticks, 2 calls | `PaymentsListedOnce` | no day reported twice |
| `Onboarding` | 2 names, 4 calls | `ReviewStands` | approved is what was reviewed |
| `Migrations` | releases of up to 2 migrations, of all of them; rows written in between | `MigrationsRevert` | every down takes back its up, and fails only on rows the old schema refuses or on the type left of a first time; ties commute |

The payment-core instances have one payment, key or plan: nothing in the modelled code
reads or writes two of them in one step, except sweeps. The expiry sweep handles its
items in separate promises; the sweep of due plans handles them in a loop, which the
module has, and a sweep that another plan ends early is for this one a sweep that is
cut off before it began. The bounds (`MaxCalls`, `MaxCuts`, `MaxFaults` and so on)
limit how often the environment acts, never what a handler does. They are the least at
which the case a property is about occurs: three cents allow two partial refunds and a
full one; a cap of one is reached by the first refund of a payment that the stream
completed, and exceeded by a second; two legs give a mixed batch; four requests give a
claimant, a second one that deletes the same expired row, one with the other body, and
a late retry; two workers give every read-modify-write its rival, three a completion,
a manual expiry and the sweep; five ticks let a period of two days come round twice.
`PROJECT.json` pairs each property with a plausible bug that it catches at these
bounds. Deadlock checking is off everywhere, because a system whose clients are done
rightly stops; that handlers do end is stated as liveness where it is in doubt
(`EveryoneAnswered`, `NothingHangs`, `RunsEnd`).

Six more runs each find the code at odds with its documentation: section 6.

## 4. Fairness

Handlers that were started go on, because Node runs awaited code on; cron jobs
come again. Clients, the provider, the network and crashes are not fair, and are
bounded.

- `Payments`: weak fairness of each handler's steps and of the sweep (`@Cron` every
  minute; weak fairness suffices because a payment that is due stays selected until
  someone changes it).
- `Idempotency`: weak fairness of each request's own steps; neither the clock nor
  the clean-up is needed.
- `RecurringPayments`: weak fairness of each started job (not of its failures) and
  of the minute sweep on its own slot. Failures are bounded, as `DueGetsBilled` needs:
  a plan whose charges always fail is never billed.
- `CheckoutSessions`: weak fairness of each started handler, strong fairness of the
  sweep's `Find`: the sweep comes every ten minutes but the slots of the model may be
  taken just then, which the server does not know.
- `PaymentCreation`: strong fairness of each creation's steps, since a freed
  connection goes to the query that has waited longest and so no query is passed
  over for ever; weak fairness of `GiveUp`, the timeout of the pool
  (`DATABASE_POOL_CONNECTION_TIMEOUT_MS`). Creations alone can hold the whole pool while each waits for
  a second connection: they end because the timeout does, and not otherwise.
- `Settlements` (run `RunsEnd` only): weak fairness of a run's own steps.

## 5. Proofs

A theorem holds for every value of the constants that its assumptions admit: any
number of payments, keys, plans, handlers, faults and so on, where TLC sees a few.
Every invariant and action property of the passing runs is a theorem, but
`MigrationsRevert`. The inductive invariants are conjunctions of named parts, in the
component's module under "the inductive invariant behind ..."; TLC checked each on
the runs' instances before it was proved. The recurring reason why a property is not
inductive by itself is that a handler saves a copy: what has to be added is how the
copy in a handler's slot relates to the row, as long as the history variables say
that no other handler came between.

**`Payments_proofs.tla`** (under `PaymentsAssumption`)

- `TypeCorrect`.
- `RefundsExact` (`LedgerExact`, with `FreshCopies`), `RefundsCapped`, `AdjustmentsExact`,
  from `RefundsInv`. A refund adds to the amount in its *copy* and compares a count
  it has read, so the ledger stays exact only because the copy is the row.
  `FreshCopies` says so: on a payment that was never overlapped one slot holds a
  copy, the copy equals the row until it is changed, and afterwards the pending
  UPDATE sets exactly the changed columns; a refund's count is still current.
- `LegsPaidOnce`, `PartialsHaveFailedLeg`, from `PayoutInv`: without overlap the legs that
  a handler has still to pay are pending and a failure it noted is on record
  (`OrderlyHandlers`), and a leg that is PENDING and not with the handler that is paying
  was never sent (`PendingUnpaid`).
- `StatusFollowed` (`StatusFollowsLifecycle`), with every interleaving, from `StatusInv`: the
  change that a handler is about to write is one that the status *it read* allows
  (`Considered`). So a status goes astray only where a handler writes over one that it
  has not seen; that this does happen `OnlyPendingExpired` says, and that `Lifecycle`, which
  is the code's, takes in more than the comment above `cancel` is
  `OnlyPendingCancelled` (section 6).
- `LinksCreditedLast`, with *every* interleaving, from `LegsAttempted`: a handler that
  has begun to pay out leaves no leg PENDING but those it has still to try.
- `RefundsBounded` (`RefundedWithinAmount`), with every interleaving, if no slot serves
  simulations, which may force an amount. `CopiesWithinAmount` extends the bound to
  the copies: an UPDATE takes each column from a copy or leaves it and the amount
  never changes, so a stale copy may lose a refund but cannot exceed the amount.

**`Idempotency_proofs.tla`** (any finite set of requests)

- `TypeCorrect`; `ClaimsKept` (`ClaimsRespected`) and `OnePerKey` (`PaymentsPerKey`) from
  `KeyInv`: the row is the claim of the request that inserted it (`RowOwned`), each
  request's place in the code says whether its claim and its payment exist
  (`Progress`), a statement that deletes a row needs an expiry (`NothingExpired`), and
  until a claim is taken from its owner payments and handlers are counted by
  expiries and lost commits (`Accounted`).
- `PromiseKept`: the refinement `KeepsPromise`. Initial states map to initial states of
  `OncePerKey`, and each step to a step of it or to a stutter.

**`RecurringPayments_proofs.tla`** (plans that end within `Horizon`, which bounds the ticks a
run can be scheduled at and is no limit to what is modelled: the clock is bounded
anyway, and `TypeCorrect` shows that no run leaves it)

- `TypeCorrect`, from `JobsInv`: the copies a sweep holds are of plans that were due.
- `RunsPaidOnce` (`PaymentsPerRun`), from `RunsGuarded`: outside `raced` runs the job that
  found no key is the only one, and a run is paid beyond its lost keys only while
  that job owes the key, or once the key is stored.
- `RunsCounted` (`BilledRunsCounted`) and `CancellationsFinal` (`CancelledIsFinal`), from
  `ScheduleInv`: while no two jobs hold a plan, the copy of the one that does follows
  the row field by field (`CopiesFollow`), a key is stored only of a paid run
  (`KeysPaid`), and paid runs lie behind the next one (`RunsOrdered`).
- `NoticesSentOnce` (`NoticesOnce`), from `NoticesTold`.
- `ChargesRecorded` (`PaymentsOnRecord`), from `ChargesBacked`: the jobs whose charge has
  no payment of its own behind it (`Unbacked`) are what the counts may differ by.

**`PartsMC_proofs.tla`**, **`PartsTypes_proofs.tla`** (which extends it) and
**`FairPartsMC_proofs.tla`** state the properties of the two suites. A step of a suite is a
step of the component in focus, or leaves that component's variables alone; so a
component's invariant is one of the suite. For disputes (`Disputes_proofs.tla`), and
for tokens and API keys (`Credentials_proofs.tla`), the proof is about the component
by itself, and `PartsTypes_proofs` shows that the suite implies its specification.

| Theorem | Property | Inductive invariant |
|---|---|---|
| *`PartsMC_proofs`* | | |
| `LinksStayRight` | `LinksKept` | `LinksInv`: an edit's copy has the counters it read; counters, credits to come and credits lost add up to the history unless overwritten |
| `FactorsStayKept` | `FactorsKept` | `AccountInv`: a copy that is `n` saves behind the row forgets at most `n` guesses and knows at most `n` used codes again (`Behind`, `Counts`); a number that no call has made is nowhere (`Unmade`) |
| `WindowsStayKept` | `WindowsKept` | `WindowsInv`: what was let through within a window is among the hits, until a block outlasts it; `NoncesInv`: the last webhook that came with a nonce has it remembered, or is too old to pass; `RatesInv`: a fetch is a tick old at most, and while fetches do not overlap no key is behind what the next fetch brings |
| `AccessStaysKept` | `AccessKept` | `AccessInv`: what one guard has read of the caller was true since the request came in, and stays so between the two |
| `SignaturesStayRight` | `SignaturesAddUp` | `WeightsInv`: rows and copies have the weight of their signers (`Stands`), a copy of the current version is of a row that waits (`Signing`), and what is on the ledger is marked or about to be (`Told`) |
| `DeliveriesStayKept` | `DeliveriesKept` | `DeliveryInv`: each job that may still bring a delivery, and each call that will add one, has a reason of its own (`ReasonsLeft`), a job that runs has one worker (`OneWorker`), and the counter counts failures in a row (`CountsTrue`); `MailsInv`: the mail that no doubt is to blame for is being logged, or has been (`SentOnce`) |
| *`PartsTypes_proofs`* | | |
| `DisputesEnd` | `DisputesEndOnce` | `DisputeInv`: announcements still to make follow from the status, an update's copy from the row; `AloneInv`: the first dispute of a payment, up to the first overlap or ending |
| `CredentialsStayEnded` | `CredentialsEnd` | `CredentialsInv`: a row lock is held by one refresh (`LocksHeld`), a live token has no successor (`LiveUnexchanged`), a revocation not mixed with a touch has left no live token (`RevocationsClean`), a refresh begun before a change of password finds its token dead or is among the rows that the UPDATE waits for (`PasswordsClean`); `KeysInv`: every exception is paid for by a save that was lost, counted by versions |
| `SettlementsKept` | `SettledOnce` | an address a run goes on with, or in any copy of the destination, was confirmed by its own token, until two saves blend (`TrustedUnblended`); a run that holds the lock is the only one (`OneRunAtATime`) |
| `NothingCommits` | | the finding of `RunsEnd` for all sizes: nothing is ever stamped with a settlement, and what is on record a broken connection let through |
| `TypesHold` | `TypeOK` | the types with the bounds of counters: how the calls that are under way add up to those that are allowed (`AccountBounds`, `SignBounds`), what a bucket can hold (`HitBounds`), how often a mail is tried (`MailBounds`), and so on |
| *`FairPartsMC_proofs`* | | |
| `SessionsSellOnce` | `SalesKept` | `SaleInv`: one handler holds an open session, none a complete one; payments are orphans, or the one to be saved, or saved |
| `StreamsOneAtATime` | `OneStreamAtATime` | `StreamInv` |
| `ReviewsStand` | `ReviewStands` | `StandsInv`: unless saves cross, what the half-way save does not write is what the row has |
| `MoneyStaysRight` | `MoneyAddsUp` | `CreationInv`: a creation past its check that saw all the others is alone there, and there is room for its payment (`RoomLeft`); fees that were computed add up (`JobOK`) |
| `ListingsExact` | `PaymentsListedOnce` | `ListingInv`: the cursor splits the listing into what was listed and what is to come (`CursorSplits`), or nothing listed lies beyond it (`CursorBelow`); `ReportsInv`: copies follow the row in what their holder does not change (`CopiesFollow`), and all that was mailed is over by the date that the sweep will save (`SweepsApart`, `Over`) |
| `TypesHold` | `TypeOK` | connections that are free or held are those of the pool (`PoolShared`), delays stay between the first and the last (`Delays`), slots of a review (`ReviewTypes`), and that no statement of a migration adds an object of an unknown kind (`Written`) |

What the theorems assume of the constants is in their statements or in the `ASSUME`s
of the modules, which TLC evaluates for the values of the runs. Bounds are natural
numbers, with room for the initial state (`Bounded`); no worker is called as the free
lock is; where saves are counted (accounts, API keys) and for the types of
`PartsMC` the workers are a finite set (`Configured`); thresholds, limits, attempts and
times to live are what a configuration can have (`ThrottlersOn`, `AccountWeighed`,
`StreamAssumption`, `CreationAssumption`); pages have a row and days have ticks
(`ListingAssumption`, `ReportsAssumption`); the administrator's role is a role and "none"
is not. `SandboxAssumption` is about the table of `Endpoints`: a path with "admin" in it
asks for the administrator's role or for permissions, and the one request that
another handler answers is `DELETE users/me`. It is evaluated on the whole table.

Sums. Where a property adds numbers over a set, the modules count the elements of a
set of units (`Units` of `MultiSig` and `RecurringPayments`), so that the theorems about
finite sets apply. Totals of money, the delays of the stream and the schema after so
many migrations are recursive functions over numbers; what is needed of them is shown
in `FairPartsMC_proofs` by induction on a *set* of numbers (`Upto`), from the least
element that every nonempty set of naturals has (`WFMin`), since the library's rules of
induction take an operator and cannot be used.

What had to be changed for the proofs. Secrets and sets of codes were numbered by the calls
there had been when they were made, so that two sets could share a number
(`Accounts`): they have the number of the call that asked now. A throttler's hits were a
sequence searched by an index, and are a set of requests with their times
(`Throttling`). The type of a request on its way was too wide to say which fields it
has (`Access`). A weight was summed by a fold (`MultiSig`).

*Only model-checked.* Liveness (`PendingEndsUp`, `EveryoneAnswered`, `DueGetsBilled`,
`NothingHangs`), which needs ENABLED. `MigrationsRevert`, which is about the statements of
the migrations one by one, fixed data: there is nothing general in it to prove, and TLC
runs every one of them up and down. The types of `Migrations` are proved.

## 6. Differences between the code and its documentation

With a run in which TLC finds the violation; `PROJECT.json` quotes the line.

| Run | The text | What happens |
|---|---|---|
| `PaymentsOverRefund` | refunds never exceed the amount | two refunds in flight each pass the check on their own copy |
| `OnlyPendingCancelled` | only pending payments can be cancelled | the list of statuses that `cancel` refuses lacks OVERDUE, EXPIRED and PARTIALLY_COMPLETED |
| `MalformedKey` | a malformed key is answered with 400 | a key that is too long for the index fails each INSERT, finds no row and starts over for ever |
| `ChangedAddress` | a changed address has to be verified | the UPDATEs of a verification and of a change cross, and the new address is left verified |
| `BackupCodeSingleUse` | a backup code is consumed | two logins at once match the same code |
| `RunsEnd` | a run creates its settlement and mails the merchant | it waits on a second connection for a row that its own transaction holds |

Without a run. These definitions state such texts too; they do not hold of the code,
and no configuration here checks them. Of `Payments`: `OnlyPendingExpired` (the sweep
expires what is pending, the comment at `payments.service.ts:1187`: it saves what it read
before, over a completion that came in between), `CompletedLegWasPaid`,
`CompletedPaysSplits`. `CompletionsCounted` of `PaymentLinks` (a link tracks its completed
payments, `docs/PAYMENT_LINKS.md:5`: the stream does not credit the link, and a throw or a
crash after the commit loses the credit). `OneActiveDispute` of `Disputes` (only one per
payment, `docs/DISPUTES.md:78`: the check looks at one dispute of the payment, whichever
comes first, and is not locked, so that two creations both insert). `MigrationsRun` of
`Migrations` (run the migrations, `CONTRIBUTING.md:38`: that of the idempotency keys calls
`createIndex` with the decorator `Index`, throws, and takes all pending ones back with
it). `OnePaymentPerLifetime` of `Idempotency`, `ChargedOncePerRun` and `PausedAtThreshold`
of `RecurringPayments`, `GeneralEndpointsAdmit` of `Throttling`.

Payments and keys
- A leg is COMPLETED while its transfer waits for signatures (`payments.service.ts:1290`,
  `docs/PAYMENT_SPLITS.md:125`); what the Horizon stream completes has its splits left
  pending (`stellar-horizon-stream.service.ts:202`, `docs/PAYMENT_SPLITS.md:107`).
- `Refundable` is wider than the comment above `refund`; a provider's webhook
  dispatches no event; `LinkCredit` counts a payment again that left COMPLETED and
  comes back.
- Two requests that delete one expired key both pay (`idempotency.service.ts:68`,
  `docs/IDEMPOTENCY.md:39`).
- Overlapping sweeps of due plans charge twice (`recurring-payments.service.ts:257`
  against the comment at :209); the pause at the threshold is never stored (:350,
  `docs/ENVIRONMENT.md:117`).
- `createBulk` stores no splits, and its items do not see each other in the limits.
- Listings: the search's OR is not in parentheses and takes in rows of others; the
  cursor of creation times is cut to milliseconds, and off by the offset where the process
  does not run in UTC (`payments.service.ts:676`, `payment.entity.ts:129`); the first page gives no cursor;
  `dto.tags` filters nothing; the cursor's sort field is not compared.
- The Horizon delay starts over with every `startStream`, so it does not grow for
  errors that arrive later; payments made while offline are never seen (cursor `now`).

Sessions, links, disputes, settlements, multi-signature
- The sweep announces as expired a checkout session that was completed between its
  `find` and its UPDATE; a manual expiry saves a stale copy; no controller calls
  `completeSession`; the module is imported at `app.module.ts:25` but not mounted; its
  migration makes `merchantId` unique.
- `dto.maxCompletions` of a link is never stored (`docs/PAYMENT_LINKS.md:26`); no
  migration adds `slug` and `requiredFields`; nothing calls `recordView`,
  `recordRedeem` and `recordComplete`; the weekly buckets drop events.
- No settlement run commits as written, which masks two more: the release of the
  reserve (`settlements.service.ts:427-497`) selects on a date that is never stored
  (about :620), and payments are selected by `updatedAt` (:592). A run that hangs keeps the merchant's
  configuration locked for later runs and for `upsertConfig`, which ignores the
  reserve on update.
- A multi-signature transaction is valid for thirty seconds, so signatures that
  people collect come too late; they are stored unverified, and one bad one blocks the
  transaction (`docs/STELLAR.md:142`); two stored transactions share a sequence
  number; FAILED is never set; a late save puts SUBMITTED back to PENDING.
  `addSignature` takes strings and is given Buffers (`stellar.service.ts:168-171`): it
  is modelled as meant.

Delivery
- Inactive endpoints are posted to by jobs under way; a manual retry runs beside the
  job's own; a PENDING row whose job was never queued cannot be retried; a save after
  a removal inserts the endpoint again; a replay is counted as completed when queued;
  the migration's columns of `webhook_deliveries` are not the entity's; a rotated
  secret may be overwritten by a stale save (`webhooks.controller.ts:262`).
- A mail whose SENT row cannot be stored counts as FAILED and is sent again.

Accounts and access
- `DELETE users/me` is answered by the handler of `users/:id`
  (`users.controller.ts:327-383`); the JWT of a deleted account is still accepted;
  `updateRole` inserts a removed role again.
- Reuse of a refresh token revokes the family in a transaction that then rolls back
  (`auth.service.ts`, about :683); touching a session saves a stale copy and may revive
  it; two resets at once use one token; the password history compares the hash of a
  hash (`password-history.service.ts:44`).
- Setting up two-factor again replaces the secret in force; disabling while a
  verification is under way leaves it on without a secret; step-up and regenerating
  codes count no guesses; stale saves bring back codes.
- General endpoints are bound by the throttler of the login
  (`throttler.config.module.ts:16`), and a merchant's own limit never applies
  (`docs/MERCHANT_RATE_LIMITING.md`).

The rest
- The nonce is optional and no part of what the provider signs
  (`webhook-signature.service.ts:79`, :108), and a restart forgets the nonces: within the
  tolerance one signed message is taken as often as it comes, with another nonce or with
  none. The controller's documentation says that the header is optional, so no text is
  contradicted and no run is made of it.
- Overlapping fetches, or a refused second write, make the fallback rate older than
  the last known (`docs/RATES.md`).
- Two saves of an onboarding that cross half-way leave "approved" beside a name that
  nobody reviewed; `requiresReReview` is never cleared; first reads at once answer 500.
- The day on which a report is sent is in no report; a send that fails repeats it for
  those already served; `unsubscribeByEmail` has no caller.
- Migrations: some share a timestamp; `ADD VALUE` cannot be run again after a revert.
  The down of `AddCompositeUniqueIndexToMerchantSettlementConfigs` makes a unique index
  over `userId` again, and fails once `upsertConfig` gave a merchant a second currency;
  that of `AddGranularScopesToApiKeys` sets NOT NULL, and fails once a key has no scope.
  Its `changeColumn` replaces the type `api_key_scope` by one that TypeORM names and
  that nothing drops: the down leaves it, and after a revert past the table the
  migration cannot run a second time. `MigrationsRevert` says that there are no others.

## 7. Not modelled

- *SSE of payment status*: events are passed on in memory. The statuses that end a
  stream lack EXPIRED, OVERDUE and PARTIALLY_COMPLETED.
- *IP allowlist, geo restriction*: settings read and written as a whole and judged
  against an address; only the guards' places are modelled (`Endpoints`).
- *Exports*: file formats; the module is not mounted and imports files that do not
  exist.
- *Events, audit log*: append-only. The cursor of events is cut at its colons, which
  an ISO time has too.
- *Invoice reminders* beyond marking payments overdue: the query names a relation
  `merchant` that `Payment` lacks, so it throws each time.
- *Trust lines and assets* (`stellar.service.ts:208-320`): calls to the network without
  state of their own.
- *Reserve and e-mails of settlements*, the *confirmation of e-mail addresses*,
  *templates*, *statistics* (`getSummary`), the computation of signatures: the outcome
  is an input where it matters.
- *Health, logger, CORS, database, middleware*: no business state; the pool of
  connections is in `PaymentCreation`.

## 8. Plan

Every component worth a model has one, and what can be proved of the properties is.
What is left, should the code change:

- *With TLC only*: liveness, and `MigrationsRevert`. A new migration goes into `All` of
  `Migrations`, and its statements are checked with the rest.
- *Where the code mends a difference of section 6*, the history variable that excuses
  it can go: with a lock or a version column on `payments`, `overlapped` stays empty, and
  `TotalRefundedWithinAmount` becomes an invariant to prove from `RefundsInv`.
- *Not modelled* (section 7): exports once the module can be mounted; invoice reminders
  once their query runs; the reserve of settlements once a run commits.
