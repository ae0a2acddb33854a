# A verification project for PuntosFieles

PuntosFieles is a multi-tenant loyalty programme: businesses award points to
their customers, customers redeem them for rewards. An Express API and a worker
process share a PostgreSQL database (row level security per tenant) and an
optional Redis; staff and customers use PWAs. All state that matters is in the
database; what makes it hard is that requests of several workers interleave
between transactions, that clients and providers repeat what they saw no answer
to, and that work goes on after the response.

This directory holds TLA+ models of that code, the configurations that check
them with TLC, and proofs that TLAPS checks. Paths below are relative to the
repository; `services/` stands for `src/app/services/`.

## The system and its parts

| part | state | operations | talks to | what is hard |
|---|---|---|---|---|
| points ledger: `staff-award-service`, `staff-service`, `loyalty-ops-service`, `external-award-service` | `transactions`, `customer_balances`, `qr_tokens`, `redemptions`, `rewards.stock` | award, offline sync, redeem, refund, settle, expire, external award | hooks, webhooks, audit | each request is a chain of three transactions; retries by txId, QR token, requestId, externalEventId; program changes in between |
| request sessions: `middleware/pg-client.js`, `db/client.js`, `db/context.js`, `db/transactions.js` | the pool, `app.current_tenant` of each connection | bind a connection to a request, transactions, release, detached hooks | everything that queries | a client that hangs up, work that outlives the response, a pool that runs out |
| outgoing webhooks: `webhook-service`, `webhook-repository` | `webhook_deliveries` | fan out, claim a batch, POST, mark sent or failed, bill | endpoints of third parties | overlapping runs, lost answers, retries, crashes |
| background jobs: `job-service`, `job-repository` | `background_jobs`, a Redis list of pointers | enqueue, claim by pointer or from the table, run, record the outcome | analytics, lifecycle | two ways to the same job, Redis that fails |
| gift cards: `gift-card-service` | `gift_cards`, `gift_card_transactions` | issue, redeem, show | | replay by requestId, concurrent redemption |
| payment webhooks: `payment-webhook-service` | `payment_webhook_events` | receive, apply, resolve by hand | external award | award and status are separate statements |
| gamification: `staff-award-hooks`, `gamification/*` | achievements, challenge progress | grant after an award, take back after a refund | ledger | lost updates, double grants, refund in between |
| referrals: `referral-service` | `referral_codes`, `referrals` | apply a code, complete, reward | ledger | lock order, completion once |
| tiers: `tier-service` | `customer_tiers`, `tier_history` | progress after an award, retention sweep | ledger | stale reads, sweep against progress |
| lifecycle: `lifecycle-service`, `churn-service`, `worker.js` | `lifecycle_events` | birthday and win-back bonus, expiry sweep | ledger, messages | two schedulers, a daily task that fails half way |
| reconciliation, correction, certification: `ledger-*-service` | findings, corrections, adjustments | compare, repair, request and apply a correction | ledger | repair without locks, what counts as expected |
| derived statistics: `customer-derived-state`, triggers of `schema-extensions.sql` | `customer_ltv`, `visit_streaks` | triggers on each row, computed anew after awards and refunds | ledger | triggers that wait, lock order, midnight |
| offline queue: `public/idb.js`, `public/staff/index.js` | IndexedDB | store, synchronise, requeue | award sync | several tabs, lost answers, expiry of QR tokens, size of a request |
| joining: `customer-service`, `verify-code-repository` | `verify_codes`, `customers` | send a code, join with it | referrals | statements outside a transaction, a hook that is lost |
| account changes: `account-security-service` | `auth_action_tokens` | request, confirm from both addresses, apply | | two confirmations at once, statements outside a transaction |
| browser sessions: `auth-session-service`, `middleware/auth.js`, `internal-magic-link-service` | `auth_sessions`, `internal_magic_links` | open, judge, prolong, invalidate | | a copy that is judged after it changed |
| migrations: `db/migrations.js` | `schema_migrations` | apply what is new, refuse what was edited | | several processes start at once |
| plans and points | configuration | pure functions | ledger | |
| messaging, front ends, deployment | none that matters here | | | |

The award is where most of it meets. `awardCustomer` runs inside the session
that `withPgClient` has bound to the request: it settles and expires the
customer's points in two transactions of their own, commits the award in a
third, and then fires hooks (tiers, achievements, challenges, referrals) and
webhooks without waiting for them.

## Modules

| module | stands for |
|---|---|
| `Totals` | sums over the rows of a table, as a recursive function |
| `PointsLedger` | the points ledger of one business |
| `LedgerReconciliation` | reconciliation, repair and corrections, over the points ledger |
| `IdealLedger` | what the ledger promises its customers, without tables or requests |
| `RequestSessions` | pool, sessions, tenant settings, transactions and hooks of requests |
| `WebhookDeliveries` | fan-out and delivery of events |
| `JobQueue` | the background jobs |
| `GiftCards` | issue, redemption and ledger view of gift cards |
| `PaymentEvents` | webhooks of the payment providers |
| `Rewards` | achievements and challenges of a customer, granted and taken back |
| `Joining` | joining with a code, and the referral a join may complete |
| `Tiers` | the tier of a customer, by everybody who writes it |
| `CustomerState` | totals and visit streak, by triggers and by hand |
| `Lifecycle` | birthday, win-back and digest |
| `OfflineQueue` | sales stored by the staff app and their synchronisation |
| `Accounts` | changes of e-mail address confirmed from both addresses |
| `BrowserSessions` | sessions of the staff, and the links that open one |
| `Migrations` | the managed migrations |
| `MC*` | the small instances that TLC checks |
| `PointsLedgerProofs`, `WebhookDeliveriesProofs`, `JobQueueProofs`, `RequestSessionsProofs`, `TotalsProofs` | the proofs about the module each is named after |
| `PaymentsProofs` | the proofs about `GiftCards`, `PaymentEvents` and `OfflineQueue` |
| `AccessProofs` | those about `Accounts`, `BrowserSessions` and `Migrations` |
| `CustomersProofs` | those about `Joining`, `Lifecycle`, `Tiers`, `CustomerState` and `Rewards` |

`LedgerReconciliation` extends `PointsLedger`, which implements `IdealLedger`. The eleven
services from `GiftCards` to `Migrations` share no variables with each other; each models what
it needs of the ledger (a row, a balance) itself, at the size its own races need.
`MCServices` puts them side by side for one run of TLC.

### PointsLedger

A worker of the API has a job: the operation, the step it is at, its arguments
and the copy of the business' program it read at the start. `BeginAward`,
`BeginRedeem`, `BeginExternal` and `BeginUpkeep` accept a request, `RefuseToken` turns
away an award whose QR token is forged or has expired; `SettlePending`,
`ExpireNothing`, `ExpirePoints` and `UpkeepFails` are the two preliminary
transactions, which may fail without stopping the request; `CheckAward` compares the
customers who are active with the plan's limit and the purchase with the award guards,
outside of any transaction and before anybody has looked for the txId; `CommitAward`,
`CommitRedeem` and `CommitExternal` are the transactions the requests are about,
and `RefundAgain`, `RefundRefused`, `RefundHeld`, `RefundPosted` those of a refund. `Crash` loses a worker
between two transactions, `SetProgram` is the owner saving the program, `NextDay`
the clock. Repeating a request needs no action: a free worker may begin any
request at any time, also one that was served or lost.

Each database transaction is one step. The code earns that with advisory locks
on the key of the request, `FOR UPDATE` on the rows and unique indexes; a
transaction that PostgreSQL aborts (for a deadlock, say) does nothing and its
client sees an error, like a request that crashed. The order in which locks are
taken is therefore not in the model.

Abstracted: points are an input (what `computePoints` makes of a purchase is
arithmetic on the program) and stand for the payload in the fingerprint of an
external event; a cool-down counts days, not hours; a token may be refused at any
time, since its age is not kept; of the award guards, the limit of a single purchase
stands for all (`maxPerTx`). A customer is active for `ActiveDays` after a visit, or after
joining (`Newcomers`). A refund takes any row that is no reversal, as the code does, which
never looks at the kind of the row. Left out: deletion of customers, edits of rewards,
branch scope and validity of rewards, bonuses of the lifecycle, and what a refund takes
back in the gamification.

`RetryIsAnswered` says what a repeated request is told: a redemption that was made is never
refused, and an award that was made never conflicts with itself, but may be refused by the
checks that come before its txId is looked up. That the first attempt can be what makes
these checks fail is a finding (`AwardRetryIsAnswered`).

### IdealLedger

Three variables: points to spend, points on hold, and the tickets that were used
(a txId, a QR token, an externalEventId, the requestId of a redemption or of a
refund, the row a refund reverses). `PointsLedger` implements it under the
mapping at its end: rows and caches become balances, keys found in the tables
become used tickets. The refinement says that every step of the tables is at
most one earning, release, spending, lapse or undoing, that each ticket is good
for one, and that release, spending and lapse never exceed what is there.

### LedgerReconciliation

Extends `PointsLedger` with what checks and corrects it from outside. `Reconcile` compares
the cached balances of everybody with what `expectedLedgerBalances` computes from the rows,
and `Repair` later writes what was computed then, without a lock. One owner requests a
correction (`RequestCorrection`), another one applies or rejects it (`ApplyCorrection`,
`RejectCorrection`); the delta of a correction goes into the adjustments, which the expected
balance counts, and into the cached balance as well. Its one property is a finding.

### RequestSessions

The middleware of `src/middleware/pg-client.js` takes a connection when a request
arrives and gives it back at `finish` or `close`, whichever comes first.
`requireTenant` and the handlers set `app.current_tenant` on it; a transaction takes
a second connection. A join (`customer-service`) starts hooks that the response does
not wait for, and which use the session of the request and connections of their
own. A client may hang up at any moment, which closes the response while the
handler goes on.

Abstracted: idle connections are handed out before new ones, any idle one may be
picked; idle connections do not time out; the reset of the settings and the
release are one step; `platform_admin` and `webhook_ingest` behave like the tenant.

### WebhookDeliveries

An event is fanned out row by row, without a transaction. A run of
`deliverPendingOnce` claims a batch (`Claim`), which `mapLimit` hands to a few
threads: `Post` reaches the endpoint or not, and its answer is a success or not,
each independently; then `MarkSent` and the billing, or `RecordFailure`. A response that
breaks off after its headers is an event nobody listens for (`PostBreaksOff`): the promise of the
POST never settles, the thread takes no further delivery, and what no other thread of its run
takes stays SENDING. Any
statement may fail before or after it took effect (`ClaimLost`, `MarkSentFails`,
`RecordFailureFails`), which ends the thread, and a process may die with all its
runs (`Crash`). Two processes run the loop, since the API does so too when
`IN_PROCESS_WORKERS` is set, and runs of one process may overlap.

### JobQueue

`enqueueJob` inserts the row (`Insert`) and then pushes a pointer to Redis
(`Push`, `PushFails`). A run of `processPendingJobsOnce` pops pointers (`Pop`) and
claims the job of each (`ClaimById`); when the list is empty it claims the oldest
job that is due (`ClaimFromTable`). A pointer whose job is no longer claimable
counts as a job of an unknown type and uses up a round, as in the code. The
handler succeeds or throws (`Handle`); the outcome is written in one more statement
(`WriteDone`, `WriteFailed`), which may fail with or without effect: then DONE is
overwritten by FAILED, or the run ends and the job stays RUNNING.

### GiftCards

Tills issue and redeem cards. A request with a requestId takes the advisory lock of that id
first and is answered with the earlier row if there is one, whatever its card or amount (the
code does not compare them); a redemption then locks the card's row, and writes a balance
computed from what it read there. A rollback undoes either. The owner's ledger view reads
the card and then at most `ViewLimit` rows of it, without a lock. A clash of two random card
codes aborts its transaction, like any other failure.

`GiftMoneyKept`: a balance is the sum of its rows and not negative, and a requestId moves
money once. `ViewNeverOver`: the view may report a mismatch that is none, but never that
the rows hold more than the card: that would be money lost.

### PaymentEvents

A delivery registers its event (`Receive`), parks it where it is not approved or names nobody
(`Park`), asks for the external award (`AskAward`, `Award`, `AwardAgain`, `AwardFails`), and writes
the outcome (`Record`, which also fills in the business the payload did not name): three transactions, each of which may fail, also after it took effect
(`RecordFails`, `Catch`, `Abandon`). The owner resolves by hand what could not be mapped
(`Resolve`), with the same external event id. A customer may join in between, and the owner
may switch external awards off. As in the code, the first delivery decides on approval:
an event that was once IGNORED stays so.

`PaymentsSound`: an event is awarded once; one that says APPLIED names its award, and a link
to an award stays right although late failures overwrite the status.

### Rewards

One customer. An award inserts its row; its hooks (`Hook`) then bring achievements and
challenges up to date in transactions of their own, which lock the row of the award, read,
decide and pay. What a hook reads of visits and spending it has from `customer_ltv`, which may lag
behind the rows (`BeginBadges` takes any part of the sales); a refund refreshes it first. A refund reverses the award, revokes badges and challenge completions that
the remaining rows no longer carry, and looks for substitutes that do. Recurring challenges
have windows; time passes with `NextWindow`. Left out: one metric has one challenge at most; the
metrics of streaks and referrals, awards on hold, rewards of no points, the refusal of negative
balances, leaderboards.

`RewardMoneyKept`: whatever is granted, refunded, revoked and granted again, the balance is the
sum of the rows, and what is taken back is taken back once. `EarnedWhileStanding`: an award
that is refunded earns nothing afterwards. What the code does *not* keep is in Findings: two
hooks of one customer do not exclude each other, so that an achievement or a daily challenge
can be paid twice.

### Joining

`RequestCode`, `StoreCode`, `DeliverCode`, `Guess` and `WrongCode` are the verification of a phone, one
statement each, so that two requests may leave two codes; `Find` to `ForgetCode` the
statements of a join, which are not in a transaction (the customer and its balance are two
statements, and a failure between them leaves a customer without a balance: the next join
finds the row and adds none, only a repair of the ledger does, which is left out here); `ApplyReferral` and `CheckReferral` the hooks that follow the answer, and
may be lost with their process (`AbandonJoin`); `Buy` a purchase that may complete the referral.
`RewardReferral` enters the reward of both ends in `transactions` and adds it to their balances, with
an UPDATE that hits nothing where there is no balance. The hourly limit of five codes is left out: a
new code deletes the earlier ones (`repositories/verify-code-repository.js:6`), so that the count
hardly gets there.

`ReferralPaidOnce`: a referral that is rewarded has entered a reward for each end once, another one
for nobody, and the uses of a code are the referrals made with it. No balance gets more than was
entered, and who had a balance before gets all of it. A customer without a balance gets nothing
at that time: the row is written, and its points are not added unless the ledger is repaired.

### Tiers

One customer, and everybody who writes the tier: the trigger on the balance and the hook of
an award (`CommitAward`, `CommitCheck`), the retention sweep under the policy `rolling_days`
(`Move`, `Spare`, `Bootstrap`), the look at a customer who has none (`Assign`) and the deletion of
a tier by the owner (`Delete`). All read first and write later. Under `rolling_days` a stale
check or sweep may overwrite a higher tier, and a deletion that races with an assignment leaves a
customer on no tier and takes its history along. Left out: new and edited tiers, multipliers, how
long a tier was held before the days of grace end.

`TiersSound` says what holds nevertheless: a tier above the lowest is in the history (the sweep asks
the history what a return costs), and where tiers are kept for life a customer whose tiers were
not deleted has every tier the balance reaches.

### CustomerState

The triggers of an INSERT run inside of it: they compute the totals, wait for the row of
`customer_ltv`, write, and look at the streak; awards of the staff and refunds compute both anew at
their end. A transaction is a script of such steps (`Script`). Redemptions and refunds lock the
balance first, the others the totals: they can wait for each other, and the database then ends
one. What a trigger computed before its wait is stale when written.

`RefreshRestores`: when an award of the staff or a refund commits, totals and streak are those
of the rows, whatever has committed since it began.

### Lifecycle

A run reads the date of its process (`ReadToday`), selects guests by the date of the database
(`Select`), and for each inserts the event, and with it the bonus (`Greet`), before the message
(`Message`). API and worker may run it at once, runs stop half-way and start again, and the day
may change between the two clocks.

`GreetedOnce`: an event brings its bonus exactly once and with it, and one message at most.

### OfflineQueue

A sale is registered online or stored (`SellOnline`, `SellOffline`, `Keep`, `Forget`); tabs share the
store and synchronise it: `ReadQueue`, `Mark`, `ServeSale`, `Reply`, `Settle`, or `SyncFails`. A tab may be
closed at any moment (`Close`) and puts back what was being sent when it opens again (`OpenTab`). A
server goes on without a client (`ServeUnheard`). More than `MaxBatch` stored sales are refused as one
request for ever; QR tokens expire after minutes while a sale waits for the network. The server may
refuse any sale, also one that it has applied before (plan and guards are checked before the txId):
the sale then stays in the queue.

`AcceptedIsKept`: what the cashier was told is saved stays in the queue until the server has applied
it. That it is applied in the end is promised nowhere, and is not true, see above.

### Accounts

A request sends a token to the old and one to the new address. Each confirmation uses its token,
looks whether both are used, and applies the change: separate statements, outside a
transaction, so that a crash between them loses the change although both have confirmed. With
row level security forced on the database role, a change of a member of the staff is never
applied, since the public routes set no tenant (`RowSecurity`).

`EmailIsConfirmed`: an account only ever has an address both of whose ends were confirmed.

### BrowserSessions

A request looks the session up (`LookUp`), judges the copy (`Judge`, `Refuse`), writes a later idle time
(`Touch`, or `TouchFails`: near the absolute end the table refuses it and nobody notices), and looks at the
account (`Serve`, `TurnAway`). Meanwhile others log out, an owner changes the account, or all its
sessions are ended. A single-use link is read, consumed and opened in three statements. Left
out: sessions of customers and super admins, reusable links, the expiry of links,
recent authentication.

`SessionsSound`: a link opens one session, and neither a stored session nor the copy a request
goes by lasts longer than the idle and the absolute limits.

### Migrations

Processes of different builds start at once. Each looks its files up in `schema_migrations`, in
order (`Missing`, `Present`, `Mismatch`), and applies what is missing in a transaction (`Apply`,
`ApplyFails`); the loser of a race fails on the primary key, rolls back and does not start. A file
added later may so be applied after files that sort behind it.

`MigrationsSound`: a file takes effect once, and a process that is up has had each file of its
build take effect as it knows it.

## Runs and bounds

| run | what it asks | bounds |
|---|---|---|
| `ledger_awards` | conservation of points and of held points, idempotency of txIds, tokens and refunds, no early settlement | 2 customers, 2 workers, 2 txIds, 2 tokens, 1 refund, hold on and off, one active customer per plan, 2 days, 3 rows |
| `ledger_redemptions` | reversals pair up, no negative balance, stock, points against lifetime points, an append-only table, answers to retries | 1 customer, 2 workers, awards of 2 or 3 points, a reward of 2 points with one piece, expiry after a day, 2 requestIds, no active customer in the plan, so that a second award of the day is refused, 3 days, 5 rows |
| `ledger_promise` | the refinement of `IdealLedger`, and the daily limits | everything at once, one worker, a limit per purchase on and off, 2 days, 4 rows |
| `request_sessions` | one holder per connection, work that its response has not overtaken runs in its tenant, nothing is left behind but by overtaken work, every request is served | a pool of 3, an award and a join of different tenants |
| `webhook_deliveries` | one sender, bounded POSTs, true outcomes, billing, an end for every delivery | 3 endpoints, 2 processes, 2 threads, 2 attempts |
| `job_queue` | one execution, true outcomes, an end for every job | 2 jobs (one delayed and of an unknown type), 2 processes, 2 rounds per run |
| `services` | what holds of each of the eleven services, in all interleavings of its actors with its own failures | for each two actors (tills, handlers, runs, tabs, clicks, desks, servers, transactions, workers, visitors, processes), one customer or two, and small stores: see `Services.cfg` |
| `external_retry`, `award_retry`, `correction_settles`, `session_cleared`, `challenge_once_per_window` | five statements of the repository that the code does not keep, see Findings | one property each, as small as shows it |

`services` is one run of eleven independent specifications. The variable `service` is chosen
initially and says which of them takes steps; the others stay in their initial states, of which
`SInit` picks one for those that have several. Since they share no variables, what holds of each
alone holds here and conversely, and the number of states is the sum, not the product (2
million). The modules that are proved about are extended, so that the properties checked are the
very ones of the theorems; the others are instantiated.

The bounds (`MaxDay`, `MaxRows`, `MaxAttempts`, the pool) are constants that appear in
guards or come from the configuration of the program. They are enough for each
interesting case to occur: two workers on the same customer, key, token or last
piece; a row that is held, settled, partly expired and refunded in any order; a
retry after every kind of first attempt; a batch larger than the threads that
work on it; a pool that just suffices. Two rows of a kind are enough for uniqueness,
two actors for a race; the theorems below do without any bound. `MaxRows` stops
insertions only, so that settlement and marking go on. Workers are
interchangeable and are a symmetry set in the safety runs of the ledger. In `services` a
retry, a failure and a concurrent actor fit into each service at once; `MaxBatch` 1 makes two
stored sales too many, `MaxRows` 4 of `Rewards` leaves room for an award, its two rewards and a
reversal, `ViewLimit` 2 cuts off a row of a card that has 3, the clock of `BrowserSessions`
runs to the absolute limit, and one code in `Joining` is enough for two requests to interleave and for
a join to break off before the balance and be repeated.

Every property has a mutant: a definition of the model changed the way a
plausible bug would change the code, under which TLC finds the property violated.

## Fairness

The ledger has none: nothing in it need happen, and all its properties are
safety. The services have none either: nobody need come back, retry or reopen a tab, and the
code promises no end to what it leaves half done. `RequestSessions` assumes that the event loop and the database go on:
handlers and hooks do not hang, the pool serves its queue; nobody need send a
request or hang up. `WebhookDeliveries` assumes that the interval of each process
goes on ticking, that a statement settles, and that a POST comes to an end of some kind:
an answer, an error, the timeout before the headers, or a connection that breaks off after
them, after which nothing more comes (`PostBreaksOff`). It is not assumed that a POST is answered.
`JobQueue` assumes ticking intervals, and that a process, Redis and the database do
not fail each time that a run is about to look at the list or at the table (strong
fairness of `Pop` and `ClaimFromTable`): without that, a worker that always dies at
the same place would starve every job.

What liveness does not promise: a delivery or job whose process died, or a delivery whose
response broke off, stays SENDING or RUNNING, since nothing takes it up again; `Abandoned` names that state, and
both `EveryDeliveryEnds` and `EveryJobEnds` allow it. `EveryRequestIsServed` needs
fewer requests in flight than the pool has connections, since each holds one and
waits for a second: with as many requests as connections all may wait for ever.

## Proofs

`Totals` sums by a recursive function; its theorems (a sum of one row more, of a
pointwise sum, of non-negative terms, of one term) are proved from its defining
equation, by induction over a set of naturals, and carry the ledger's proofs.

`PointsLedgerProofs` proves, for any customers, workers, keys, rewards, programs and
bounds that satisfy the assumptions of `PointsLedger`:

- `TypeCorrect`, `BalanceCorrect`, `PendingCorrect`, `NotNegative`: the types, the cached
  balances as sums of the rows, no balance below zero unless a program allows it;
- `AppendOnlyCorrect`, `HeldUntilDueCorrect`: action properties of the table;
- `TakesEffectOnceCorrect`, `QrBurntCorrect`, `ReversalsCorrect`, `RetryCorrect`: idempotency;
- `StockCorrect`, `DailyLimitCorrect`, `LifetimeCorrect`: stock, limits, spendable against earned;
- `PromiseKept`: `Spec => ImplementsIdeal`, the refinement of `IdealLedger`.

With that every safety property that the passing runs check of the ledger is proved. How:

`TypeOK` is not inductive by itself: a commit is typed only if the job it commits has the
arguments its operation needs (`JobFits`); together they are `Typed`. The balances are not either:
settling adds the points of due rows and takes them from `pending` under a `GREATEST(0, ...)`,
which changes nothing only if `pending` is at least that sum; so the invariant (`Balanced`)
carries `PendingIsLedger` along with `BalanceIsLedger`, and `HeldRows` (a PENDING row has
points >= 0 and is an award), from which the clamp never bites. Each operation then has a lemma
about the sums before and after it: rows marked, a row appended, both.

What the rows may do is said once, in `RowStep`: a step moves the status of rows forward, or
adds one row (`AddsPlain`, `AddsStaff`, `AddsExternal`, `AddsReversal`), with what the operation has looked
up before. Append-only and the hold follow at once; that keys are distinct and tokens burnt by
awards (`Once`) and that reversals pair up are then proved by cases on four kinds of row instead
of every action. For `RetryIsAnswered` a refusal must be
the step's own: a busy worker has not answered yet (`NoAnswerYet`). It says of an award that only
`CheckAward` refuses one that has been made, and only while the plan or a guard does. The stock counts redemptions with finite sets, and the
daily limit those of today (`MadeByNow`, `WithinDay`). For `SpendableWithinLifetime` the rows have the
sign of their kind (`Signs`), and the lifetime covers all awards that are not reversed
(`LifetimeCovers`). For the refinement, every row came with a key of its own kind
(`KnownKeys`), lemmas say which tickets each kind of row uses, and one simulation per action names the move of `IdealLedger` it maps to, or shows
that it stutters.

`WebhookDeliveriesProofs` proves `TypeOK`, `OneSender`, `PostsBounded`, `OutcomeIsTrue`,
`BilledOnce` and the action property `EndsOnce` from one inductive invariant: types;
rows not yet inserted are untouched (`Fresh`); what `received`, `attempts` and `billed`
may be at each status (`RowsFit`); one holder per delivery (`OneSender`); and what a
delivery in somebody's hands is like at each place of a thread (`Hands`). `Hands` is
what makes it inductive: that an endpoint has received at most `attempts + 1` POSTs
follows only from a thread about to POST holding a delivery with `received <= attempts`.

`JobQueueProofs` proves `TypeOK`, `ExecutedOnce` and `OutcomeIsTrue`, for any jobs,
processes and overlap, with Redis and without. The invariant adds to the types what
`attempts` and `executed` may be at each status of a job (`JobsFit`), what the job in the
hands of a run is like at each place of the run (`RunsFit`), and that no two runs hold
the same job (`OneRun`). `OneRun` is what makes it inductive: a handler called by one
run must not change what another run relies on.

`RequestSessionsProofs` proves `TypeOK`, `OneHolder`, `WorkInTenant` and `ClearedUnlessOvertaken`, for
any requests and any size of the pool; the only assumption beside those of sizes is that the value for
"no connection" is not a connection (`NoneAssumption`). The invariant says where a request can be
with what it has (`RequestsFit`), that whoever stands in the queue of the pool waits, and stands there
once (`QueueFits`), that each connection is idle or in one hand (`HeldOnce`: of the session, of the
handler's transaction or of the hook's), and that whoever relies on a tenant has it (`TenantsFit`).
`HeldOnce` carries the rest: a step changes the settings of one connection, so that nobody else's
tenant can change, unless the one who changes it was overtaken by the end of its response.

The services are proved as well, for any number of actors. Their hypotheses about constants
are named, and TLC evaluates them in `MCServices`. In `PaymentsProofs`:

- `GiftMoneyCorrect`, `ViewCorrect`. The running sums of a card are those of `Totals`. What makes the
  invariant inductive is what the locks give (`TillFits`, `LocksFit`): between the lock of a card and
  its write the balance is the one that was read, and nobody has written a row for the request. For the
  view, balances only go down and a card is issued by its first row (`IssuedFirst`), so that later
  rows and a cut-off issue both lower what is expected.
- `PaymentsCorrect`. The keys of awards are those of events, so no two deliveries of one event can both
  award (`KeysAreEvents`), and what a request carries to its last
  statement is what its award was (`WorkFits`); hence late writers overwrite only statuses.
- `AcceptedCorrect`. The invariant says that the answers a tab holds are true (`HeardIsTrue`): a tab
  deletes only what the server has applied.

In `AccessProofs`:

- `EmailCorrect`. Used tokens stay used (`RequestsGrow`), so that a confirmation that has found both used
  may apply the change at any later time (`ClicksFit`). `FirstEmailAssumption`: everybody starts with an address.
- `SessionsCorrect`. Rows and copies keep their limits (`RowsFit`, `VisitFits`);
  an unused link has no session (`UnusedIsFresh`) and a used one at most one opener (`OneOpener`).
- `MigrationsCorrect`. `OncePerVersion` comes from the primary key; that a process
  which is up has everything comes from what it has passed so far (`Passed`).

In `CustomersProofs`:

- `ReferralCorrect`. A code belongs to a customer and a referral to somebody else's code (`CodesFit`),
  and customers are not deleted, so that a server that has passed the insertion still has its customer
  (`ServersFit`). Payments and uses are cardinalities, which grow by one with a row. Balances are
  not deleted either, and only who has one is credited: members always, others at most what is entered.
  `PhonesAssumption`: finitely many phones; `NoCodeAssumption`: no row is the value for its absence.
- `GreetedOnceCorrect`. A run that is about to send a message has recorded the event itself, and nobody
  has sent anything for it yet (`RunsFit`); two such runs are about different events (`EventsDiffer`).
  `ClockAssumption`: the bound on the clock is a number.
- `TiersCorrect`. `HistoryCovers` is inductive by itself. For `KeptForLife`, where tiers are for life, a
  customer has the highest tier reached at every moment, so that nobody else has anything to do about it
  than the one award that holds the balance (`Settled`). `TierAssumption` says of the tiers what
  `DEFAULT_TIERS` has: levels from 1 on, of which only the first needs no points.
- `RefreshCorrect`. Every script locks `customer_ltv` in "derive", before its commit, and keeps it
  (`LocksWhatItDerives`), so one transaction at a time is past it (`OneDerives`); what it has refreshed is
  what the rows say, with its own (`IsRefreshed`), because no other transaction can commit a row in
  between. `KindsAssumption` lists the kinds of transactions.
- `RewardMoneyCorrect`, `EarnedCorrect`. The invariant (`RewardsInv`) says that the balance is the sum of the
  rows and a reversed row has exactly one reversal (`Kept`, `Paired`), that badges and completions name
  payments (`EarnedNames`, `CourseNames`), what the row of an award is like for the transaction that holds
  it (`DesksFit`), and that each lock has one holder (`DesksDiffer`). Names are needed because a
  revocation reverses what an achievement or a completion names: were that a purchase, another award
  would be reversed under its hooks. A refund is a computation: it never leaves
  `Databases`, in which the balance is kept, no purchase is reversed but the refunded one, and no
  row is earned. Its loops are recursive functions: `LoopExists` shows
  by induction on their length that such a function exists, `LoopStays` that what every turn keeps the last
  one has. Hence `EarnedWhileStanding`: a hook pays with the row of its award in its hands, which nobody
  else can have reversed. `RewardAssumption`: needs and limits are positive, as
  `gamification-support.js` has them, an award adds no negative amount, and a reward is worth something (what
  is worth nothing is granted without a row, and left out).

The liveness properties are only model-checked (out of the prover's reach: `EveryRequestIsServed`,
`EveryDeliveryEnds`, `EveryJobEnds`), and so is what a recursive function computes
beyond that: the proofs use that `ReconcileBadges` and the like stay within their bounds, not which
badge is found to be unreached. The invariants of the proofs were checked by TLC as well,
on the instances of `MCServices`, before they were proved. `TypeOK` of the ledger, the webhooks and the jobs is proved
and not checked in a run of its own.

## Findings

- `external_retry`: a retry of an external event is refused as a conflict after the
  owner turned the hold on or off, since the compared fingerprint contains the status
  that the current setting gives (`services/external-award-service.js:112`). A unit
  test says that a replay returns the existing transaction.
- `award_retry`: `docs/LOYALTY_POLICY.md:7` says that staff awards are idempotent by txId. The token,
  the plan's limit and the award guards are checked before the txId is looked up
  (`services/staff-award-service.js:123`, `:136`, `:180`), and the first attempt sets `last_visit_at`,
  which the plan's count of active customers reads: it can itself be why its retry is answered 403.
- `correction_settles`: a correction is meant to settle a mismatch (a second one is refused once
  "Customer balance already matches the ledger"), but its delta goes both into the adjustments,
  which the expected balance counts, and into the cached balance
  (`services/ledger-correction-service.js:265`): the mismatch stays and the same delta can be applied
  again and again. A mismatch arises from any refund: the refunded row becomes REVERSED and stops
  counting, its POSTED reversal still counts. After an award of 2 points and its refund the balance
  is 0, which is right, and the expected one is -2 (`services/ledger-reconciliation-service.js:75`).
- `session_cleared`: the reset before release is said to keep settings from leaking
  across pooled connections; work that goes on after the response sets them again
  on a connection that is already idle.
- `challenge_once_per_window`: `updateChallengeProgress` reads the progress of a challenge without
  a lock, and locks only the row of its own award
  (`services/gamification/challenges-service.js:123`), so that the hooks of two awards both complete and
  pay a daily challenge; `docs/LOYALTY_POLICY.md:44` says once per window.

## What is not modelled

- Certification of the ledger: files written from queries, over balances that are modelled.
- Points computation, and the plans but for the limit of active customers: arithmetic and look-ups on
  configuration whose result the ledger takes as an input.
- Rate limits: counters in the memory of one process. The Redis client lacks the operations the
  limiter asks for, so that it always falls back to them.
- Password resets, MFA, recent authentication and the sessions of customers and super admins:
  repeat the pattern of tokens and sessions of `Accounts` and `BrowserSessions` with other tables.
- Messaging (calls of providers and a log row), the web front ends but for the offline queue
  (rendering and calls of the API), deployment and observability scripts, generation of the
  OpenAPI document, analytics and SQL reports: no state that anybody else relies on. They are
  most of the lines that no definition stands for, and there is nothing in them for a model
  checker to interleave.
- The parts left out of a modelled component are named in its section above and in PROJECT.json.
- Hazard without a property: a client that hangs up before its connection was handed out; which
  events follow depends on the HTTP library.
