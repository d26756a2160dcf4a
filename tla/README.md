# Verification of the metering and billing service

TLA+ modules, TLC runs and TLAPS proofs for the service under `src/`: a FastAPI
application that meters usage events of tenants, enforces monthly quotas, reports
usage and cost, and keeps subscriptions in step with Stripe. Paths below are
relative to `src/src/` unless they say otherwise.

## 1. Inventory

| Component | State | Operations | What makes it correct |
|---|---|---|---|
| Metering endpoint: `api/v1/meter.py`, `services/meter_service.py`, `repositories/usage_repo.py` | `usage_events` (unique on tenant, idempotency key, usage type), the reply under `idempotency:*` in Redis | `POST /meter` | an event is recorded once; a refused request leaves nothing; a 200 names a recorded event; a quota is not overrun, or by a known amount |
| Quota service: `services/quota_service.py` | none | `check_quota`, `get_all_quotas` | reads subscription, plan and usage with separate statements |
| Session and pool: `api/deps.py`, `config/database.py` | one transaction a request, a bounded pool | `get_db`, `with_db_retry` | commit or roll back as a whole; waiting for a connection ends |
| Redis client and cache helpers: `config/cache.py` | the singleton `_pool`, the time of the last attempt; Redis, never authoritative | `get_redis`, `cache_get`, `cache_set`, `cache_delete` | a failure reads as a missing entry; an outage ends with the cooldown after it |
| Authentication: `api/middleware/auth.py`, `services/auth_service.py`, `api/v1/auth.py` | `tenants`, `tenant:*` in Redis for 60 s | `get_current_tenant`, `POST /tenants` | requests act on their own tenant |
| Stripe webhook: `api/v1/webhook.py`, `repositories/stripe_event_repo.py`, `repositories/subscription_repo.py` | `subscriptions` (unique on tenant, on Stripe id), `tenants`, `processed_stripe_events` | one handler for each event type | an event takes effect once, is acknowledged only with its effect committed, and touches its own subscription only; rows end as Stripe left them |
| Usage report: `api/v1/usage.py` | `usage:<tenant>:<month>` in Redis for 30 s | `GET /usage` | amounts, parts and total of one report agree; it is about the month it was asked for |
| Pricing: `services/cost_service.py`, `utils/money.py`, `config/pricing.py` | none | cost of a quantity, cents of a cost | rounding drifts by a known amount |
| Rate limiter: `api/middleware/rate_limit.py` | a sorted set a client in Redis | sliding window, failing open | no window holds more than the limit; nobody is refused for old requests; it is off only around an outage; a Redis that cannot be reached holds requests up for a bounded time |
| Checkout and portal: `api/v1/checkout.py`, `api/v1/billing.py`, `services/stripe_service.py` | `tenants.stripe_customer_id`, `tenants.email` | creates a customer, opens checkout and portal sessions | sessions are for the tenant's customer; once settled it stays, and no other is created |
| Cancellation, health, logging, request ids, header checks, settings, migrations, seed | none, or written once | | |

**How they meet.** The endpoints share PostgreSQL (READ COMMITTED) and Redis, and
nothing else: there is no lock, no queue and no background job. Metering reads the
subscription row that webhooks write; the report reads the rows metering
writes; every endpoint reads the tenant record that authentication caches and only a
checkout changes; the rate limiter and the cache helpers share one Redis client. Every
handler is a coroutine that other requests overtake at each `await`.
`src/Dockerfile` runs one server process, so its pool is the pool.

**What is hard.** Checks and the writes they guard are separate statements; the
answer of `POST /meter` and its cached copy precede the commit; Redis forgets;
Stripe repeats, reorders and overlaps its deliveries; the month ends between two reads
of the clock; a record read before an await is cached or written after it; a command
takes effect later than its time stamp; pool and row locks make requests wait for each other; costs are rounded
per row and again per category. `hazards` in `PROJECT.json` lists each at its line with
the properties that watch it, or the reason why none does.

## 2. Modules

| Module | What it is |
|---|---|
| `UsageLedger` | Abstract specification: slots charged at most once, the current month under a ceiling. No requests, no transactions, no cache. |
| `Metering` | `POST /meter` for one tenant, one action for each await. Properties and the inductive invariant. `Ledger` instantiates `UsageLedger` under the refinement mapping (`charged` is the slots of the committed rows, `total` is `usage`). |
| `MCMetering` | Scenarios, plans and subscriptions for TLC; one documented claim. |
| `MeteringProofs` | Types, `IndInv`, `OvershootBounded`, `RefusedNotCharged`. |
| `MeteringLedgerProofs` | `Metering` implements `UsageLedger`; `AnsweredIsRecorded` and `RepliesNameOneEvent` when nothing fails. |
| `StripeData` | Events and rows, and what an event says of a row. |
| `SubscriptionMirror` | Abstract specification: each event applied at most once, as a whole, in some order. No deliveries, transactions or failures. |
| `Webhook` | The Stripe endpoint and Stripe's redelivery. `Mirror` instantiates `SubscriptionMirror` (`applied` is the events with a committed marker). |
| `MCWebhook` | Event histories for TLC. |
| `WebhookProofs` | Theorems for any number of overlapping deliveries: types, `AckedIsProcessed`, `ColumnsFromEvents`, `RowsMoveWithMark`, `AppliedOnce`. |
| `WebhookMirrorProofs` | `Webhook` implements `SubscriptionMirror` where deliveries do not overlap. |
| `WebhookSyncProofs` | `InSync` where they do not overlap. |
| `Pricing` | Costs and cents as operators. |
| `UsageReport` | `GET /usage` beside metering, webhooks, the calendar and the cache; extends `Pricing`. |
| `MCUsageReport` | Small prices and the symmetry of readers. |
| `UsageReportProofs` | Theorems about `Pricing` and `UsageReport`. |
| `RateLimiter` | The sliding window of one client, the Redis client, a clock and Redis. |
| `MCRateLimiter` | The symmetry of requests. |
| `RateLimiterProofs` | Theorems about all safety properties of `RateLimiter`. |
| `Checkout` | The Stripe customer of one tenant: authentication with its cache, checkout, portal. |
| `MCCheckout` | Three requests for TLC. |
| `CheckoutProofs` | Types, `SessionsOfTenant`, `SettledForGood`. |

Definitions whose comment begins "Mutant:" are deliberately wrong forms of the
definition after them. No specification uses them; they stand for the bug the
property named in `PROJECT.json` would catch.

### Metering

A request is a value of `Req`; a client's retry is another request with the same
key. `pc[r]` names its next await: `arrive` (`get_current_tenant`), `lookup`
(`check_idempotency_key`), `quota` and `usage` (`check_quota`), `insert`
(`record_usage` of the repository), `respond` (the Redis store and the answer), `commit`
(`get_db` after its yield). `tx[r]` is the month in which its transaction began, which
is what PostgreSQL's `now()` gives `created_at`; `event[r]` is the row it inserted or
found; `usage[m][t]` is what `get_monthly_usage` sums for month `m`.
The order *answer, then commit* is the code's: `get_db` commits after its yield, and
the locked FastAPI (`uv.lock`, 0.141.1) resumes such a dependency once the answer
has been sent. `ON CONFLICT DO NOTHING` waits for the transaction that holds an
uncommitted row of the slot, which `record_usage` models as a disabled step. Failures
are `StatementFails`, `CommitFails`, `Crash` and `ExpireReply`; the environment is
`SyncSubscription` and `NextMonth`.

Abstractions: one tenant, since every query filters on `tenant_id`; the pool is that
of one process, as `src/Dockerfile` runs it (with more, `PoolSize` is the sum of their
pools); subscription and
plan are read in one step (plans never change); reading the clock and the
statement that uses it are one step; `with_db_retry` is left out, because a retry runs
in the transaction its error aborted and can only raise again; the branch for a
request whose event is `None` is left out, because `record_usage` never returns `None`.

### Webhook

A worker `d` handles one delivery: `is_processed`, `Read` (the handler up to its last
read), one of `UpdateRow`, `upsert_from_stripe` and `CreateRow`, `mark_processed`
(which commits marker and write together) and the answer. Updates carry only the
columns that differ from the row as it was read, as SQLAlchemy's unit of work
emits them. `Unlocked` stands for row locks and unique indexes: a statement that meets
an uncommitted write of its row, Stripe id or tenant waits. `emitted`, `acked` and
`rejected` are Stripe's side. The histories in `Ordered` are delivered in order, each event
once the one before is acknowledged; `OrderAssumption` says of them that the events of
a subscription begin with its checkout or creation, and that a checkout names a tenant
that exists, or none: an update of an unknown row and a checkout of an unknown tenant are
ignored for good, so that no row could agree with them.

Abstractions: billing period columns are left out; so is the deletion of a `sub:*` key
that nothing writes; Stripe's own calls return what the tests stub; an event type
without a handler is the kind `other`. The code handles `invoice.payment_succeeded`,
where the repository's README names `invoice.paid`. Migrations lag behind the
models (no `tenants.email`, no `processed_stripe_events.event_id`); the models are
followed, from which the tests create their tables.

### Usage report

Reader `g` looks for a stored report (`Lookup`), reads plan and usage
(`ReadPlan`, `ReadQuotas`), the total (`get_monthly_cost`), the usage again
(`get_monthly_usage_breakdown`), and stores and answers (`Respond`). The clock is read
three times: for the key, in `get_all_quotas` and for the period. `Exact` is a thousand
times the unrounded cost of some amounts, against which the roundings are measured.

Abstractions: one tenant; limits and `remaining`, functions of plan and amounts, are
left out; `settings.py` prices reasoning and output tokens alike
(`OutputPriceAssumption`), which the report relies on when it adds the two.

### Rate limiter

`UsePool`, `Cool`, `StartPing`, `PingAnswered` and `PingFails` are `get_redis`: the
singleton is set before it is pinged, so others use it meanwhile. `Send` takes the time
stamp; `Execute` is the pipeline (MULTI/EXEC) taking effect and answering, `AnswerLost`
its effect without an answer, after which redis-py sends it again; `Refuse` and `Fails`
follow. `entries` is the sorted set, whose members are time stamps, so that two
requests of one instant are one member; `expires` its key's time to live. `Tick` does not let
a command outlive `MaxDelay`, which stands for `socket_timeout` and the repetitions
of redis-py. `sent` and `admitted` are history. The process starts with
`_last_connection_attempt = 0` on a monotonic clock that may have just started too
(`last` is 0), which counts as an outage.

Abstractions: one client and one key, since keys share nothing but the Redis client; one
clock for `time.time()` and `time.monotonic()`; the value of `Retry-After`.

### Checkout

`Hit`, `Miss`, `Load` and `Store` are `get_current_tenant`; `view[r]` is the
`stripe_customer_id` of the tenant object of `r`, which belongs to its session
(`loaded`) or comes from the cache. Then `create_customer`, `commit`, `refresh`,
`create_checkout_session` or `create_portal_session`. `FailsAfter` is a call that
took effect and raised. `column` is what is committed, `stored` its history.

Abstractions: one tenant; prices, URLs and metadata; a wrong API key is one of the
failures. `StripeService` awaits what its client returns, as the tests stub it; that
client's `create` calls in the locked `stripe` 15.5.1 are not coroutines, so that
against the real one each of them would raise after it took effect, which `FailsAfter`
and `Fails` also allow.

## 3. Runs

| Run | Question | Instance |
|---|---|---|
| `meter_faults` | How far can a quota be overrun, what does a refused request leave, is the table the ledger promised? | 3 requests in 3 scenarios, 2 connections, quotas 1 to 3, 2 months, a lapsing subscription, every failure |
| `meter_replay` | Do retries of one key, with Redis forgetting, all name one event, and does every request end? | 3 requests on 1 or 2 keys, 2 connections, downgrade, 2 months; no failing commit |
| `webhook_serial` | When deliveries do not overlap, does every event take effect once and as a whole, and is it acknowledged? Do the rows end as Stripe left them when it kept the order? | 2 histories of 5 events delivered in order, one of 4 in any order with repetition, 2 failures |
| `webhook_races` | Overlapping and reordered, do effect and marker stay together, on the right row? | 2 histories of 4 events, 2 workers, 1 failure |
| `rate_limit` | Does any window hold more than the limit, is anyone refused for old requests, when is the limiter off, how long does a Redis that cannot be reached hold requests up? | 2 requests at once, limit 2, window 5, delay 2, cooldown 4, 7 instants, outages and lost data |
| `checkout` | Whose customers get sessions, and does the tenant's customer settle? | 3 requests at once, 4 customers, expiring cache, every failure, crashes |
| `usage_report` | Do the parts of a report agree, and is it ever ahead of the table or of another month? | 2 readers, 2 rows, 2 months, expiring cache |
| `meter_quota_race` | finding | overlapping requests exceed the "absolute" boundary |
| `meter_replay_refused` | finding | a retry of a recorded request is answered 429 |
| `meter_lost_event` | finding | a failing commit leaves a success without an event |
| `webhook_duplicate` | finding | overlapping deliveries both take effect, then the lookup raises for ever |
| `checkout_upgrade` | finding | a checkout of a tenant with a row under no Stripe id is answered 500 |

`findings` in `PROJECT.json` quotes, for the last five, the sentence of the
repository that the run refutes.

**What holds.**
- `OvershootBounded`: in the current month a usage type exceeds its quota by at most
  `MaxQty` for every connection of the pool but one.
- `RefusedNotCharged`, `LedgerSpec`: whatever fails, a refused request has no row, a
  slot is charged once and the current month stays under its ceiling.
- `AnsweredIsRecorded`, `RepliesNameOneEvent`: without failing commits, every 200
  names the one recorded event of its slot.
- `AckedIsProcessed`, `RowsMoveWithMark`, `ColumnsFromEvents`: no event is
  acknowledged without its effect, no effect committed without its marker, and no
  delivery writes to a row of another subscription.
- `MirrorSpec`, `AppliedOnce`: when deliveries do not overlap, in any order, the table is
  the mirror `SubscriptionMirror` promises; `InSync`: when they come in order too, each row
  ends with the status of the last event of its subscription and the plan of its last
  checkout, or update with a price.
- `WindowLimit`: at most `max_requests` instants pass in any window of
  `window_seconds` less `MaxDelay`. `NoFalseRefusal`, `FailOpenBounded`. `HangBounded`:
  until a ping has been answered, a failed attempt to reach Redis holds up the request
  that pings and those that took the singleton meanwhile, for at most two delays.
- `SessionsOfTenant`, `SettledForGood`: of the customers that overlapping checkouts or
  checkouts of a cached tenant create, only committed ones get sessions, and once
  nobody holds a record without a customer, no other is created and none replaced.
- `DriftBounded`, `TotalsAgree`, `ReportOfThisMonth`, `NeverAhead`: section 5.
- Liveness: `AllAnswered`, `AllAcknowledged`, `SettlesEventually`.

**Bounds and why they are enough.** Three requests on two connections are the least that
overrun a quota together, wait for a connection, and leave a third to observe it;
quotas of 1 to 3 put the boundary within reach of two requests of 1 or 2 units; two
months let a request straddle midnight once. Two workers are enough for deliveries
that overlap, since a step depends on at most one other uncommitted write. Two rows put
different rows before, between and after the statements of a report, and the prices of
`MCUsageReport` are chosen so that two rows show the rounding to micro-units and
to cents. Seven instants, a window of 5 and a delay of 2 are the least at which a late pipeline
finds two entries of its own window gone: there `WindowLimit` fails for the full
window. Three requests let one checkout commit over another while a third stores the
record of before; `MaxCustomers` stops arrivals once four customers exist or might,
while with fewer they go on for ever. Requests, histories, customers and rows are
finite, so the `meter_*`, `webhook_*` and `checkout` instances stop when they are used
up: they run with `CHECK_DEADLOCK FALSE`; that no one waits for ever is `AllAnswered`
and `AllAcknowledged`. `usage_report` and `rate_limit` check deadlock.

**Fairness.** `Metering!FairSpec`: the asyncio loop resumes a request that can go
on (weak fairness for each, once it has arrived); no client has to send. A waiting
insert or connection is disabled until its holder ends, which the same fairness
brings about. `Webhook!FairSpec`: handlers run on; Stripe emits its history and delivers
each event until it is acknowledged (strong fairness, since Stripe retries an event on
its own schedule, whatever else keeps the worker of the bound busy); failures are bounded
by `MaxFailures`. An event whose status the enumeration does not know raises on every
delivery and is never acknowledged: it appears in `webhook_races`, not in
`webhook_serial`. `Checkout!FairSpec`: requests run on, and a cache entry
expires; a later `cache_set` renews its time to live, but only requests that read the
old record can renew that one, and there are finitely many. No client has to send
and nothing has to succeed.

## 4. Deliberate limits of the properties

`OvershootBounded` speaks of the current month only: a request that began before
midnight charges the month it began in after reading the next one. A request
admitted on an active subscription is served although it lapses before the insert.
An amount of tokens is bounded for each token type by itself, since `check_quota` compares
the usage of one type with the limit of all (`README.md:190` of the repository counts
them together). Out of order, an update of a row that does not exist yet is marked as processed and
lost; `InSync` is therefore stated of ordered deliveries. Two overlapping updates of a
row, each of which writes only the columns it saw differ, can leave some columns of
each; `ColumnsFromEvents` says where each came from, not that they belong together. A report may be up to 30
seconds old (or older by the time it took to put it together), also after a
change of plan: `EVIDENCE.md:87` says `GET /usage` shows new limits at once, but
nothing invalidates its entry.

`WindowLimit` counts instants, as the sorted set does, and forgets them when Redis loses its
data. A refused request is recorded too: a client that keeps sending above the limit
stays refused, and one that waits for `Retry-After`, the moment at which the oldest entry
leaves, may be refused again because its own entry took the place. Two requests of one
instant are one member, so more than the limit may pass in a single instant.

`HangBounded` is about a connection that never answered. While a ping hangs, other
requests take the singleton un-pinged and hang in their pipelines too. Once a
ping has been answered the singleton is never reset: in a later outage every request
waits up to `MaxDelay` for its own command before it passes, and the cooldown of
`get_redis` does not apply.

`SessionsOfTenant` allows a session for a customer another checkout has replaced:
two overlapping checkouts of a new tenant each commit their own, and the first may
have a session for the one that is gone from the column. Nothing bounds the
customers created before the tenant settles: for up to 60 seconds after any request of a
tenant without a customer, each checkout finds the cached record, creates a
customer, commits nothing and is answered 500 by `refresh`;
`tests/integration/test_checkout.py:42` makes the first request of its tenant, so no
record is cached when it expects its 200.

## 5. Theorems

For every value of the constants, under the named assumptions of the modules
(`ReqAssumption`, `BoundsAssumption`, `PlanAssumption`, `EnvAssumption`;
`PriceAssumption`, `TableAssumption`, `OutputPriceAssumption`, `NoReportAssumption`;
`HistoryAssumption`, `UniqueAssumption`, `NullAssumption`, `DeliveryAssumption`,
`OrderAssumption`; `LimitAssumption`, `RequestsAssumption`; `BoundsAssumption` and
`AbsentAssumption` of `Checkout`), which TLC evaluates in every run. They give the constants
their types, keep the null values apart from the others, and say of the data what the
schema and Stripe do (`UniqueAssumption`: the unique index on `stripe_subscription_id`;
`OrderAssumption`: section 2). Each theorem follows from an inductive invariant `IndInv`,
the conjunction of the parts named below, the type invariant and the properties that are
inductive with them. Those of `Metering`, `RateLimiter` and `Webhook`, `SerialInv` and
`SyncInv` were checked by TLC on the instances of the runs before they were proved.

**Metering** (`MeteringProofs`). `Spec => []IndInv`, from it
`[]OvershootBounded` and `[]RefusedNotCharged`. `OvershootBounded` is not
inductive: it says nothing of the requests between their check and their commit.
`CoverInv` does. `Admitted(t)` are the requests that have passed the check for `t` and
may still charge the current month; `Covered` says that charging `MaxQty` for each of
them stays under the ceiling, or does so when the one admitted *last* is charged just
what it asked for. When a request is admitted, the sum it read plus its own quantity
is within the quota, and the others each hold one of the `PoolSize - 1` other
connections (`PoolInv`, `PhaseInv`): the second disjunct holds. A commit moves a
quantity from the admitted requests to the table, a failure only removes
requests, a new month begins with no admitted request and no usage (`FutureInv`).

**Ledger** (`MeteringLedgerProofs`). `Spec => LedgerSpec`: a commit of a row is a
`Charge` (its slot is new by `SlotInv`, its month under the ceiling by `CoverInv`),
`NextMonth` is itself, every other step a stutter. `AnsweredRecorded` and
`OneEventPerSlot` prove their properties under `~MayFail`, without which
`meter_lost_event` refutes the first.

**Costs and reports** (`UsageReportProofs`). A cost is the natural number nearest to
the exact one (`Nearest`), from which: more units never cost less (`Monotone`); billing
in two events instead of one changes the cost by at most one micro-unit (`SplitDrift`);
a month's stored costs are within half a micro-unit a row of the exact cost
(`Drift`). `ReportInv` follows a report through its statements: what the
total was the cost of (`Priced`, some amounts between those read before and those
there now), what the parts are, and that the table only grows, so that a stored report
stays true. From it `NeverAhead`, `ReportOfThisMonth`, and `TotalsAgree`: when the
statements saw the same rows, total and parts differ by less than two cents and half
a micro-unit for each row and each of four parts. `ReportInv` quantifies over
amounts, an infinite set, so TLC checks its consequences and not `ReportInv` itself.

**Rate limiter** (`RateLimiterProofs`). All of `TypeOK`, `WindowLimit`, `NoFalseRefusal`,
`HangBounded`, `FailOpenBounded`. The window rests on `KeptInv`: an admitted stamp within a
window of the clock is still a member of the sorted set and its key has not expired,
because a pipeline removes what is older than a window before its own stamp, which is
never later than the clock. So a pipeline counts every admitted stamp of the
window that ends now, except those older than its own stamp by a window, which a window
shortened by `MaxDelay` (`WaitInv`) does not contain. For `FailOpenBounded`,
`PingInv` says that whoever pings set the singleton and made the last attempt, and
`OutageInv` that without the singleton Redis has been out of reach since that attempt.
For `HangBounded`, `OnePing` says that nobody else pings, so that the singleton is gone
when the ping fails, at most `MaxDelay` after the attempt, and `HangInv` that whoever
still waits then has a stamp from before.

**Checkout** (`CheckoutProofs`). `ColumnInv`, `CacheInv` and `ViewInv` say that the
column, a cached record and the object of a request that opens a session hold
customers that have been stored, a new one on its way to the column excepted; from them
`SessionsOfTenant`. A settled tenant stays settled step by step, since no request is left
that could create, commit or cache anything else (`SettledStep`).

**Webhook** (`WebhookProofs`), for any number of overlapping deliveries. `WriteInv` says
what an uncommitted write is (`Fits`): what its event says, of a row that is absent if it
inserts one, and of its own subscription if it updates one. That stays true while
others commit because no two uncommitted writes are of one row (`LockInv`, from
`Unlocked`). The commit is the only step that moves a row (`TableStep`), so
`RowsMoveWithMark` and `ColumnsFromEvents` follow; `AckedIsProcessed` does because an answer
comes after a marker that was found or committed. `AtMostOnce` proves `AppliedOnce` for
behaviours in which no two deliveries *of one event* overlap (`Exclusive`), whatever else
does; without that hypothesis `webhook_duplicate` refutes it.

**Mirror and Stripe** (`WebhookMirrorProofs`, `WebhookSyncProofs`), for deliveries that do
not overlap (`Serial`, that is one worker). `SerialInv`: what a handler has read is still so
when it writes (`Fresh`), and a write about to commit is just the mirror's step for its
event (`Effect`). So a commit is an `Apply` of `SubscriptionMirror`, and every other
step a stutter. Where deliveries are also in order, the processed events are the first of
the history (`InOrder`), a subscription has one row (`UniqueRows`), and the row holds what
the latest of them say (`Agreed`), since none of them can be ignored (`Effective`); when
all are acknowledged this is `InSync`. The hypothesis is needed: with two workers TLC finds
that a duplicate which has passed the lookup before the first delivery's commit, and
is then held up, writes after later events have been acknowledged, so that a checkout
makes a cancelled subscription active again.

**Model-checked only.** Liveness (`AllAnswered`, `AllAcknowledged`,
`SettlesEventually`), which needs fairness and `ENABLED`, out of the prover's reach. Every
other property of a passing run is a theorem.

## 6. Plan

Done: all modules of section 2, their runs, and the theorems of section 5. What would say
more:

1. `AnsweredIsRecorded` for behaviours in which no commit fails, rather than for
   constants that rule failures out.
2. The mirror for deliveries that overlap but are of different subscriptions, which
   touch different rows.
3. Two tenants that share the pool, to let one tenant's waiting rows delay another.

## 7. Not modelled

Health, logging, request ids, error and header checks (no state); `POST /tenants`, which
never inserts (`api/v1/auth.py:27` gives the repository no email, and raises); key hashing
and signature checks (library functions); `close_redis` and the cache deletions (at
shutdown, or of keys that nothing writes); migrations, seed and demo (run once, alone).
`with_db_retry` is a longer wait for a first connection or a second error on
an aborted transaction. The answer of `GET /tenants/me` is formatting; with a
cached tenant it has no creation time to format.
