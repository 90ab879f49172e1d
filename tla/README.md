# Verification of orderly

orderly takes orders over HTTP, carries each through a saga (reserve, charge,
confirm, announce, or compensate) in background jobs, and sends domain events
to webhook subscribers through a transactional outbox. This directory holds
TLA+ models of the paths on which its promises depend and of the mechanisms they
rely on (locks, circuit breaker, rate limiter, the order in which a process
stops), the configurations that check them with TLC, and proofs of their main
safety properties for every value of the constants.

* **The order saga**: `SagaEntities`, `SagaOrchestrator`, `SagaInvariants`,
  `SagaLedger`, `SagaLifecycle`; instances in `MCSagaOrchestrator`; proofs in
  `SagaSafetyProofs` and `SagaRefinementProofs`.
* **Event delivery**: `EventQueue`, `Outbox`, `WebhookDelivery`, `DeadLetters`,
  composed by `EventDelivery`; the abstract `EventLife`; instances in `MCEventDelivery`; proofs in
  `DeliveryProofs`.
* **Repeated requests**: `Idempotency`; instances in `MCIdempotency`; proofs in
  `IdempotencyProofs`.
* **Inventory calls and their locks**: `AdvisoryLocks`, `InventoryCalls`, the
  abstract `StockCalls`; instance in `MCInventoryCalls`; proofs in
  `InventoryProofs`.
* **Circuit breaker**: `CircuitBreaker`, `MCCircuitBreaker`, `BreakerProofs`.
* **The life of a process**: `Shutdown`, `MCShutdown`, `ShutdownProofs`.
* **Rate limiter**: `RateLimiter`, `MCRateLimiter`, `LimiterProofs`.

To check a run: `tlc -config retries.cfg MCSagaOrchestrator`. To check the
proofs: `tlapm SagaSafetyProofs.tla`. Paths below are relative to `src/` of the
repository unless they start with `docs/` or are upper-case names.

## 1. Inventory

| Component | Source | State it keeps | Operations |
|---|---|---|---|
| Order placement | `domain/services/order-service.ts`, `domain/repositories/order-repository.ts`, `domain/entities/order.ts` | `orders`, `order_items` | createOrder (order and `order.created` event in one transaction, then enqueue), updateStatus |
| Saga queue and worker | `infrastructure/queue/saga-enqueuer.ts`, `connection.ts`, `workers/saga-worker.ts` | BullMQ job `saga-<orderId>`: state, attempts, stalls | add, pick up, complete, fail, stall |
| Order saga | `domain/services/saga-orchestrator.ts`, `domain/entities/saga.ts`, `domain/repositories/saga-repository.ts` | `saga_instances`, `saga_steps`; a run's locals | startSaga, compensate |
| Inventory | `domain/services/inventory-service.ts`, `domain/repositories/inventory-repository.ts` | `inventory.quantity_available`, `quantity_reserved` | reserveInventory, releaseInventory, one SKU at a time |
| Advisory locks | `infrastructure/locking/postgres-advisory-lock.ts` | session-level Postgres locks, a TTL timer each | acquire, release |
| Payment | `domain/services/payment-service.ts`, `infrastructure/payment/stripe-adapter.ts` | the gateway's charges and refunds | charge, refund |
| Circuit breaker | `infrastructure/payment/circuit-breaker.ts` | consecutive failures, open/half-open/closed | execute |
| Admin saga routes | `api/routes/admin/sagas.ts` | none | compensate, list, get |
| Outbox | `domain/repositories/outbox-repository.ts`, `events/outbox/outbox-processor.ts` | `outbox_events.status`, `retry_count`; each processor's batch | createWithSql, getPending, markPublished, markFailed, resetForRetry, processBatch |
| Webhook delivery | `events/webhooks/webhook-dispatcher.ts`, `infrastructure/queue/workers/notification-worker.ts` | `webhook_deliveries`; each worker's deliveries in flight | dispatch, deliver, recordDelivery |
| Idempotent requests | `api/middleware/idempotency.ts`, `infrastructure/redis/idempotency-store.ts`, onSend hook of `api/server.ts` | Redis keys with TTL, UNIQUE key on `orders` | get, set |
| Dead letter routes | `api/routes/admin/dlq.ts` | none (failed jobs of three queues) | list, retry, delete |
| Rate limiter | `infrastructure/redis/rate-limiter.ts` | one counter per client and window | isAllowed |
| Payment and inventory job workers | `infrastructure/queue/workers/payment-worker.ts`, `inventory-worker.ts` | none | their queues have no producer |
| Startup and shutdown | `index.ts` | which parts run | main, shutdown |
| Money, SKU | `domain/value-objects/` | immutable values | add, multiply, compare |

**How they interact.** `createOrder` commits the order and its event, answers
the client, and adds the job. A worker of any pod takes the job and calls
`startSaga`, which calls inventory, payment and the repositories one await after
another; nothing but the single SQL statements and the two transactions is
atomic. The admin route calls `compensate` from the HTTP process on rows the
worker may be writing. Each transaction that changes an order's status also
inserts an outbox row. Every pod's `OutboxProcessor` polls these rows and adds a
`webhook-delivery` job with the row's id as job id; a notification worker takes
it, reads the subscriptions and POSTs to all of them at once. Administrators
retry and remove such jobs. reserveInventory and releaseInventory take a lock per
SKU, on whichever connection of the pool a statement gets. All charges of a
process share one circuit breaker. A signal stops the servers, the outbox loop,
the workers and the connections one after another, while all of them have work
under way.

**What is hard.** Runs of different orders compete for stock. A job is retried
from the beginning after a crash, a thrown error or a stall, and after a stall
the first run may still execute. The route writes whole step rows from what it
read earlier. A charge is captured and its answer lost. Several processors
work on the same rows, because the row locks of `FOR UPDATE SKIP LOCKED` end
with the statement. Every statement and queue call can fail with its effect or
without. A lock can expire under its holder, leak, or be freed by another call.
The breaker hears of a charge in another state than the one in which it admitted
it. Two signals run two shutdowns at once. The hazards are listed at their lines
in `PROJECT.json`.

**What makes them correct.** A saga is all or nothing; nobody is charged for
what is not reserved, and an announced payment is backed by a recorded one;
stock is never lost, and exact until a reservation fails; an order's status and
the event that announces it are written together; a job, an order and an outbox row each reach an end; an event
marked published was queued, stays in the queue until it was sent, and a
completed delivery job was sent to everyone. Inventory is right whatever becomes
of the locks; the breaker recovers and answers every charge; a process that exits
with code 0 has cut off no request and no job.

## 2. The order saga

### Model and code

| Module | Models |
|---|---|
| `SagaEntities` | the status types, the pure helpers on a step row (createStep, completeStep, failStep, markStepCompensated, ...), the UPDATEs `reserve` and `release` on an inventory row |
| `SagaOrchestrator` | everything that changes state: createOrder and its enqueue, the job, startSaga, compensate, the route |
| `SagaInvariants` | what a run's place says about its saga; the instance of the abstract specification |
| `SagaLedger` | the inventory table against what the sagas hold, as sets of units |
| `SagaLifecycle` | the abstract specification: the lives of a saga and of the announcements about an order |

A *flow* `<<s, a>>` executes on saga `s` on behalf of the worker or of an
administrator `a`. `pc` says which statement it is about to execute; every
`await` of `startSaga` and `compensate` is one action, so flows interleave
between any two statements. A saga's id is `<<order, run>>` since each run of a
job creates a saga of its own. `orders`, `outbox`, `sagas`, `steps`, `stock` are
the tables; `charges` and `refunds` are the gateway's books; `left`, `snap`,
`tries` are locals; `api` and `job` are where createOrder and the job are.
`held` records which items the saga's worker has reserved and not released. The
action of each statement and its lines are in `PROJECT.json` under `map`.

Failures: `Throw` (a statement throws, the job fails an attempt), `Crash` (the
flow's process dies before its next statement), `JobStalled` (the stalled-job
check finds a dead run's job), `JobStalledLive` (the lock expires although the
run executes; two runs then overlap, and only the job's owner can report),
`ChargeThrows` (a charge fails, possibly after it was captured), `EnqueueFails`,
`CancelFails` (the cancelling transaction fails and `.catch` logs it).

### Abstractions

* The jsonb values are written with `JSON.stringify` and a cast; they are taken
  to come back as written.
* A transaction is one step, its COMMIT: before it nobody sees the status or the
  event. `updateStatus` and `createWithSql` are both given the transaction, and
  transactions of one order that overlap wait for its row. `outbox` is in the order
  of the commits. `created_at` is NOW(), the time of BEGIN, which of two overlapping
  transactions may be in the other order: the order ends CANCELLED and the older of
  its events is order.failed. Nothing in the model reads `created_at`, and no
  property compares an order's status with its latest event by that column
  (section 11); `StatusCommitted` of the proofs compares it with the event
  committed last.
* An administrator can retry or remove a failed saga job through the dead letter
  routes with `?queue=saga-execution`. That is left out: the only thing that takes
  a job up again here is BullMQ.
* An advisory lock is only a possible refusal (`Contention`). Nothing in the
  model relies on a lock being held: the UPDATE of `reserve` checks and
  subtracts in one statement. `findBySku` and that UPDATE are one step. That this
  is enough is what section 5 shows: `InventoryCalls`, with the locks and every
  await, implements `StockCalls`, which is what `ReserveItem` and `ReleaseItem` do.
* One line per SKU in an order. Amounts are full or zero. An open circuit
  breaker is a declined charge. Metrics, logs and spans are left out.
* A statement that was committed but whose answer was lost is the same as a
  throw at the next statement, and is modelled so.
* The death of a pod is the death of its flows one after another.
* `Runs` is `1 .. JobAttempts + MaxStalled`. Each run but the last cost an
  attempt or a stall; `JobInv` states, and the proof confirms, that this bound
  never keeps a waiting job from being picked up.
* `MaxFaults` and `MaxCrashes` bound failures. No safety theorem depends on
  their values.

### Runs

| Run | Instance | Shows |
|---|---|---|
| `retries` | 1 order, 2 items, 2 attempts, 1 stall, 1 fault, 1 crash, locks refused, live stalls | `SagaIsWhole`, `CompensatedMeansReleased`, `PendingIsExplained`, `FollowsLifecycle` with up to three runs of one job, overlapping |
| `settles` | 2 orders, 2 SKUs of which 1 is listed, 1 unit; 1 attempt, 1 stall, 1 fault, 1 crash; fairness | `StockNeverVanishes`, `LedgerExact`, `JobSettles`, `OrderSettles` |
| `admins` | 1 order, 1 item, 1 attempt, 1 stall, 1 charge retry, 1 admin, 1 fault, 1 crash | the inductive invariant `IInv`, `PaidIsBacked`, `OneRunAtATime`, `ChargeOnlyWhenReserved`, `PaymentRecordSurvives` |
| `oversell`, `double_charge` | small, one property each | disagreements between the code and its documents, section 11 |

The bounds are the smallest in which the interesting cases occur: two orders and
one unit make one order fail; two items make a reservation or a release stop half
way; two attempts and a stall give a re-attempted job, a stalled one and two
overlapping runs; one administrator on two sagas of an order is already
concurrent with the worker at every statement; one fault and one crash can fall
at every statement. The theorems remove the bounds for what they cover.
`CHECK_DEADLOCK FALSE` is in every cfg because the system stops when all jobs
have ended and nobody places another order.

## 3. Event delivery

### Model and code

| Module | Models |
|---|---|
| `EventQueue` | the BullMQ queue `webhook-delivery` as `createQueue` and `createWorker` configure it: `add` with a job id is a no-op while a job with that id is in Redis, attempts, stalls, `removeOnComplete`, reports only from the owner; the bounds on failures, shared by both sides |
| `Outbox` | `outbox_events` and the processors: `Commit` (createWithSql), `Poll` (getPending), `GiveUp`, `Publish`, `Mark`, `Reset` as the awaits of `processBatch`; their failures |
| `WebhookDelivery` | a worker's job: `PickUp`, `Select` (the SELECT and the start of all deliveries), `Refuse`, `Post`, `Record` per subscriber, `Finish` (allSettled) |
| `DeadLetters` | the routes: `GetJob` finds a job in any state, `RetryJob` and `RemoveJob` act on it in a later step |
| `EventDelivery` | the composition, its properties and the invariants of the proof |
| `EventLife` | the abstract specification: what the header of `outbox-processor.ts` promises of one event |

A processor works through `todo` in the order of `created_at`, with the
`retry_count` it `seen` at the poll; `at` is its next await. `PublishThrows`,
`MarkThrows` fail inside the try block and lead to `Reset`; `BatchThrows` fails
outside it (`markFailed`, `resetForRetry`) and ends the batch; all of them with
the effect or without. `ProcessorDies` is the death of the process. `stop()` is not
in this module: it interrupts no batch, and closes queues the batch under way
opens again; that no batch begins after it is in `Shutdown`.

### Abstractions

* `getPending` runs on the pool, outside a transaction, so its row locks last
  only for the statement. `Poll` may skip any rows other processors are working
  on, since one of their UPDATEs may hold the lock at that moment. That is more
  than can happen.
* Events are numbers in the order of `created_at`; they are committed in any
  order. Payload and queue routing are left out: every event the code writes
  goes to `webhook-delivery`.
* All subscriptions are active, want every event and do not change: no code
  writes the table. `Blocked` are those `isBlockedUrl` rejects.
* An entry in `webhook_deliveries` is modelled by its existence, under the event
  (the column `event_id` holds the order's id). A refused POST is recorded by the
  try block and once more by the catch block; both steps are there, and the
  second changes nothing in the set.
* job.retry('failed') of BullMQ throws unless the job has failed, and does not
  give its attempts back; job.remove() throws while a worker has the job and
  removes any other, a completed one too, from the list `kept` as well.
* `sent` and `removed` are history.

### Runs

| Run | Instance | Shows |
|---|---|---|
| `delivery` | 1 event, 1 processor, 2 workers, 2 subscribers of which 1 is blocked, 2 attempts, 1 stall, 1 fault, live stalls, 2 administrators with 2 requests; fairness | `CompletedWasSent`, `AuditComplete`, `QueuedIsNotLost`, `FollowsEventLife`, `JobsEnd` |
| `pollers` | 2 events, 2 processors, 1 worker, 1 blocked subscriber, `MaxRetries` 1, 3 faults, 1 crash; fairness | the inductive invariant `DeliveryInv` (it contains `TypeOK` and `PublishedWasQueued`), `RetriesBounded`, `EventsSettle` |

Two workers are needed for a run that overlaps its successor, two subscribers
for a run cut short between them, two processors for stale counts and
overwritten statuses, three faults for a row retried beyond the limit and then
given up by another processor, two administrators for a job that is no longer
what it was when found. In `delivery` no worker dies: a live stall lets the job
be taken again at any place of a run that makes no further step as yet, which
includes what a death does to the job; `pollers` has the death itself.

## 4. Repeated requests

`Idempotency` models POST /api/v1/orders from the look-up of the key to the
response: `Get` (the middleware), `Insert` or `Reject` (the transaction and the
UNIQUE column), `Set` (the onSend hook), `Expire`, and their failures. A request
is a record of client, key, body and a number that tells repeats apart; an
order and a stored response are represented by the request they come from, so
`orders` and `cached` are sets of requests. The enqueue of the saga is in
`SagaOrchestrator`.

The Redis key is `idempotency:${clientId}:${idempotencyKey}`, and neither header is
validated. A client and a key are therefore sequences of the parts between their
colons, and `redisKey` concatenates them, as the template does with the strings:
the client `ann:x` with the key `k1` and the client `ann` with the key `x:k1` have
one entry (`sameSlot`). The column `orders.idempotency_key` has the key alone
(`taken`). The properties of a replay and of a conflict say which request is shown
(one with the same Redis key, and an order) and, of a request that is `alone`
under its Redis key, that it is the client's own. `PlainKeysAreAlone` says when
that is so: always, when keys are UUIDs as `docs/API.md` asks, or have no colon.

| Run | Instance | Shows |
|---|---|---|
| `repeats` | 6 requests: one sent twice, its key reused for another body; a client with the same key and two bodies; a pair that makes that client's Redis key; outages, deaths, expiry | `TypeOK`, `OneOrderPerKey`, `ReplayIsOriginal`, `ConflictIsReal`, `EntryStands` |

A property of two requests and the order between them needs three requests: the
one that placed the order, and two that race. A lost connection needs no action of
its own: GET and SET are sent again and have the same effect twice.

## 5. Inventory calls and advisory locks

`AdvisoryLocks` models `postgres-advisory-lock.ts` over database sessions. A lock
belongs to the session whose connection executed pg_try_advisory_lock; that
session may take it again, and gives one back per unlock. `acquire` picks any
session of the pod, `Unlock` again any of them, and an unlock by a session that
does not hold the lock does nothing. `releaseAll` is what the closures do before
their first await (mark released, clear the timer, issue the unlock);
`TimerFires` issues an unlock without marking the lock released, as the code
does, so that the holder unlocks a second time. `SessionEnds` frees what a closed
connection held.

`InventoryCalls` puts the loops of reserveInventory and releaseInventory on top:
`Acquire`, `FindBySku`, `Update`, `AllDone`, the finally block (`Leave`, `Unlock`
for each lock, `Return`), and `Throws` for a statement that fails with its effect
or without. `StockCalls` is the abstract specification: items one by one in the
order of their SKUs, each UPDATE atomic and never beyond what is available, true
only when all are done.

| Run | Instance | Shows |
|---|---|---|
| `locks` | 2 reservations in one pod with 2 sessions, 1 release in another pod; 2 SKUs with 1 unit available each; 1 expiry (a timer or a session), 1 fault; fairness | `LockInv`, `LocksExclude`, `TakesAreAtomic` (the refinement), `CallsReturn` |

Two calls of one pod show re-entrance and unlocks that free the other call's
lock; the call of the other pod shows exclusion; two SKUs show a call that is
refused with one lock held. `MaxExpiries` and `MaxFaults` bound failures only.

What the run and the proofs say of the locks is less than one may expect of
them: `LocksExclude` is about *sessions*. Two calls of one pod whose statements
get the same connection both enter the locked section, and once a lock was freed
under its holder nothing is excluded. `TakesAreAtomic` is why this does no harm:
the WHERE clause of the UPDATE, not the lock, protects the stock.

## 6. Circuit breaker

`CircuitBreaker` models the charges of one process under the policy of
`createPaymentResiliencePolicy`. The library (cockatiel 3.2) is external; its
transitions are those of its CircuitBreakerPolicy with a ConsecutiveBreaker:
closed admits, open refuses until halfOpenAfter, the first charge after that is
the test, others wait for its promise and execute again when it settles. From
the code come what is wrapped in what (the breaker around the retries, so that
several attempts are one result), what counts as a failure (a throw: an error
status is a result, `Answers`), and that charge turns every throw into a failed
payment (`Refuse`, `Fails`). `count` is cut at the threshold. `up` is whether the
gateway can be reached; it changes at any time.

| Run | Instance | Shows |
|---|---|---|
| `breaker` | 4 charges at a time, threshold 2, 1 retry; fairness; deadlock checked | `BreakerInv`, `ChargesAnswered`, `Recovers` |

Four charges are what it takes for an older charge to open the circuit during a
test and for a third to run the next test while a fourth still waits; with fewer
the charges are answered even while the gateway comes and goes. Threshold 2 tells
a failure that counts from one that opens. That no deadlock is found says little,
since the gateway may change at any time; that nobody waits for a test that has
ended is in `BreakerInv`.

## 7. The life of a process

`Shutdown` models `main()` of `index.ts` from startWorkers to process.exit. Tasks
(requests, jobs, compensations the admin route does not await, a batch) begin
and finish while each signal's shutdown passes its awaits: `Signal` (the servers
stop accepting), `ServersClosed`, `OutboxStopped` (the drain timeout is armed),
`WorkersClosed` (the pool is ended), `ConnectionsClosed`, `Exits`. Every signal
runs a shutdown of its own, beside the others. `BootFails`, `Killed`,
`UncaughtException` and `DrainTimesOut` are the other ways to end; `Killed` is
the default action of a signal before main() has installed its handlers, and
SIGKILL after the grace period (`k8s/deployment.yml`, line 29). `getSql` opens a
new pool when a task executes a statement after closeDatabase. What the tasks do
is in the other modules, for which an exit is a crash.

| Run | Instance | Shows |
|---|---|---|
| `shutdown` | 2 signals, 2 requests, 2 jobs, 1 compensation, the batch; fairness of the shutdowns | `LifeInv`, `CleanExit`, `DrainsInOrder`, `ShutdownEnds` |

Two of each are enough for one to end while another goes on. `ShutdownEnds` has two
hypotheses, because the code guarantees neither: each request ends (app.close()
has no timeout, and a handler may wait for Redis for ever), and so do the outbox
stop and the closing of the connections, which come outside the drain timeout.
What it shows is that jobs cannot hold the process up, nor one shutdown another.

## 8. Rate limiter

`RateLimiter` models isAllowed: `ReadClock`, `Incr`, `PExpireAt`, with `Tick` for
the end of a window. A request may read the clock in one window and count in the
next; an expiry in the past deletes the key. With the options of
`redis/connection.ts` a command whose reply is lost with the connection is sent
again on the next one, for as long as it takes: `ReplyLost` executes the INCR or
PEXPIREAT and leaves the request where it is, so that an INCR counts twice, and a
request that created the counter reads 2 and sets no expiry. A command that was
not executed is the request waiting. `RedisThrows`, which lets the request pass,
is an error Redis answers with, or a client that has been closed.

`LimitHolds` is about requests counted in the window they read: no window lets more
than `RateMax` of them through. It may let fewer: a request is turned away only
when those counted that passed, failed open or died, and the INCRs executed twice
(`extra`), make `RateMax`.

| Run | Instance | Shows |
|---|---|---|
| `limiter` | 4 requests of one client and 2 of another, `RateMax` 2, 2 windows, 2 failed calls, lost replies or deaths; requests of one client are symmetric | `LimiterInv` |

Two lost replies are enough for a creator that sets no expiry and a request turned
away with nobody let through in its place.

`CHECK_DEADLOCK FALSE` in `locks`, `shutdown`, `limiter` and `repeats`: calls
return, the process ends, requests run out.

## 9. Fairness

* `SagaOrchestrator!Fairness`: weak fairness of Enqueue, Pickup and JobStalled
  of each order and of the next statement of each flow. An await settles, workers
  take waiting jobs and BullMQ runs its stalled-job check every 30 seconds.
  Nobody is forced to place an order or to call a route, and no failure is forced.
* `EventDelivery!Fairness`: weak fairness of `processBatch` of each processor (a
  timer polls), of `dispatch` of each worker, and of JobStalled. `fetch` has a
  timeout of five seconds, so that a POST ends. A processor or worker that dies
  continues because its pod is started again. Administrators are not forced.
* `InventoryCalls!Fairness`: weak fairness of the next step of each call; a
  statement is answered or throws. No timer and no end of a session is forced.
* `CircuitBreaker!Fairness`: weak fairness of `Cool` (time passes) and of the
  next step of each charge under way. Nobody is forced to charge and the gateway
  does what it likes; the two liveness properties assume of it that it stays
  reachable from some time on, and `Recovers` that charges keep coming.
* `Shutdown!Fairness`: weak fairness of `ServersClosed` (app.close() resolves when
  its requests have ended) and of the end of the drain, by the workers or by its
  timer. No request, no job, no `stop()` of the outbox and no closing of a
  connection is assumed to end; `ShutdownEnds` has those that matter to it as
  hypotheses.

`Idempotency` and `RateLimiter` have no liveness property: a request is a
sequence of two or three awaits, each of which may wait for Redis for ever. Strong
fairness is not used. `JobSettles` and
`JobsEnd` hold since every failed run costs an attempt or a stall, and every
retry by an administrator one of a bounded number of requests; `EventsSettle`
since every failure that makes a row PENDING again adds a retry, and faults are
finite in the model.

## 10. What is proved

All theorems hold for any sets of orders, SKUs, administrators, events, pods,
sessions, workers, subscribers, charges and signals, any stock, limits and
numbers of failures, under the
named ASSUMEs of the modules (for example: quantities are natural numbers,
every order has an item, there is a processor).

**Saga.** `SagaSafetyProofs` begins with `TypeCorrect`, which needs no other
invariant: it includes that quantities never become negative, hence that the
CHECK constraints never fire. It then proves the inductive invariant `IInv`. The
safety properties are not inductive alone; each rests on what the place of a run
says:

* `JobInv`, `PlacedInv`, `OwnerInv` tie a job's run number to its attempts and
  stalls and a live run to the ownership of its job. From them `RunsAreSerial`:
  without live stalls at most one run of an order executes.
* `RouteInv` says that a call of the route is never in startSaga and has no
  items. With it `HeldInv`: what a run holds follows from its place. From it
  `ChargesAreReserved`.
* `PaymentInv` and `SnapshotInv` say what is on record of a payment at each
  place, and that compensate writes back what is still there. From them
  `PaymentStaysOnRecord` and `PaidOrdersAreBacked`.
* `StockIsNeverLost` is an invariant of each statement.
* `OutcomeInv` says what a run leaves behind: a run that has returned has decided
  its order (PAID or CANCELLED) or left its saga FAILED or COMPENSATING; without a
  failure it has always decided it, and none dies. A completed job has a run that
  returned, a failed one has a run that ended. From it
  `AbandonedOrdersAreExplained`: an order that is PENDING although nothing will
  carry it on (`atRest`) is so after a failure, and if its job completed, a saga of
  it is left FAILED or COMPENSATING, as when its cancelling transaction failed.
  The code does strand such orders (section 11); without a failure it does not.
* `RunsSuffice`: the bound `Runs` of the model never keeps a waiting job from
  being picked up, so that it hides no behaviour of the queue.

`SagaRefinementProofs` shows that without admin calls the model implements
`SagaLifecycle` (`RefinesLifecycle`): `StatusInv`, with "an order whose saga is
past the confirmation is announced paid", is inductive, and every step maps to
one lifecycle step or to a stutter.

It also proves, under the same assumption (`Admins = {}`), that a saga is all or
nothing. `PlacesInv` says of each place of a run which steps are begun, done or
failed (`rowsAt`) and what the saga still holds on its way back (`goodsAt`):
compensate finds no captured payment, writes back the rows it read, and marks
RESERVE_INVENTORY compensated only after the loop has emptied what was held.
COMPLETED and FAILED are each written at one place, where the rows already say
so, and no later step of any run touches that saga (`EndsWell`, `WholeFlow`).
From it `SagaIsAllOrNothing` and `CompensationReleases`; `SagaStatusFollowsRun`
states `StatusInv`. With the compensate route in use TLC finds both violated on the
instance of `admins`, so the assumption is needed.

The inventory is exact under the same assumption. What the sagas hold of a SKU is
a set of units, `unitsOf`, so that a reservation adds a disjoint set and a release
takes one away, and cardinalities follow without a sum over sagas. The
invariant that carries it is `HoldsExactly` (`RunsHoldExactly`): a run reserves an
item it does not hold, and its compensation releases items it holds, unless its
reservation had failed. Then `InventoryIsExact`: until a reservation fails,
quantity_reserved is what is held and the rest is available; the `GREATEST(0,
...)` of the release never hides anything. `NothingIsOversold` follows. The
hypothesis `NoneFailed` is the code's limit, not the proof's: run `oversell`
violates the conclusion after the first failed reservation.

**Delivery.** `DeliveryProofs` proves `DeliveryInv` (`DeliveryInvariant`):

* `knows(p)`: an event a processor is about to mark is queued, the count it
  read is never ahead of the row's, and it only publishes below the limit. From
  it `EventsPublishedAreQueued` and `FailuresUseRetries` (an event marked FAILED
  has used its retries).
* `holders(e)`, the processors that may still reset an event: each reset uses
  up one, and none is added once the row's count has reached the limit. So
  `retries[e] + Cardinality(holders(e))` stays below the limit plus the
  number of processors: `RetriesAreBounded`.
* `delivered(w)`: a delivery past its POST was sent, and without faults
  is recorded once settled. A job is completed only by a worker whose
  deliveries are all settled: `CompletedJobsWereSent`, `AuditIsComplete`.
* `KeptWasSent`: a completed job that is still in Redis was sent to everyone, so
  that dropping the oldest of them (`removeOnComplete`) loses nothing. With it
  `QueuedEventsStay`: a queued event that no administrator removed is in the
  queue until it was sent, also when two administrators act on what they found.
* `OriginInv`: whatever touches an event (a batch, the queue, a job, a worker)
  comes after the transaction that wrote its row. With the rest of the invariant
  it gives `RefinesEventLife`: processors, workers, queue and administrators
  together implement `EventLife`. The statements on a row map to `Publish`,
  `Retry` and `GiveUp`, an add to `Queue` (also one whose answer was lost), a POST
  to `Send`, the completion of a job to `Complete`, and everything else (polls,
  stalls, deaths, retried jobs, removed jobs) to a step that at most forgets
  completed jobs. The refinement needs that a late UPDATE, which looks at no
  status, still comes from a processor that knew enough (`ProcessorEffect`).

**Requests.** `IdempotencyProofs` proves `RepeatInv`: one order per key in the
table, only what has its order is stored or about to be (`SetInv`,
`CreatedInv`), and what each answer says of that order. From it
`KeysGetOneOrder`, `ReplaysAreOriginal`, `ConflictsAreReal`, and the action
property `EntriesStand`: two requests of one key never both have an order, so
the second never stores a response over the first. `PlainKeysAreAlone` is about
strings of parts: when keys have one part each, a Redis key ends in its key and
begins with its client, so that it comes from one pair.

**Inventory calls.** `InventoryProofs` proves `LockInv`. Its heart is `Backed`:
a session holds a lock at least as often as there are calls that took it there
and have yet to unlock it. An unlock on another connection of the pod only ever
leaves more locks than claims, never fewer, because the session that holds the
lock is the only one of which an unlock takes something (`OneSession`). It is
stated for SKUs whose lock was not freed under a call (`forced`), since a timer
or a lost session breaks it. From it `SessionsAreExcluded`. `CallsImplementStock`
is the refinement of `StockCalls`; it uses only `Placed`, where a call is and what
it has done, and nothing about locks.

**Circuit breaker.** `BreakerIsConsistent`: `BreakerInv` is inductive as it
stands; a half-open circuit has its test, waiting charges have the test they wait
for, and the closed circuit is below the threshold.

**Life of a process.** `LifeInvariant`: `StagesInv` says what has stopped for
good at each place of each shutdown, so that the steps of a second shutdown
find it stopped too. From it `CleanExitsCutNothing` and `DrainIsOrdered`.

**Rate limiter.** `LimitIsKept`: `CountInv` says that the counter of the current
window is the number of requests counted under its key plus that of the INCRs
whose reply was lost, which an expiry that arrives late cannot change since it
deletes keys of past windows only. With it `LimitHolds` is inductive: whoever is
let through was counted as one of the first `RateMax`, and whoever is turned away
found that many before.

**Only model-checked** are the liveness properties, because the prover does not do
liveness under fairness: `JobSettles`, `OrderSettles`, `JobsEnd`, `EventsSettle`,
`CallsReturn`, `ChargesAnswered`, `Recovers`, `ShutdownEnds`. Every invariant and
action property that a passing run checks is also a theorem.

Every property of a passing run can be broken by a plausible slip in the code.
The slips stand next to the actions they alter, marked `Slip:` in the modules,
and `PROJECT.json` lists which slip breaks which property.

## 11. Where code and documents disagree

Shown by runs:

1. `oversell`: compensate releases every item of the order, also those it never
   reserved; `GREATEST(0, ...)` hides it and another order's units become
   available (README.md, line 21, "zero-overselling").
2. `double_charge`: a re-attempted job starts a new saga and charges again
   (`saga-worker.ts`, line 13, "idempotent").

Read in the code, without a run of their own:

* The admin route rebuilds the context from `saga.metadata`, which is always
  `{}` (`sagas.ts`, line 152; `saga.ts`, line 54); nothing is released and the
  step is marked compensated (ADR-001, line 63).
* `updateStatus` is unconditional and `canTransitionTo` is never called: the
  second run of a job whose first run died after PAID finds the stock reserved,
  compensates and sets PAID to CANCELLED (`order.ts`, line 28, "Valid state
  transitions").
* A repeat that misses the cache, because the key has expired ("Treated as first
  request", `docs/API.md`, line 279) or the first request is not finished (line
  22), violates the UNIQUE constraint and is answered 500.
* Client and key are joined with a colon and not validated
  (`idempotency-store.ts`, line 21): a client `a:b` with the key `c` and a client
  `a` with the key `b:c` share a stored response.
* `created_at` of an event is the time its transaction began
  (`outbox-repository.ts`, line 67). When a payment and a cancellation of one order
  overlap, the order may end with the status of the one and the other's event as
  its latest; the webhooks are queued in that order.
* `Promise.allSettled` swallows failed deliveries, so that the retry of the job
  never happens (`webhook-dispatcher.ts`, lines 54 and 146).
* Nothing looks for orders whose job was not queued (`order-service.ts`,
  line 52); they stay PENDING.
* With Redis away "idempotency falls back to DB" (`docs/RUNBOOKS.md`, line 59)
  only in that the constraint refuses the repeat; `findByIdempotencyKey` is
  never called. Two clients with the same key exclude each other, because the
  constraint does not include the client.
* When the cancelling transaction fails, `.catch` logs it; the saga becomes
  FAILED, the order stays PENDING (`saga-orchestrator.ts`, line 218; ADR-001,
  line 64).
* The route checks the saga's status and compensates it later, when it may have
  moved on (`sagas.ts`, line 133; `docs/API.md`, line 249); its refund is of
  0.00 and is marked compensated (`sagas.ts`, line 165).
* The refund branch of a worker's own compensation is unreachable: a run
  compensates only when the payment step has not completed. A charge whose
  answer is lost is not refunded (`payment-service.ts`, line 60; ADR-001,
  line 66).
* A throw or a crash in the middle of a reservation leaves its units reserved.
* `docs/RUNBOOKS.md`, line 30, says a restarted saga continues from the
  persisted step. It starts again.
* `FOR UPDATE SKIP LOCKED` does not prevent two processors from working on the
  same event (`outbox-processor.ts`, line 12; `outbox-repository.ts`, line 75);
  the job id protects against a second delivery as long as the first job is
  still in Redis.
* Setting an outbox row back to PENDING (`docs/RUNBOOKS.md`, R7) does nothing
  for an event whose failed job is kept: `add` is a no-op and the row is
  PUBLISHED again.
* A refused delivery is recorded twice. `calculateRetryDelay` is never called.
  `OutboxProcessor.cleanup()` (ADR-005, line 45) does not exist. The routes of the
  dead letter queue look at `saga-execution` only when asked with `?queue=`
  (`dlq.ts`, lines 10 and 31, "across all queues"), and DELETE removes a waiting or
  completed job too, against its description (`dlq.ts`, line 112).
* An advisory lock does not exclude two calls of one pod whose statements get the
  same connection, and an unlock on another connection leaks it until that
  connection closes. "per-SKU advisory locks" (`inventory-service.ts`, line 30)
  protect less than they seem to; the UPDATE does it (section 5).
* Two tests of the half-open circuit can overlap, the success of the earlier one
  closes the circuit while the later is under way, and while the gateway comes
  and goes a charge can be sent from one test to the next without bound. Declined
  charges and 5xx answers are successes to the breaker, so the recipe of
  `docs/MANUAL_TESTING_GUIDE.md` (line 114) does not open it. "Retry: 3 attempts"
  (`circuit-breaker.ts`, line 34) is three retries after the first attempt. With an
  open circuit orders are cancelled with `circuit_open`; "Jobs remain queued"
  (`docs/RUNBOOKS.md`, line 79).
* The order of shutdown in the header of `index.ts` (lines 17 and 18) differs from
  its code: the outbox stops before the workers drain. app.close(), the
  outbox stop and the closing of connections have no timeout and are not covered by
  the drain timeout. process.exit(0) may cut off a
  compensation of which the administrator was told that it is triggered, and a
  batch. Until main() has finished a signal kills the process with its workers
  at work.
* The limiter is a fixed window, not the token bucket or sliding window of its
  comment (`rate-limiter.ts`, lines 11 and 12). An INCR sent after its window ended
  starts a new count under the old key. A process that dies between INCR and
  PEXPIREAT leaves a key that never expires, and so does an INCR whose reply is lost, since it
  is sent again and reads 2; it also takes the place of a request. With
  `maxRetriesPerRequest: null` (`redis/connection.ts`, line 12) a call waits for
  Redis to come back rather than fail open.

## 12. Not modelled

* Parts of modelled components: seedInventory (scripts and tests), the list
  routes and the health checks (they read only), the dead letter routes for the
  queues nobody adds to and for `saga-execution`, the payment and inventory job workers beyond the calls
  they make (nothing adds jobs to their queues), `calculateRetryDelay` and
  `failSaga` (never called).
* `Money` and `SKU`: decimal arithmetic of a library; amounts are full or zero in
  the saga, and no state of a model depends on more.
* Signatures, bodies, logs, metrics and tracing, schema validation, admin
  authentication, configuration, migrations and the deployment files.

Worth adding next: `Money` in cents against a reference.
