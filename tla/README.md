# Verification of go-modules

`go-modules` is a library of adapters for Go services: a transactional outbox
over NATS JetStream, NATS and SQS workers, a JWT authenticator, an HTTP server,
persistence and small utilities.  This directory holds TLA+ modules that model
its concurrent and failure-prone parts, TLC configurations that check them on
small instances, and TLAPS proofs of their safety properties for every
instance.  `PROJECT.json` lists components, runs, hazards, findings and the map
from definitions to source lines.

## Inventory

| Component | State | Operations | What is hard | What makes it correct |
|---|---|---|---|---|
| Outbox: `gorm_outbox` (Storage, repository, Relay), `persistence/uow`, `outbox_queue` | `outbox_events` rows (`published_at`, `failed_at`); each relay's batch and context | `Store`/`Enqueue` in a unit of work; `Start`, `Stop`, `loop`, `drain` | several replicas list the same rows; crash between publish and mark; a publish times out but arrives; ids drawn in another order than commits; one bad row among good ones | no committed event is lost; causal order; duplicates only when the Duplicates window closes; every event leaves the poll |
| Task worker: `nats/queue_subscriber.go`, `failed_message.go` | subscriptions, WaitGroup, context; `failed_tasks` rows; the durable consumer's delivery counts | `Start`, `Stop`, `handleMessage`, `ack`, `term`, nak, `deadLetter`, `save` | redelivery after AckWait while a handler runs; crash between dead letter and Term; lost replies; the last attempt; Stop racing a delivery, or taking the consumer with it | a task leaves the stream handled or dead-lettered, with one row when its envelope has a UUID |
| Object-event worker: `sqs/poller.go` | the batch, the context and `done`; the queue's visibility | `Start`, `Stop`, `run`, `processBatch`, `processMessage`, `deleteMessage`, `parseS3Records` | visibility timeout inside a batch; two replicas with one message; deletes that fail or have no effect; Stop inside a batch; one record of several failing | no record lost, records in order, no message retried for ever |
| JWKS cache: `iam/validator.go` | `keys`, `mu`, `fetchMu`, `lastFetch` | `validate`, `getKey`, `fetchKeys` | stale first look; many misses at once; key rotation during a fetch; failed fetch | fetches spaced by the cooldown, cache never older, refusals justified, no lookup stuck |
| Event subscriber: `nats/event_subscriber.go` | subscriptions, WaitGroup, context | `Start`, `Stop`, `handleMessage` | endless immediate redelivery; stale copies; a cancelled context before the unsubscribe; Stop race | an event is forgotten only handled or rejected; repetitions are paid for by failures; no event is abandoned |
| Authentication: `iam/iam.go`, `userinfo.go`, `echo/authenticator.go`, `guards.go`, `token_authorizer` | the actor in the request context | `Authenticate`, `EnsureRoles`, `Authorize`, guards | order of the checks, optional authentication, failing user-info calls | a route is served only with the rights the identity provider vouches for; one principal per request |
| Units of work and the event bus: `persistence/uow`, `inmem_event` | the transaction in the context; the handler table | `Do`, `ORM`; `Subscribe`, `Publish`, `PublishAll`, panic recovery | a subscriber that fails after others wrote; a `Do` inside another one; a lost answer to COMMIT; a registration during a publish | a unit and the reactions to its events commit together or not at all; no connection is lost; nested units do not block each other |
| Connector and migrator: `persistence/connector`, `persistence/migrator` | the pool; a dedicated connection per command | connector `Start`, `Stop`; `Status`, `Migrate`, `Rollback`, `Fresh` | paths that do not give the connection back; two instances in one command | every connection in use has an owner, with the one leak named |
| Object storage: `s3` | the bucket | `Move`, `Delete`, `UploadURL`, `DownloadURL` | four requests that may each fail after they took effect; a copy that is reported and not there; overlapping moves and uploads | a move onto a vacant key never loses the object; the one loss onto an existing object is named |
| Process life cycle: `app`, `echo/server.go`, `sentry` | listeners, signals, result of the command, reports | start, run, stop, exit | signal against result, a stop that fails half-way, listeners that open late, a panic | the pool outlives the requests; each failure is reported once; the process ends |
| Routers and registrar: `messaging_router`, `objectstorage_router`, `worker` | tables that are filled before the start | `Register`, `Handle` | | not modelled: string matching on constant tables |
| Configuration, logging, random, clock, validation, errors | none | | | not modelled: pure or I/O |

How they interact: a use case runs inside `unitOfWork.Do`, stores events and
tasks through the ambient transaction (`uow.ORM`), and the relay of every
replica polls the table and publishes to JetStream.  The task worker and the
event subscriber of other services consume what was published; S3
notifications arrive through SQS.  Incoming HTTP requests are authenticated
through the validator, whose cache all requests share.  Inside a process, use
cases publish domain events on the in-process bus, whose subscribers run in the
publishing transaction or call further use cases; requests, commands and
migrations share one connection pool, which the process closes when it stops.

## Modules

| Module | Models |
|---|---|
| `OutboxContract` | abstract specification: events are staged, committed together or dropped, delivered after the events committed before them, retired once delivered or unsendable |
| `OutboxRelay` | units of work, JetStream's Duplicates window, and any number of relay replicas, one step per statement, publish or wait |
| `TaskContract` | abstract specification: a task is attempted a bounded number of times and settled for a reason that exists by then; it is opened again only with its whole subject, at most once per failure |
| `QueueSubscriber` | one worker process on the durable consumers of its subjects |
| `JwksCache` | any number of requests inside `getKey`, the endpoint that rotates keys, a clock |
| `ObjectEventContract` | abstract specification: the records of a message settle in its order, and it is removed once, when none is left |
| `SqsPoller` | replicas that poll one SQS queue |
| `EventContract` | abstract specification: an event is acknowledged or terminated for a reason, opened again only with its whole subject, and handled again only after a failure |
| `EventSubscriber` | one event subscriber process on the durable consumers of its subjects |
| `RequestAuth` | a request from its bearer token through middleware, guard and use case, while the identity provider changes roles |
| `ConnPool` | the connection pool, shared by the next two |
| `UnitContract` | abstract specification: a unit of work is decided once, in one step, with all its writes or none |
| `UnitOfWork` | goroutines that run use cases in nested units of work, and the event bus |
| `Migrator` | the four migration commands and their connections |
| `ObjectMove` | `Move` and `Delete` against an object store that other clients write to |
| `AppProcess` | composition: a server or console process from start to exit, with all of the above running in it |
| `MC...` | instances for TLC |
| `...Proofs` | theorems checked by TLAPS |

**OutboxRelay.** `nextId`, `staged`, `committed`, `published`, `failed` are the
table (`staged` per open transaction, since a poll sees committed rows only).
`copies`, `dedup`, `expired`, `inflight` are the stream: a message is stored
again only outside its Duplicates window, and a publish whose acknowledgement
timed out may arrive later.  `pc`, `batch`, `full`, `cancelled` are a replica's
goroutine; `drain` is split at every database call and publish (`DrainList`,
`Quarantine`, `Publish`, `MarkPublished` and their failing variants), `loop`
gives `Wake` and `Quit`.  `preds` and `seen` are history variables for the
properties.  A failed update may have been applied.  `Crash` and `NewRelay`
replace the process.

**QueueSubscriber.** `st`, `num` are the consumer's view of each task; `buf` is
the client's buffer; `at`, `msg`, `att` are the goroutine of each subscription.
`Pop` (the client's dispatch) and `Begin` (`wg.Add`) are separate steps, as in
the code.  Delays are left out: a message that may come back may come back at
once.  Only one process runs at a time.  `gone` holds the subjects without a
durable consumer, as in `EventSubscriber`: an `Unsubscribe` may delete the
consumer, with its delivery counts and what it knew to be settled, and replies to
it have no effect afterwards.  `Malformed` envelopes do not parse; `Unkeyed` ones
yield no UUID, whether or not they parse (a wrong type in another field leaves the
id readable).  For an unkeyed one `deadLetter` mints a new id, so that `save` cannot
find the row of an earlier attempt.  `calls` (calls
of `handleMessage` per task) and `deletions` (per subject) are history.

**JwksCache.** A key set is a version number and the cache is the version it was
filled from, so "older" is an order on numbers.  Each statement of `getKey`
between two lock operations is a step.

**SqsPoller.** `receipt[m]` is the poller with the latest receipt handle of `m`,
so a delete with another one may have no effect.  `todo` is what is left of the
message in hand.  The outcomes nil, AppError and "no route" are one action
(`Handle`), since the code continues in all three; another error is
`HandleFails`.  Failing calls under a cancelled context are modelled, and a
failed call may have reached the queue.  Life cycle hooks call `Start` once per
process; a second `Start` would replace `cancel` and `done` and leave the first
goroutine running.

**EventSubscriber.** As `QueueSubscriber`, with a bag of buffered deliveries
(`buf[m]` counts copies), no delivery limit and no dead letters.  `gone` holds the
subjects whose durable consumer does not exist: the client may delete a consumer
it created when it unsubscribes, and a new one starts from the beginning of the
stream, so both outcomes are allowed.  An AckWait that passes while the delivery
is still in the process is counted in `late`, one that passes after it was lost
is not.  `NewEventSubscriber` and `Stop` are the two uses of the lifetime context.

**RequestAuth.** `tok`, `claimed` are the token and the roles in it, `roles` the
roles at the provider now, `held` (history) the roles the subject had whenever
the provider was asked.  A userinfo answer may name the actor's subject, another
one, or none: `EnsureRoles` refuses only the second, so that `unnamed` (history)
keeps the roles of the third apart.  `Given` is what the provider gave for the
token in either way.  Each call that can fail or during which time passes is
a step: key lookup, claims, actor and provisioning, userinfo, guard, use case.  A
route may call `EnsureRoles` itself (`hydrate`), since the method is exported;
the middleware's own call is `mwEnsure`, which no request reaches (see
`findings`).  Roles and scopes keep their structure (admin prefix, service, name
or wildcard) and are compared as `hasValidScope` does.

**UnitOfWork.** `frame[j][d]` is the `d`-th `Do` that goroutine `j` is inside of:
waiting for BEGIN, in `fn`, publishing, or on its way out with an error; its
`staged` writes become visible with COMMIT.  `Top(j)` is the transaction that
`Inject` put into the context, so `ORM` writes to it.  `Publish` copies the
handlers (`Snapshot`), and `Subscribe` may come between two copies.  Use cases
and subscribers belong to the services: which events a use case raises and what
a subscriber does are constants, and each may fail or panic anywhere.  `owed`,
`succeeded` and `rolledback` are history.

**Migrator.** One stage for each call in `instance`, the operation, and `close`.
A failing `NewWithDatabaseInstance` leaves the connection in use, as the code
does, and counts it in `leaked`.

**ObjectMove.** One step per request.  A failed request may have been carried
out.  `CopyInvisible` is the case the code guards against with `HeadObject`.
`orig[j]` and `before[j]` (history) are what `j` found under source and destination,
and `alone[j]` says that nobody but `j` has changed the two keys since; no fault of
`j`'s own requests changes it.

**AppProcess.** `phase` is the main goroutine: fx's start hooks, the run, and the
stop hooks in reverse.  `service` (chosen in `Init`) is the process to look at:
its kind, its listeners, the work its goroutines may be given, and how many
signals arrive.  `Give` starts work in a component and `Work` takes a step of
it; an action of one component leaves the others alone, except for the pool.
`captured` and `buffered` are Sentry's reports.  For one listener, `Shutdown` is
two steps (`ShutListener`, `Drained`); `ShutdownFails` is `Server.Stop` returning
early, after which fx goes on or, when its context has ended, does not.
A signal during `app.Stop` of a console process does nothing when the result of
the command won the `select`, and kills the process after `signal.Reset`.

## Runs

| Run | Checks | Shows |
|---|---|---|
| `outbox_safety` | `TypeOK`, `NoEventLost`, `CausalOrder`, `CopyBound`, `ImplementsContract` | two sessions, two replicas, three rows (the second unsendable), batches of two, two faults, one expiry per message |
| `outbox_liveness` | `ContractSettled`, `StopTerminates` | the same with one replica and the first row unsendable, under `FairSpec` |
| `outbox_backoff` (violation) | `DbErrorsBackOff` | a failed mark is followed by no error backoff |
| `queue` | `TypeOK`, `ResolvedIsAccounted`, `DeadLetterOnce`, `ImplementsContract`, `EventuallyAccounted`, `StopReturns` | a well-formed and a malformed task on two subjects, two deliveries each, one fault (a Stop may delete either consumer), under `FairSpec`; the id of the well-formed one is no UUID, that of the malformed one is |
| `queue_stop_race`, `queue_exhausted` (violations) | `StoppedMeansDrained`, `ExhaustedHasRow` | two places where the comments promise more than the code does (see `findings`) |
| `jwks` | `TypeOK`, `FetchesSpaced`, `CacheNeverGoesBack`, `RefusalJustified`, `LookupsReturn` | two requests, two key ids, three key sets (one does not decode), under `FairSpec` |
| `sqs` | `TypeOK`, `NoRecordLost`, `ImplementsContract`, `EventuallyDeleted`, `StopTerminates` | two pollers, a message with two records and an empty key, a message with an undecodable key, two faults, one early expiry, under `FairSpec` |
| `events` | `TypeOK`, `RepeatsPaidFor`, `ImplementsContract`, `NeverAbandoned` | a well-formed and a malformed event on two subjects, two faults, one late AckWait, under `FairSpec` |
| `auth` | `TypeOK`, `GuardsHold`, `RestrictedStaysRestricted`, `OnePrincipal` | one request, two users, all token shapes, five routes, one role change |
| `app` | `TypeOK`, `UnitAtomic`, `PoolAccounted`, `MoveKeepsContent`, `DrainedBeforeClose`, `ConsoleReports`, `NobodyBlocked`, `CommandsReturn`, `ProcessEnds` | five processes with two goroutines and a pool of three, under `FairSpec`: use cases while a subscriber registers; two listeners and a signal; a use case beside a migration; two moves while a client uploads; a console command of any kind and two signals |
| `auth_admin_roles` (violation) | `AdminRolesCompleted` | an admin whose token omits the roles is refused |

In four runs `ImplementsContract` is the abstract specification of the component
under the refinement mapping of its `Contract` instance.  It says more than the
invariants beside it: what may not happen *after* a task is settled or a message
removed, and that a reason is there *before* the step that needs it.  What
earlier were invariants of their own (`ExhaustedOnlyBySilence`, `RecordsInOrder`,
`SettledIsAccounted`) follows from the contracts; it is still proved for every
instance, as a step of the refinement proofs.

Bounds.  `MaxFaults` counts crashes, Stops, errors and lost replies together:
two of them are enough for a failure during the recovery from another.  `queue`
has one: with two, its liveness properties take longer than the other runs
together, while its safety properties are proved for any number.  Two
rows per batch and three rows make full and partial batches; two deliveries
make a first, a last and a stale attempt.  Batches hold the smallest number of
elements in which one fails in front of, or behind, another.  One request is enough for
`RequestAuth`, whose requests share nothing but the provider's roles.  In `app`,
`MaxOpen = 3` is the pool of the tests (`testMaxOpenConns`), in which two nested
units fit and two nested units beside a leaked connection do not; `MaxDepth = 2`
is the smallest nesting, and a goroutine does one piece of work; every failure
may happen at every step, without a bound.  The five processes leave out the
combinations of work that share nothing (a move beside a unit of work).  The safety
properties do not rest on these bounds: they are proved for all of them.

Deadlock is checked except for the two NATS workers, which wait for ever once
every message is settled, for `RequestAuth`, whose requests end, for
`AppProcess`, whose processes end, and where the run's configuration says so.

Fairness.  A goroutine that can run, runs (`WF` on its next step: handlers, HTTP
and database calls return, timers fire).  An ended process is started again, as
the deployment does.  In `JwksCache`, `SF` on taking `fetchMu`: `sync.Mutex`
hands the lock to a starving waiter.  In `SqsPoller`, `SF` on being given a
message that is visible whenever a poller asks.  In
`EventSubscriber`, `SF` on taking a delivery off the buffer, which is first in,
first out; nothing is assumed of the handlers except that they return.  In
`AppProcess`, `WF` on the main goroutine and on each job: a job goes on while it
can, waits for a connection until there is one or the pool is closed, and its
requests to the object store return.  Weak fairness is enough for the wait,
since work is finite in a process that is looked at.  Failures carry no fairness, and
none is needed for Stop to return: timeouts of Stop are never assumed to fire.

## Proofs

Each `...Proofs` module proves `Spec => []IInv` for the inductive invariant of
its component and derives the properties.  The only assumptions are the named
`ASSUME`s of the component modules (types of the constants), which TLC evaluates
in every run.

* **OutboxRelay.** `IInv` adds to the properties `TableInv` (ids grow, open
  transactions are disjoint, a row's predecessors are committed and have smaller
  ids), `SentInv` (only committed, well-formed rows are sent or marked),
  `BatchInv` (what a row of a batch follows is in the stream or earlier in the
  same batch: this carries `CausalOrder` through replicas that hold overlapping
  batches) and `WindowInv` (copies are paid for by expiries).  `Refinement` shows
  that every step is a step of `OutboxContract` or a stutter.
* **QueueSubscriber.** `WorkInv` says what a goroutine has done before it
  replies; `FreshInv` says that until AckWait passes there is one live delivery
  of a task and it is the latest, hence the last attempt sees `MaxDeliver`;
  `AttemptInv` says that a delivery somebody still holds was counted, and that the
  goroutine with an outcome to write calls or records only what can be called or
  recorded; `GoneInv` says that a subject without a consumer has nothing delivered,
  settled or counted; `DeletionInv` that each deletion belongs to a Stop that was
  counted as a failure; `RowsInv` that every row, and every one still to be
  written, has a call of `handleMessage` of its own.
  `Refinement` maps the consumer's view of a task to open or settled, and the
  deletion of a consumer to `Forget`.
  The steps that need an argument are a Nak of a stale delivery and an AckWait on
  the last attempt: the contract lets the broker give up only on a task of which
  one attempt went unanswered, which `FreshInv` supplies.
* **JwksCache.** `HolderInv` and `MissInv`: the holder of `fetchMu` works with a
  `lastFetch` and a cache that nobody else changes.
* **SqsPoller.** `ProgressInv`: the records a poller has behind it are settled
  and lie in front of those it has not handled, and it deletes only when none is
  left; `SettledInv` and `RecordsInOrder` say that what has settled is a
  prefix of what the message sends to the router.  `Refinement` maps all replicas to one abstract worker: a
  record that a second replica handles again is a stutter, and a record that is
  new is the first one left, because the replica has settled records behind it.
* **EventSubscriber.** `PaidInv` counts, per event, successes so far, buffered
  copies, a copy in hand and a delivery the consumer still owes: the sum grows
  only when a failure is counted.  A process that is about to end keeps one unit in
  reserve for the reply it may lose; `GoneInv` says when that unit has been spent
  on a deleted consumer.  `EndingInv` says that a process that unsubscribes has
  counted its Stop or its failed Start.  `Refinement` uses `PaidInv` at the
  moment of a success (the copy in hand is paid for before it succeeds) and
  `EndingInv` at a deleted consumer, the only step that opens a settled event.
* **RequestAuth.** `PathInv` follows the token through the middleware, `ActorInv`
  bounds the actor by the token and by `Given`, `GuardInv` and `AuthorizedInv`
  carry the guard's and the authorizer's verdict to the end of the request.
* **UnitOfWork, Migrator, ObjectMove** (`AppWorkProofs`, lemmas only).  One lemma
  for each action, used by the composition.  `UowInv` says that the units of a
  goroutine's frames are distinct and that all but the last wait for a subscriber
  that calls a use case, that nothing of an open unit is decided or visible, and
  that what such a unit owes is in its `staged` writes, in the handlers it has yet to call or in
  the events it has yet to publish: this is what makes the commit complete, also
  when a subscriber is registered in between.  `UowActionContract` shows that every
  action is a step of `UnitContract` or a stutter; `UnitRefinement` carries it to the
  whole process.  `MoveInv` says, for a move that has
  its keys to itself, at which stage the content is under which key, and from which
  stage on an object that was there before may be in the place of the copy.
* **AppProcess** (`AppProcessProofs`).  `Inv` joins the invariants of the
  components with `PoolAccounted` (each step that takes or gives back a connection
  changes one of the sets it counts by one element), `OneTask` (a goroutine runs one
  piece of work), `LifeInv` (which listeners can take requests, and whose requests
  can be in flight, in each phase of the stop) and `ReportInv` (what has been
  captured and is still buffered before the exit).  `NobodyBlocked` is a counting
  argument on top of it (`BlockedHold`): when every running job waits, a job holds
  at most the connections of its outer calls of `Do`, that is `MaxDepth - 1`, and a
  migration that waits holds none; with the leaked ones these do not fill a pool
  that is `Roomy`.  It is the safety half of `CommandsReturn`.

Only model-checked: the liveness properties (`ContractSettled`, `StopTerminates`,
`EventuallyAccounted`, `StopReturns`, `LookupsReturn`, `EventuallyDeleted`,
`NeverAbandoned`, `CommandsReturn`, `ProcessEnds`), because TLAPS does not handle
fairness and `ENABLED` here.  The contracts carry no fairness for the same reason.
Every invariant, action property and contract of a passing run is proved.
`UnitRefinement` is only proved: the units of `UnitContract` are numbered without
bound, which TLC cannot enumerate; `UnitAtomic` is what the `app` run checks of it.

## Observations without a run

* A failed dead-letter write is logged and the task terminated
  (`queue_subscriber.go:266`): it then has no row, although
  `failed_message.go:13` says the table records every message given up on.
  `ResolvedIsAccounted` names the case (`saveFailed`).
* A message with neither metadata nor a parseable envelope is terminated without
  a row, although `queue_subscriber.go:165` speaks of a guarantee
  (`Unrecordable`).
* `deadLetter` mints a new id for every envelope whose id is no UUID
  (`queue_subscriber.go:243-250`), also for one that parses and is handled: each
  redelivery of such a task that ends in a dead letter adds a row.
  `DeadLetterOnce` bounds them by the calls of `handleMessage`.
* `Unsubscribe` deletes a durable consumer that the client created
  (`queue_subscriber.go:132`): after a restart, tasks that were acknowledged,
  terminated or exhausted come back, with their counts at zero.  `ImplementsContract`
  allows it once per failure, and only for a whole subject.
* `EnsureRoles` accepts a userinfo answer without a `sub` and takes its roles for
  the actor's (`iam.go:152`).  `GuardsHold` and `RestrictedStaysRestricted` count
  them as given.
* `docs/ARCHITECTURE.md:129` says a check "passes only if the required permission
  is in both `Scopes` (from token) and `Permissions` (from user)";
  `authorizer.go:37-46` lets service accounts and tokens of the standard sign-in
  flow pass without either.  `RestrictedStaysRestricted` states what is left: both
  lists, for restricted user tokens.
* A JWKS fetch runs under the context of one request and uses up the cooldown
  even when that request is cancelled (`validator.go:140`).
* One undecodable key drops the other records of an SQS message
  (`poller.go:210`).
* When the migration files cannot be read, `Migrator.instance` returns without
  closing the driver (`postgres.go:53`), and one connection is gone until the
  process ends; the comment at `postgres.go:59` describes what that does to small
  pools.  `PoolAccounted` names the case (`leaked`).
* A nested `Do` waits for a second connection while it holds the first.  With
  `n` goroutines, depth `d` and `l` leaked connections this cannot block while
  `l + n * (d - 1) < MaxOpen` (`Roomy`); beyond it, all of them can wait for each
  other until a context ends.
* `Server.Stop` returns at the first failing `Shutdown` (`server.go:60`): the
  listeners behind it stay open while the pool is closed.  `DrainedBeforeClose`
  is therefore stated for a stop without errors.  A listener that cannot open is
  only logged (`server.go:51`), and the process runs on without it.
* In `ConsoleApp.Run` a signal that arrives during `app.Stop` has no effect when
  the result of the command won the `select` (`console.go:60`), because
  `signal.Reset` was not called: the process then ends with the stop or its timeout.
* `Move` checks that something is under the destination, not that it is the copy
  (`s3.go:131-142`).  When a copy onto an existing object is reported and not
  there, the source is deleted and its content is lost, with nobody else acting,
  although `contract/storage/storage.go:17` says that Move "relocates a file".
  `MoveKeepsContent` states this as the only loss (`Shadowed`), and the `app` run
  reaches it.  A `Move` whose last answer was lost returns an error, and so does
  its repetition, since the source is gone.

## Not modelled

Payloads, logging, metrics and durations (a timer may fire at any time).
Several processes of a NATS worker on one consumer.  Message and object-event routers, subject names, the registrar of
workers, application errors, validation, configuration and logging: tables that
do not change while the process runs, string matching and formatting, where a
unit test reaches every case.  In `AppProcess`, the NATS and SQS workers as hooks
of the life cycle (their own `Start` and `Stop` are in their modules), middleware
that a service adds to the bus, constructors that fail before the start hooks
(`connector.New`), and the schema that migrations change.

## What is left

1. Composition of the outbox with the task worker and the event subscriber: a
   committed task is eventually handled or dead-lettered.
2. Several worker processes on one consumer.
3. The workers as hooks of `AppProcess`: their drains in front of the closing of
   the pool.
4. Proofs: abstract specifications of the key cache (a register that only moves
   forward) and of `Move` (a rename that happens once or not at all), with their
   refinements.
