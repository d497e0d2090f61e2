# A TLA+ development of the e-commerce order backend

The repository is a NestJS API with PostgreSQL and RabbitMQ behind it: users sign
up, place orders that take products out of stock, and a worker in the same process
handles the orders in the background. This directory holds TLA+ modules that model
it, TLC configurations that check the models on small instances, and proofs that
TLAPS checks for every value of the constants.

Paths are relative to the repository; `orders.service.ts:62` is line 62 of
`src/orders/orders.service.ts`.

## 1. Inventory

| Part | Code | State | Operations | Interacts with |
| --- | --- | --- | --- | --- |
| Order creation | `orders.controller.ts`, `orders.service.ts`, the three repositories, `unit-of-work.ts` | `orders`, `order_items`, `products.stock`; per request a transaction, a pool connection, row locks | `POST /api/orders` | PostgreSQL; `RabbitMqService.send` after the commit |
| Orders worker | `orders-worker.service.ts` | `processed_messages`, `orders.status`; retry timers | deliver, dedup, process, ack, retry, dead-letter | `RabbitMqService.consume/send`, PostgreSQL |
| RabbitMQ client | `rabbit-mq.service.ts` | one connection, one channel (open, closing, closed) | init, assertInfra, send, consume, destroy | broker; used by creation, worker and debug endpoint |
| Debug endpoint | `debug.controller.ts` | none | `POST /api/debug/orders/process` | validation pipe of `main.ts`, `RabbitMqService.send` |
| Order reading | `orders.controller.ts:88-132`, `orders.repository.ts:62-98` | reads `orders` | get one, list a page | runs while orders are created and processed |
| Authentication, users | `src/auth`, `src/users` | `users`; tokens at the clients | sign-up, login, refresh, guards | guards in front of every other endpoint |
| Products | `src/products` | reads `products` | list | shares rows with order creation |
| Errors | `errors.ts`, `http-exception.filter.ts` | none | error to status | every endpoint |
| Migrations | `src/migrations`, `data-source.ts`, `compose.yml:58-67` | schema, executed migrations | run, revert; six `up`/`down` pairs | constraints that creation, worker and sign-up rest on; locks tables under the API |
| Seed | `src/seed` | rows of four tables | find or create | concurrent seeds, live data |
| Bootstrap | `main.ts`, `app.module.ts` | process | listen, shut down | closes the channel under the worker |

What is hard, and what each part has to get right:

* **Order creation.** A handler is a chain of some ten awaits, many handlers
  interleave, and each await may fail. Correct means: one order per (user, key) pair
  whatever is retried or runs at once; stock taken exactly once and never below
  zero; nothing left behind (row, lock, key, connection) by a handler that failed;
  an answer that is true, and one for every request unless the pool is starved for good;
  at most one message per order. *Not* promised by the
  code, although its documents say so: that a retry is answered, and that every
  order is published (section 6).
* **Orders worker.** At-least-once delivery, two copies of one message at a time,
  retries that are a new message and an acknowledgement, timers in memory. Correct
  means: one effect per message, no message lost, a bounded number of attempts also for a
  message without a counter, and every message settled while there is a channel.
* **RabbitMQ client.** A channel that is never reopened, and a shutdown that closes
  it under the handlers.
* **Order reading.** Pages are offsets into a table that changes, cut by one query and read by
  another. Correct means: a walk through the pages is exact when nothing changes, and misses
  or repeats an order only for a change that offsets cannot survive; a page is short before the
  last only for orders that were processed between its two queries.
* **Authentication, users.** Two sign-ups for one e-mail at once; a role that is copied into
  tokens and outlives its change; a row that is read, then used after the passwords have been
  compared; a session that outlives its account. Correct means: one account per e-mail and a
  true answer to each sign-up, whatever fails; tokens that stay those of the account that
  logged in; no admin access longer than an access token lives after the role is lost.
* **Seed.** Find-then-create without a lock, by several runs at once. Correct means: nothing
  twice, everything or nothing, no touching of customers' orders, no waiting for ever.
* **Migrations.** Statements that depend on what earlier ones left and on the rows there are,
  jobs that run at once because TypeORM takes no lock, and an API that goes on writing. Correct
  means: the schema is always that of the first k migrations, up or down; no row is lost or
  left in a form the next schema does not allow; a job fails for the rows only, and ends.

`PROJECT.json` lists the hazards one by one, at their lines, with the properties
that would catch each.

## 2. Plan

| Order | Module | What it is | State |
| --- | --- | --- | --- |
| 1 | `OrderLedger` | abstract specification of `POST /api/orders`, transactions in one step | done |
| 2 | `OrderCreation` (+ `MCOrderCreation`) | the handlers, the pool, PostgreSQL's rows and locks, the channel | done |
| 3 | `OrderCreationProofs` | inductive invariant and type correctness | done |
| 4 | `OrderCreationRefinement` | `OrderCreation` implements `OrderLedger` | done |
| 5 | `OrderCreationAccounting` | stock, connections and messages add up | done |
| 6 | `OrderTasks` | abstract specification of the worker: tasks that are held until done or dead | done |
| 7 | `OrdersWorker` (+ `MCOrdersWorker`) | broker, wire, handlers, retries, DLQ, shutdown; implements `OrderTasks` | done |
| 8 | `OrdersWorkerProofs` | inductive invariant of the worker, and that it implements `OrderTasks` | done |
| 9 | `OrderListing` (+ `MCOrderListing`) | pages of a listing while orders are created and processed | done |
| 10 | `OrderListingProofs` | the walk through the pages: exact, or off by what changed | done |
| 11 | `Seed` (+ `MCSeed`) | find-then-create by several runs at once, beside the API | done |
| 12 | `SeedProofs` | nothing twice, all or nothing | done |
| 13 | `Accounts` (+ `MCAccounts`) | sign-up race, login, refresh, guards, roles that change | done |
| 14 | `AccountsProofs` | inductive invariant of accounts and sessions | done |
| 15 | `Migrations` (+ `MCMigrations`) | the six migrations, jobs that run and revert them, rows, locks, the API beside | done |
| 16 | `MigrationsProofs` | no migration and no failure of one loses rows; the schema fits the history, the rows fit the schema; what a job is refused for | done |
| 17 | `OrderFlow` | abstract life of an order over `OrderLedger` and `OrderTasks`: placed, published or not, done or dead | not written |

Every invariant and every action property of a passing run is a theorem; what is open is liveness, out of the prover's
reach. `OrderFlow` is not written: the two specifications meet in one message only, and what is lost between them
is finding 2 of section 6.

## 3. The modules and the code

### OrderLedger

The promise of `POST /api/orders`. A request asks for a key and a number of each
product. `Place` creates its order, when the key has bought none and everything is
in stock, and takes the stock in the same step; `Repeat` answers with the order
that the key has bought; `RefuseUnknown` and `RefuseShort` are the 404 and the 409;
`Reply` tells the client the decision, or 500. A 404 or 409 is only possible while the
key has bought nothing, so a retry of an order that exists never gets one.

### OrderCreation

One request is one element of `Requests`, and also the id of the order it inserts.
`pc` is the await the handler is at:

| `pc` | Code | Actions that leave it |
| --- | --- | --- |
| `connect` | `unit-of-work.ts:55-60` | `BeginTx` (needs a free connection), `ConnectFails` |
| `insert` | `orders.repository.ts:44` | `InsertOrder`, `InsertDuplicate` (23505), `StatementFails` |
| `lookup` | `orders.repository.ts:50-55` | `Lookup` (needs a *second* free connection) |
| `select` | `products.repository.ts:29-35`, checks of `orders.service.ts:40-48` | `LockRow`, `WaitRow`, `DeadlockAbort`, `SelectNothing`, `MissingProducts`, `OutOfStock`, `ReserveStock` |
| `commit` | `orders.service.ts:58-62` | `Commit`, `CommitUnknown`, `StatementFails` |
| `dispose` | `unit-of-work.ts:79-82` | `Dispose`, `DisposeFails` |
| `broken` | the answer to COMMIT was lost | `DisposeFails` |
| `publish` | `orders.service.ts:72-76` | `Publish`, `PublishFails` |

PostgreSQL is modelled by what the handlers can see of it at READ COMMITTED:

* *unique key*: an insert waits while an uncommitted row has its key (neither
  `InsertOrder` nor `InsertDuplicate` is enabled), succeeds when that transaction rolls
  back, and gets 23505 when it commits; the error aborts the transaction;
* *FOR UPDATE*: takes its rows one at a time in any order (the query has no ORDER
  BY), waits for the owner of a row, and reads the row as it is when the lock is
  granted; a cycle of waits is broken by aborting a member;
* *the saves* write absolute values (`stock` as read, less the quantity) that become
  visible at the commit: `Install`.

The product rows, keys and carts are model values; a cart is a sequence of items, so that
repeated ids, unknown ids and empty carts are carts like others. `QtyOf` keeps the *last*
item of an id, which is what building the `Map` of `orders.service.ts:43` does.
Disposal is part of every exit, because `await using` is (`EndTx`). Two exits rest on
TypeORM, which gives a connection back by itself when that reports an error: a
START TRANSACTION that throws (`unit-of-work.ts:58`, before `await using` has its object) is
one of the failures of `ConnectFails` and holds no connection, and a
ROLLBACK that throws skips `dispose()` (line 81) but frees the connection (`DisposeFails`). The
model assumes this; it does not show it. What surrounds
the handlers: `Flush` (socket to broker), `ChannelClose`, `Crash` (the process dies, the
pool and the channel are new, the open transactions are rolled back when PostgreSQL
notices: `BackendCleanup`).

### OrderTasks

What the worker promises, without copies, wires and handlers. The broker accepts the task of an
order once (`Accept`), holds it until it is done (`Finish`, which has the effect) or dead
(`GiveUp`), and lets go of it only then (`Release`). A task can be done and dead, as in the code:
section 6, point 4. `OrdersWorker` defines what of its state a task is: held while a copy of the message is ready or
unacknowledged, done when its row in `processed_messages` is committed, dead when a copy is in `orders.dlq`.

### OrdersWorker

A *copy* is one message at the broker; a message may have several. `where` is where
the broker has the copy, `pc` the await of the handler of a delivered copy:
`insert` and `process` and `commit` are `handleHappyPath` (`orders-worker.service.ts:59-82`),
`ack` its line 84, `failed` is `handleFailedProcessing` (113-139), `backoff` its timer.
What the process writes to its socket, messages and acknowledgements, is one
sequence `wire`, which is the order amqplib writes in; the code uses no publisher
confirms, so nothing waits for the broker. A cut (closed channel or dead
process) drops the wire and makes unacknowledged copies ready again; a closed channel
leaves the handlers running, whose `ack` and `send` then throw, as in the code:
in `handleHappyPath` that is treated as a failure (`AckFails`), in the timer nobody
catches it and the process dies (`RetryFails`).

The shutdown (`main.ts:40`, `rabbit-mq.service.ts:57`) closes the channel while handlers and
timers are pending. `Shutdown` is the call of `channel.close()`: from then on `send` and `ack` throw, while the broker
still takes what was written before and acknowledged in time. `Closed` is its confirmation, which gives the
deliveries back, and `Exit` the end of the process after that, with or without an error; `compose.yml:6` starts
it again. Between them handlers go on, commit, and fail to acknowledge.

The debug endpoint sends what the validation pipe leaves of its body, which is an
object without fields (`Whitelisted`). `attempt` is then undefined, NaN after the
first increment, null in the next message, and 1 after another: -1, 0, 1 in the model,
which compare with a positive bound as the JavaScript values do.

Names of copies are reused when a message is gone, so that the state space stays finite
without a bound on retries.

### OrderListing

One walk of one client through `GET /api/orders`. A page is two queries, because TypeORM
splits `take` and `skip` over a join: `SelectIds` sorts by creation time and, for want of a
better order, by id, and cuts the page out (`Skip`, `Slice`); `SelectRows` reads the rows of
these ids that the filter still matches, sorted by creation time alone. An empty page needs
the first query only. `limit=0` is falsy in TypeORM, so nothing is cut (`SelectAll`); a negative
limit or offset is an error of PostgreSQL (`Refuse`). `createdAt` is the time at which the
inserting transaction began, so `Place` gives it any value: transactions commit in any order of
their beginnings. `Process` is the only change of a status in the code; the labels canceled and paid, which
nothing in `src` sets, are left out. `stayed`, `entered` and
`left` are history variables; they record how the filter's orders changed during the walk.

### Seed

Each run of `seed/index.ts` goes through `Plan` (two accounts, the products, an order), looks
for each row (`Find`, `FindNothing`) and inserts what it misses (`Save`), then looks
for the items of the order (`FindItems`, `SaveItems`) and commits. A run sees committed rows and its
own. The e-mail is the only thing of these that is unique: an insert of an account waits while
another transaction has it uncommitted, and fails when that one has committed
(`SaveDuplicate`). Titles are not unique, and the idempotency key of the order is random. What makes the script
safe to run twice at once is therefore the *first* of the accounts that is missing: one run
gets past it, and the next goes on only when that run has committed everything or
nothing. This takes an account that the API does not create on its own, whence
`SignUps # Accounts` in `NoDuplicates`: when clients have signed up with both e-mails before
the products are there, two runs at once do create each product twice. The database is
empty at first; rows are made by the runs, `SignUp`, `PlaceOrder` and `ProcessOrder`.
The seed takes an order that a customer has placed for its own, which is harmless because
such an order has items from its first moment on (`CustomerOrdersKept`).

### Accounts

A sign-up (`request`) computes a hash, inserts a row and commits: `save()` is one transaction. The insert
waits while an open transaction has a row of its e-mail (neither `Insert` nor `InsertDuplicate` is enabled), and
gets 23505, hence a 409, when that one has committed. Any other error is a 500 (`SaveFails`), also when
the commit took place and only its answer was lost (`CommitUnknown`). An account has the id of its sign-up.

A session is a client with an access token and a refresh token. `LogIn` reads the row of the e-mail, `Verify`
compares the passwords later and signs both tokens with the row *as it was read*; `Refresh` is the guard of the
cookie, `Renew` reads the account again by the id of the token and signs in the same step: the code signs after the await
(`auth.service.ts:36-39`), a window shorter than the one between `LogIn` and `Verify`, which is modelled. The answer to a refresh sets no cookie, but has a new refresh token in
its body, so that a client may keep the old one or take the new one. `AdminCall` is the one endpoint behind
`RolesGuard`. What is refused (401, 403, 404) and `GET /api/users/me` change nothing, and are not actions. Tokens are
records: that signatures cannot be forged and hashes tell passwords apart is taken for granted.

`SetRole` and `Remove` are the environment: nothing under `src` changes a role or removes an account, but the code
has roles, and reads the account again at each refresh, for somebody who does so by hand. `Tick` lets a second
pass; a comparison of passwords takes at most `VerifyTime`. `removed`, `adminUntil`, `granted` and the field
`by` are history variables that no action reads but to record.

### Migrations

A schema is a set of objects (tables, columns, types and their labels, NOT NULL, defaults, unique keys, indexes,
foreign keys), each with what it belongs to and what it uses. A migration is the sequence of statements of its
`up` or `down`. `Refused` says when PostgreSQL refuses a statement: what it creates is there or what it needs is not; what it drops is not
there or in use; NOT NULL over rows without a value; a conversion that meets a default or a value that is no
label; an update of a column that is not there. `Executed` says what it does, with all that goes with a dropped column or table, rows included. The rows are
those whose columns a migration adds or converts: users and their passwords, orders with their status and keys.

What the schema should be is not computed from the statements. `Entities` is what the entity classes declare, `Added(n)` what the later
migrations have added to it, and `SchemaAfter(k)` the entities less that: the schema that the release which ended with migration `k` expected.

`LoadRun` reads what is pending *before* its transaction begins, as TypeORM does, for any release that is deployed; all
pending migrations are one transaction, with a row in `migrations` for each. `LoadRevert` is the last executed one.
`Begin` waits for the running job: the first statement of each would change the same object, so that it waits for
its lock. A second run then goes on with a plan that is out of date, and is refused, by an object that exists
already. That two *runs* exclude each other is what the model shows; that a *revert* runs alone is an
**assumption** (`Start`). Nothing in the code ensures it: a run that has read the executed migrations before a revert commits
would leave a gap in them, for TypeORM compares names, not ranks.

The API beside the jobs (`SignUp`, `PlaceOrder`, `ProcessOrder`) writes into tables no job has locked, and fills the columns that
exist: it is of this release, or of the earlier one that fits the schema. `PayOrder` is external: the label is there, nothing
in `src` sets it.

### MC modules and configurations

`MCOrderCreation`, `MCOrdersWorker`, `MCOrderListing`, `MCSeed`, `MCAccounts` and `MCMigrations` name the model values and
give the inboxes, the stock, the ranges of the queries and the plan; the `.cfg` files pick them.

## 4. Runs

| Run | Configuration | What it shows |
| --- | --- | --- |
| `order_creation` | 3 requests, 2 keys, 2 products with stock 2 and 1, pool of 2, one crash or channel closure, any number of failed statements | `TypeOK` (no oversell), `IInv`, `StockConserved`, `PoolAccounted`, `PublishedOnce`, `ImplementsLedger`; `Answered`, unless the pool is starved for good |
| `orders_worker` | 1 order, 1 debug message, 2 attempts, prefetch 2, 2 failed statements, one crash, channel closure or shutdown | `TypeOK` (bounded attempts), `EffectOnce`, `OneHandlerInserts`, `NoLostMessage`, `ImplementsTasks`, `Settled` (orders), `NoRetryLoop` (every message, also without a counter) |
| `order_listing` | 3 orders, 2 creation times, limits -1 to 2, 2 ranges, 2 statuses, walks that begin at page 0 or 1 and go to page 3 | `NothingMissed`, `NothingRepeated`, `PagesFull`, `QuietWalk`, `TypeOK` (page length) |
| `seed` | 3 runs, 2 accounts, 2 products, sign-ups for one of the accounts, one order of a customer; any failures | `NoDuplicates`, `SeedComplete`, `CustomerOrdersKept`, `RunsEnd`, `TypeOK` |
| `accounts` | 2 sign-ups, 1 e-mail, 2 passwords, 1 session, access tokens of 1 s, refresh tokens of 3 s, 3 s in all, 2 changes of a role or removals, one failed statement or crash | `OneAccountPerEmail`, `SignUpTruth`, `SessionOfOneAccount`, `AdminGrantRecent`, `Answered`, `TypeOK` |
| `migrations` | 2 jobs at a time, 5 in all, of the releases that end with migration 2, 4 and 6; 1 user, 1 order; one job that dies | `SchemaFitsHistory`, `RowsFitSchema`, `RowsSurvive`, `RefusedForRowsOnly`, `JobsEnd`, `TypeOK` |
| six runs that end in a violation | smaller instances | the findings of section 6 |

**Bounds.** The inbox gives each request two carts: one that fits, an empty one, one
with a repeated id, one that takes all the stock, one that meets another in both rows,
one with an unknown id. Any two of the three requests may share a key or compete for
stock, and any of them may retry another. Two
requests are enough for a lock cycle, a wait on a key, a duplicate; the third makes
the loser of one race the winner of another, and lets a pool of two run out. All three
may share a key, so that two duplicates can hold both connections and wait for a third one
for ever: finding 1. `Answered` is therefore stated with its exception, and this run has it
happen: every accepted request is answered, or from some moment on handlers in `lookup` hold
the whole pool (`PoolStarved`). The run `retry_returns_order` gives three requests one
key and one cart. One fault per behaviour reaches every state a crash can
leave, since a crash sends all handlers to `lost` at once. `MaxFaults` bounds
crashes and closures; statement failures are unbounded.

For the worker, seven names of copies are more than the instance ever uses at once, so
`Unused # {}` never blocks. `MaxRetries = 2` has a retry and a last attempt; two
failures let a message fail on all its attempts; prefetch 2 lets two copies of one
message be handled at once, and lets the debug message share the window with the order.
`MaxFailures` and `MaxDebug` bound failed statements and debug requests.

For the listing, three orders and a limit of 1 or 2 give walks with full, short and empty
pages; two times give ties. Orders of other users never match and are left out. For the seed,
three runs are a race of two and a later repetition; two products are what the items need
(the third of `productData` is looked for like the second); `SignUps` holds the second account,
so that the first one is what the runs wait on. `Fail` is unbounded.

For the accounts, one e-mail makes all sign-ups compete, and lets it be registered again after a removal; two passwords
tell the accounts apart. Two changes make an admin and unmake it, or remove it. The refresh token outlives three access tokens, so that a
session is refreshed after the role is lost, and `MaxTime` is the age at which it expires too. For the migrations, a job for
each release goes over the seams that are deployed, and reverts go back one at a time; one order and one user are all that
PostgreSQL's refusals need. Five jobs reach the last schema, fail there, go back and come again. `MaxStarts` and `MaxFaults` bound the jobs and
those that die.

**Fairness.** Weak fairness of each handler's ordinary steps: an await on PostgreSQL
or the pool settles when it can, the event loop runs every ready callback, timers fire. Weak
fairness of the socket and the broker's delivery. *No* fairness for failures,
crashes, closures, shutdowns or clients, and none of the clock. `broken` has fairness because a handler whose connection is
gone can only go on by failing. Weak fairness is enough: a handler that waits for a
row or a key waits for a transaction that ends by itself, and the
deadlock detector's step is among the fair ones. The same goes for the seed: the run that others wait for ends by itself,
or fails. The listing has safety properties only and needs no fairness. In `Accounts` it is weak fairness of what a
handler does next. A migration job needs *strong* fairness (`SF_vars(Progress(j))`): while it waits for its first lock, other jobs
may take it again and again, and it is PostgreSQL's queue of lock requests that lets it in at last.

**Deadlock** is checked in every run. The starved pool of finding 1 is none for TLC, since a statement
may still fail (`StatementFails`), though nothing makes it; a state where all is done steps to itself (`Quiescent`, `Idle`, `Quiet`).

## 5. Proofs

`OrderCreationProofs` proves, for any finite sets of requests and products, any keys
and carts, any initial stock, any pool size and any number of faults,
from `CreationAssumption` alone:

* `CreationInvariant`: `Spec => []IInv`;
* `CreationTypeCorrect`: `Spec => []TypeOK`, so no stock is ever negative;
* `CountFindsServiceable`: comparing the number of rows with the number of items
  (`orders.service.ts:40`) accepts exactly the carts whose items name existing products,
  each at most once. The code's TODO (27-28) fears repeated ids; this count refuses them.

`OrderCreationRefinement` proves `CreationImplementsLedger`: `Spec => ImplementsLedger`.

Why `IInv`: that the stock stays non-negative is not inductive by itself. The step that
could break it is the commit, which writes `seen - qty`; it is safe because what the
handler checked (`InStock`, on `seen`) still holds at the commit (`CommitInv`) and what
it read is still the committed stock (`LockInv`); that holds because a commit changes only
rows its owner has locked, and the owner of a lock is a live transaction (`TxInv`).
That an insert finds at most one holder of its key is `KeyInv`; that an answer is true,
`OutcomeInv`. The proof has one lemma per conjunct, with one step per action.
The refinement uses `LockInv` to turn a check under locks into a check of
the ledger's stock, `KeyInv` to know that the key is still fresh at the decision,
and `CountFindsServiceable` for the 404.

`OrdersWorkerProofs` proves, for any orders, any finite set of copies, any number of attempts, any prefetch and any
numbers of failures and faults, from `WorkerAssumption`:

* `WorkerInvariant`: `Spec => []IInv`, and from it `WorkerTypeCorrect` (no message is attempted more often than
  `WORKER_RETRIES`), `WorkerEffectOnce`, `WorkerOneHandlerInserts` and `WorkerLosesNothing`;
* `WorkerImplementsTasks`: `Spec => ImplementsTasks`.

Why its `IInv`: that no message is lost is broken by the acknowledgement of the last copy, when the broker takes that frame.
So the invariant says what is true of the frames *before* the broker takes them. `WireInv`: no two frames on the wire are about one
copy, and an acknowledged copy has no handler. `AckInv`: an acknowledgement of an order that is not processed stands behind a message
that replaces it, or the broker keeps another copy past that frame. That is kept when a message goes out (`send` precedes `ack` in one
turn of the event loop) and when frames are taken in order; a cut drops all of the wire, the acknowledgements with the messages.
`HandlerInv` ties each handler to its delivery and its row, so that an acknowledgement that replaces
nothing follows a commit; `OneHandlerInserts` makes the commit the first of its order, whence `EffectOnce`.
For the refinement, `CopyInv` and `SendInv` say that a message that reaches the broker is either the first of its order or
replaces one that is still held there, so that each frame maps to `Accept`, `GiveUp`, `Release` or to no step.
A frame that releases the last held copy maps to `Release`, because `NoLostMessage` holds after it.

`AccountsProofs` proves, for any numbers of sign-ups, sessions, e-mails and passwords, any ages of the tokens and any bounds, from
`AccountsAssumption`: `AccountsInvariant` (`Spec => []IInv`), and from it `AccountsTypeCorrect`, `EmailsUnique`,
`SignUpAnswersTrue`, `SessionsKeepAccount` and `AdminAccessEnds`.
Its `IInv`: `OneAccountPerEmail` is inductive with `IdInv` (a request has an open row exactly at its commit, and an account is that of an answered
request), because it speaks of open rows too. `AdminGrantRecent` is about calls; the tokens that allow them are bounded by `RoleInv`: a token that says
admin is of an account that was one at the token's expiry less `AtAge + VerifyTime` or later. That takes a bound on the row a login
holds (`since`), and that a refresh signs what it reads, not what the old token says. `SessionInv` follows the owner of
the tokens through the account's removal.

`OrderCreationAccounting` proves the three other invariants of the run `order_creation`, for the same constants:

* `StockIsConserved`: what is left of a product and what its committed orders took are the initial stock. `Taken` is a sum
  over a set of orders, computed by a fold (`MapThenSumSet`). The lemmas show that the fold is a sum (`FoldIsSum`), that sums exist and are
  unique, and what one more element adds (`SumAdd`). They argue with the smallest counterexample: a collection of subsets of
  a finite set has a least member (`SmallestSubset`), for the strict subset order is well-founded. So no induction theorem
  with an operator as its parameter is needed. The invariant itself then rests on `CreationInvariant`: a commit writes `seen - qty`
  and `LockInv` makes `seen` the committed stock.
* `PoolIsAccounted`: connections that are free and connections that handlers hold are the pool. One step moves one
  connection, or a crash makes a new pool (`PoolMoves`).
* `PublishedAtMostOnce`: each message is sent by the request that inserted its order, in the step that ends the request with a 201
  (`PublishedMoves`); orders and answers stay.

`SeedProofs` proves, for any accounts, titles, sign-ups, numbers of runs and orders, from `SeedAssumption` (the
e-mails and the titles of the plan are distinct, as those of `seed/constants.ts` are): `SeedInvariant`, `SeedTypeCorrect`,
`SeedMakesNoDuplicates`, `SeedLeavesAllOrNothing` and `SeedKeepsCustomerOrders`.
Its `IInv` is the argument of section 3 in full: an account of the plan that nobody signs up with is a gate (`GateInv`). Nothing but
accounts is committed before it is, everything is committed with it, and only the run that holds its row uncommitted inserts anything
after it. For that a run must have found what its plan says, in committed rows or its own (`FoundInv`), a row must be
known for its inserter's (`OwnerInv`), there is one row per account (`AccountInv`), and items come with their order (`ItemsInv`).

`OrderListingProofs` proves, for any finite set of orders, any times, limits and numbers of pages, from `ListingAssumption`:
`ListingInvariant`, `ListingTypeCorrect`, `WalkRepeatsNothing`, `WalkMissesNothing`, `WalkIsListing` and `PagesLackFewOnly`.
A listing is a sorted sequence of a set, defined by CHOOSE; what the proofs need of it is that an order has a *rank*, the number
of orders up to it, and that `Slice` is the orders whose ranks are within the page (`SliceIsPage`). `Process` and `Place` move
ranks: a rank grows only when an order enters the filter before it, and shrinks only when one leaves. So the invariant says
that while nothing `entered`, what was shown has a rank before the next page (`ShownOnce`), and while nothing `left`, every
order that `stayed` and has such a rank was shown (`Covered`); the two end in `NothingRepeated` and
`NothingMissed`. `Whole` is the same of a listing without pages, and `Sorted` follows the order of the sequence itself
for `QuietWalk`. `PagesFull` rests on an invariant of its own, `FullInv`: while nothing `entered` and the listing goes on beyond
the page, the query of the ids has found as many as the limit (the last of the listing has its length for a rank), and what the pages so far lack,
together with the ids that have ceased to match before their rows are read (`Gone`), is at most `left`. What `FlattenSeq` does with one more page is again proved from a least number (`FlattenAppend`).

`MigrationsProofs` proves, for any users, orders, jobs, releases and bounds, from `MigrationsAssumption` alone, every safety
property of `Migrations`: `MigrationsTypeCorrect`, `MigrationsKeepRows`, `MigrationsFitHistory`, `MigrationsFitRows` and
`MigrationsRefusedForRows`. It goes in four steps, each with an invariant of its own that rests on those before it.

*No rows are lost* (`IInv`). This needs only what *holds rows*: two tables and two columns (`Fields`, `Holds`), whatever else the
schema holds. First the plans: each statement of an `up` creates, renames, converts or fills, and drops no table
or column; one of a `down` creates none; no type or column has the name of a table (`UpStep`, `DownStep`, `PlanOfUps`,
`PlanOfDown`). Then what a statement does to any database: one of an `up` keeps every table, column and row
(`UpExecuted`), one of a `down` keeps the rows of what still stands and locks the tables it takes something from (`DownExecuted`). That
no rows are lost is broken, if at all, by the commit, which replaces the database by the one the job has seen. So `IInv` says of the running job
that its view *carries* the committed rows (`Carries`), which the API keeps true by writing into both, and
that what is committed and no longer stands in the view is locked (`Standing`), for otherwise an order
could be placed in a table whose drop is about to be committed. `Owned` says that there are rows only in what stands: without it a column that is
created again would have to carry the values of the one that was dropped.

*The schema fits the history* (`HInv`). A plan is a path: `Leads(p, x, y)` says that the statements of `p` go one by one from schema and
history `x` to `y`, and that nothing in the schemas on the way stands in the way of a statement (`Clear`). Each `up` leads from
`Stage(n - 1)` to `Stage(n)` and each `down` back (`MigrationLeads`, from a lemma per migration; the fourth, which replaces a type in use, is
`ConvertMoves` in both directions), and paths compose (`LeadsOn`, `PlanOfLeads`). `SchemaEras` makes the schemas comparable: an
object belongs to the one migration that adds it (`Era`). `HInv` then says of a running job that the rest of its plan
leads from what it sees to the schema of a release (`UpToDate`). That is false of a run that another has overtaken, whose plan is out of
date; of that one it says that it has done nothing yet, and `OvertakenRefused` that its first statement creates an
object that is there. `Exclusive` is the assumption that an operator reverts alone, carried from `Start` to the commit.

*The rows fit the schema* (`RInv`). The columns that matter are those `SchemaAfter` requires and an earlier schema did not have
(`WrittenObjects`). The API fills what the *committed* schema has, so a row it writes beside a run would lack what the run is about
to require: `Secured` says that a run has locked the table of whatever it requires and the committed schema does
not. A revert is the other way round: it requires less, but the fourth one takes the label "processed" away.
`Narrowed` says that it has the conversion before it, which is refused while an order is processed, or has done it and holds the
lock under which none becomes so. `Labelled` (no processed order before the fourth migration) closes the induction, and needs `Within`: the job sees
only rows that are committed.

*A job is refused for the rows only* (`FInv`). A plan that is up to date is `Clear`, so only rows can refuse it (`ClearRefused`): no value
where one is required, or a status without a label. That the *key* is never the missing value is a property of the order of
the statements, not of the schema: `FillsFirst` says that a plan fills the keys before it requires them, and `Prepared` that after the fill
the table of orders is locked, so that no order without a key is placed in between. The remaining cases are the two
that `RefusedForRowsOnly` names.

**Checked by TLC only.** Liveness (`Answered`, `Settled`, `NoRetryLoop`, `RunsEnd`, `JobsEnd`), which the prover does not reach. `OrderLedger` and
`OrderTasks` are specifications that others are proved to implement, and state nothing of their own.

## 6. Where the documents and the code disagree

Each of these is a run that ends in a violation.

1. `RetryReturnsOrder`. Retries of one key that run at once can hold all
   connections of the pool and wait for ever for another one
   (`orders.repository.ts:50` reads through the data source, not through the
   transaction). `docs/task-3-transactions.md:25-26` says they return the order.
2. `EveryOrderIsPublished`. A crash, a lost answer to COMMIT or a closed channel before
   `orders.service.ts:72` leaves an order that is never published; a retry does not
   publish it (line 68). `README.md:38` says the API publishes it.
3. `DlqAfterAllRetries`. `WORKER_RETRIES` counts attempts, not retries
   (`docs/task-7-rabbitmq.md:32-33`).
4. `DlqHoldsFailedTasks`. A task that was committed can be dead-lettered, when the answer
   to its commit is lost on the last attempt (`docs/task-7-rabbitmq.md:12-13`).
5. `DebugStopsOnAttempt`. The debug body is emptied by the whitelist; the message
   cannot succeed on any attempt (`docs/task-7-rabbitmq.md:67-69`).
6. `EveryMessageSettles`. After the broker closes the channel nothing consumes until a
   restart (`README.md:39`).

## 7. Not modelled

Prices, titles, timestamps and the bodies of responses: no property depends on them.
`OrderFlow`, planned in section 2. `WORKER_RETRIES` that is zero or no number: `MaxRetries` is taken to be positive. The
second close at shutdown, by the hooks of Nest and by `main.ts` both: whether its `channel.close()` throws an error that the filter of
`rabbit-mq.service.ts:62` tolerates is decided inside amqplib, and the process ends in either case. Connecting
and asserting the queues at the start: what fails there ends the start. Lengths, precisions and
defaults of columns that no migration changes. Reading products and reading one order (one query), health, logging and
correlation ids: no state shared between requests. Caddy, Docker and CI, except that a
process that dies is started again (`compose.yml:6`). Several API processes: handlers of
different processes interact through PostgreSQL as the modelled ones do; the pool and the
channel are per process.
