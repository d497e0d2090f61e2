--------------------------- MODULE OrderCreation ---------------------------
(***************************************************************************)
(* POST /api/orders: requests that run concurrently in one API process,    *)
(* each a chain of awaited steps.  A request takes a connection from the   *)
(* pool, inserts its order, locks the rows of the products it names, takes *)
(* the quantities out of their stock, commits, gives the connection back,  *)
(* and only then publishes the order to RabbitMQ.                          *)
(*                                                                         *)
(* The database is PostgreSQL at READ COMMITTED: an insert waits for an    *)
(* uncommitted row with the same unique key, FOR UPDATE waits for the      *)
(* owner of the row and then reads its latest version, a cycle of waits is *)
(* broken by aborting one transaction, an abort releases the locks.        *)
(***************************************************************************)
EXTENDS Naturals, Sequences, FiniteSets, FiniteSetsExt

CONSTANTS Requests,      \* HTTP requests; a request is also the id of the order it inserts
          Keys,          \* (user, idempotency key) pairs
          Products,      \* ids of the rows of the products table
          Ghosts,        \* well-formed ids that are in no row
          Inbox,         \* for each request, the bodies a client may send with it
          InitialStock,  \* stock of each product at the start
          PoolSize,      \* connections of the pg pool
          MaxFaults,     \* bound on process crashes and channel closures
          None

ItemIds == Products \cup Ghosts
Items == [id : ItemIds, qty : Nat \ {0}]
Bodies == [key : Keys, cart : Seq(Items)]

ASSUME CreationAssumption ==
    /\ IsFiniteSet(Requests) /\ IsFiniteSet(Products)
    /\ None \notin Requests \cup Keys \cup ItemIds
    /\ Products \cap Ghosts = {}
    /\ \A r \in Requests : \A b \in Inbox[r] : b \in Bodies
    /\ InitialStock \in [Products -> Nat]
    /\ PoolSize \in Nat \ {0}
    /\ MaxFaults \in Nat

VARIABLES
    pc,       \* where the handler of each request stands
    ask,      \* key and items each request was sent with
    tx,       \* transaction of each request
    lock,     \* owner of the row lock of each product
    target,   \* product whose row each request waits for
    seen,     \* stock as each request read it under its locks
    orders,   \* committed rows of the orders table
    stock,    \* committed stock of each product
    idle,     \* free connections of the pool
    outcome,  \* what the transaction callback returned or threw: [status, order]
    reply,    \* HTTP status sent to the client, 0 before that
    outbox,   \* messages written to the channel and not yet with the broker
    queue,    \* orders.process at the broker
    channel,  \* the one channel of the process
    faults    \* crashes and channel closures so far

db == <<tx, lock, target, seen>>
tables == <<orders, stock>>
mq == <<outbox, queue, channel>>
vars == <<pc, ask, db, tables, idle, outcome, reply, mq, faults>>

Steps == {"idle", "connect", "insert", "lookup", "select", "commit", "dispose",
          "publish", "broken", "done", "lost"}
TxStates == {"none", "begun", "inserted", "aborted", "committed"}

Open == [status |-> 0, order |-> None]
NoAsk == [key |-> None, cart |-> <<>>]
Unread == [p \in Products |-> 0]

Init ==
    /\ pc = [r \in Requests |-> "idle"]
    /\ ask = [r \in Requests |-> NoAsk]
    /\ tx = [r \in Requests |-> "none"]
    /\ lock = [p \in Products |-> None]
    /\ target = [r \in Requests |-> None]
    /\ seen = [r \in Requests |-> Unread]
    /\ orders = {}
    /\ stock = InitialStock
    /\ idle = PoolSize
    /\ outcome = [r \in Requests |-> Open]
    /\ reply = [r \in Requests |-> 0]
    /\ outbox = <<>>
    /\ queue = <<>>
    /\ channel = "open"
    /\ faults = 0

-----------------------------------------------------------------------------
(* The cart: dto.items. *)

NamedIds(cart) == {cart[i].id : i \in DOMAIN cart}

(* dtoIdToQty: building the Map, a later item with the same id overwrites. *)
QtyOf(cart, p) ==
    LET last == CHOOSE i \in DOMAIN cart :
                    /\ cart[i].id = p
                    /\ \A j \in DOMAIN cart : cart[j].id = p => j <= i
    IN  cart[last].qty

LinesOf(cart) ==
    [p \in Products |-> IF p \in NamedIds(cart) THEN QtyOf(cart, p) ELSE 0]

(* The rows that SELECT ... WHERE id IN (...) FOR UPDATE locks and returns. *)
Rows(r) == NamedIds(ask[r].cart) \cap Products

Locked(r) == {p \in Products : lock[p] = r}

(* Mutant: the count of the rows is not compared with that of the items. *)
AnyFound(r) == Rows(r) # {}

(* products.length = dto.items.length *)
AllFound(r) == Cardinality(Rows(r)) = Len(ask[r].cart)

(* Mutant: the stock is not compared with the quantity. *)
InStockUnchecked(r) == Rows(r) # {}

InStock(r) == \A p \in Rows(r) : LinesOf(ask[r].cart)[p] <= seen[r][p]

(* Every row is locked, found and rich enough. *)
Reservable(r) ==
    /\ Locked(r) = Rows(r)
    /\ AllFound(r)
    /\ InStock(r)

-----------------------------------------------------------------------------
(* PostgreSQL. *)

HoldsRow(r) == tx[r] \in {"inserted", "committed"}

(* Mutant: the key of an uncommitted row is not seen. *)
KeyUncommitted(r) == \A q \in orders : ask[q].key # ask[r].key

(* No transaction, finished or not, holds the unique key of r. *)
KeyFree(r) == \A q \in Requests : HoldsRow(q) => ask[q].key # ask[r].key

KeyTaken(r, o) == o \in orders /\ ask[o].key = ask[r].key

(* The query has returned: all its rows are locked. *)
SelectDone(r) ==
    /\ pc[r] = "select"
    /\ ask[r].cart # <<>>
    /\ Locked(r) = Rows(r)

(* r is on a cycle of requests that wait for rows of one another. *)
Deadlocked(r) ==
    \E C \in SUBSET Requests :
        /\ r \in C
        /\ \A q \in C : target[q] # None
        /\ C = {lock[target[q]] : q \in C}

ReleaseRows(r) ==
    /\ lock' = [p \in Products |-> IF lock[p] = r THEN None ELSE lock[p]]
    /\ target' = [target EXCEPT ![r] = None]
    /\ seen' = [seen EXCEPT ![r] = Unread]

Abort(r) ==
    /\ tx' = [tx EXCEPT ![r] = "aborted"]
    /\ ReleaseRows(r)

(* Order, items and stock become visible; the stock that save() wrote is the
   one that was read, less the quantity. *)
Install(r) ==
    /\ orders' = orders \cup {r}
    /\ stock' = [p \in Products |-> IF p \in Rows(r)
                                    THEN seen[r][p] - LinesOf(ask[r].cart)[p]
                                    ELSE stock[p]]
    /\ tx' = [tx EXCEPT ![r] = "committed"]
    /\ ReleaseRows(r)

-----------------------------------------------------------------------------
(* The handler. *)

Goto(r, step) == pc' = [pc EXCEPT ![r] = step]

Answer(r, status) ==
    /\ reply' = [reply EXCEPT ![r] = status]
    /\ Goto(r, "done")

Result(r, status, order) ==
    outcome' = [outcome EXCEPT ![r] = [status |-> status, order |-> order]]

(* No Idempotency-Key header: BadRequestException. *)
SubmitWithoutKey(r) ==
    /\ pc[r] = "idle"
    /\ Answer(r, 400)
    /\ UNCHANGED <<ask, db, tables, idle, outcome, mq, faults>>

Submit(r) ==
    /\ pc[r] = "idle"
    /\ \E body \in Inbox[r] : ask' = [ask EXCEPT ![r] = body]
    /\ Goto(r, "connect")
    /\ UNCHANGED <<db, tables, idle, outcome, reply, mq, faults>>

(* createQueryRunner, connect (waits for a free connection), startTransaction *)
BeginTx(r) ==
    /\ pc[r] = "connect"
    /\ idle > 0
    /\ idle' = idle - 1
    /\ tx' = [tx EXCEPT ![r] = "begun"]
    /\ Goto(r, "insert")
    /\ UNCHANGED <<ask, lock, target, seen, tables, outcome, reply, mq, faults>>

(* connect() throws, or START TRANSACTION on a connection that breaks.  Nothing
   disposes of the runner in the second case (await using has no transaction
   yet): it is TypeORM that gives a broken connection back. *)
ConnectFails(r) ==
    /\ pc[r] = "connect"
    /\ Answer(r, 500)
    /\ UNCHANGED <<ask, db, tables, idle, outcome, mq, faults>>

InsertOrder(r) ==
    /\ pc[r] = "insert"
    /\ KeyFree(r)
    /\ tx' = [tx EXCEPT ![r] = "inserted"]
    /\ Goto(r, "select")
    /\ UNCHANGED <<ask, lock, target, seen, tables, idle, outcome, reply, mq, faults>>

(* 23505: PostgreSQL aborts the transaction, add() goes on in its catch. *)
InsertDuplicate(r) ==
    /\ pc[r] = "insert"
    /\ \E o \in Requests : KeyTaken(r, o)
    /\ Abort(r)
    /\ Goto(r, "lookup")
    /\ UNCHANGED <<ask, tables, idle, outcome, reply, mq, faults>>

(* The catch reads through the pool, while the transaction keeps the
   connection it has: it needs a second one, for the time of a query. *)
Lookup(r) ==
    /\ pc[r] = "lookup"
    /\ idle > 0
    /\ \E o \in Requests : KeyTaken(r, o) /\ Result(r, 201, o)
    /\ Goto(r, "dispose")
    /\ UNCHANGED <<ask, db, tables, idle, reply, mq, faults>>

(* Mutant: a plain SELECT, which waits for nobody. *)
ReadRow(r, p) ==
    /\ pc[r] = "select"
    /\ p \in Rows(r) \ Locked(r)
    /\ lock' = [lock EXCEPT ![p] = r]
    /\ seen' = [seen EXCEPT ![r][p] = stock[p]]
    /\ UNCHANGED <<pc, ask, tx, target, tables, idle, outcome, reply, mq, faults>>

(* FOR UPDATE takes its rows one by one; the query has no ORDER BY, so in any
   order. *)
LockRow(r, p) ==
    /\ pc[r] = "select"
    /\ p \in Rows(r) \ Locked(r)
    /\ target[r] \in {None, p}
    /\ lock[p] = None
    /\ lock' = [lock EXCEPT ![p] = r]
    /\ target' = [target EXCEPT ![r] = None]
    /\ seen' = [seen EXCEPT ![r][p] = stock[p]]
    /\ UNCHANGED <<pc, ask, tx, tables, idle, outcome, reply, mq, faults>>

WaitRow(r, p) ==
    /\ pc[r] = "select"
    /\ p \in Rows(r) \ Locked(r)
    /\ target[r] = None
    /\ lock[p] # None
    /\ target' = [target EXCEPT ![r] = p]
    /\ UNCHANGED <<pc, ask, tx, lock, seen, tables, idle, outcome, reply, mq, faults>>

DeadlockAbort(r) ==
    /\ pc[r] = "select"
    /\ Deadlocked(r)
    /\ Abort(r)
    /\ Goto(r, "dispose")
    /\ UNCHANGED <<ask, tables, idle, outcome, reply, mq, faults>>

(* items may be []: IN () is a syntax error. *)
SelectNothing(r) ==
    /\ pc[r] = "select"
    /\ ask[r].cart = <<>>
    /\ Abort(r)
    /\ Goto(r, "dispose")
    /\ UNCHANGED <<ask, tables, idle, outcome, reply, mq, faults>>

(* CannotFindProductsError; the transaction stays open until it is disposed. *)
MissingProducts(r) ==
    /\ SelectDone(r)
    /\ ~ AllFound(r)
    /\ Result(r, 404, None)
    /\ Goto(r, "dispose")
    /\ UNCHANGED <<ask, db, tables, idle, reply, mq, faults>>

(* NotEnoughItemsInStockError *)
OutOfStock(r) ==
    /\ SelectDone(r)
    /\ AllFound(r)
    /\ ~ InStock(r)
    /\ Result(r, 409, None)
    /\ Goto(r, "dispose")
    /\ UNCHANGED <<ask, db, tables, idle, reply, mq, faults>>

(* Items and products are saved; nobody sees them before the commit. *)
ReserveStock(r) ==
    /\ SelectDone(r)
    /\ Reservable(r)
    /\ Goto(r, "commit")
    /\ UNCHANGED <<ask, db, tables, idle, outcome, reply, mq, faults>>

Commit(r) ==
    /\ pc[r] = "commit"
    /\ Install(r)
    /\ Result(r, 201, r)
    /\ Goto(r, "dispose")
    /\ UNCHANGED <<ask, idle, reply, mq, faults>>

(* PostgreSQL commits, the answer to COMMIT is lost with the connection. *)
CommitUnknown(r) ==
    /\ pc[r] = "commit"
    /\ Install(r)
    /\ Result(r, 201, r)
    /\ Goto(r, "broken")
    /\ UNCHANGED <<ask, idle, reply, mq, faults>>

StatementFails(r) ==
    /\ pc[r] \in {"insert", "lookup", "select", "commit"}
    /\ Abort(r)
    /\ Goto(r, "dispose")
    /\ UNCHANGED <<ask, tables, idle, outcome, reply, mq, faults>>

(* Mutant: only a committed transaction releases its connection. *)
EndTxIfCommitted(r) ==
    IF tx[r] = "committed"
    THEN idle' = idle + 1 /\ UNCHANGED db
    ELSE Abort(r) /\ UNCHANGED idle

(* await using: roll back unless committed, then give the connection back. *)
EndTx(r) ==
    /\ idle' = idle + 1
    /\ IF tx[r] = "committed" THEN UNCHANGED db ELSE Abort(r)

(* Mutant: createOrder publishes the order of a duplicate as well. *)
DisposeAndRepublish(r) ==
    /\ pc[r] = "dispose"
    /\ EndTx(r)
    /\ \/ outcome[r].order # None /\ Goto(r, "publish") /\ UNCHANGED reply
       \/ outcome[r].order = None /\ Answer(r, IF outcome[r] = Open THEN 500 ELSE outcome[r].status)
    /\ UNCHANGED <<ask, tables, outcome, mq, faults>>

Dispose(r) ==
    /\ pc[r] = "dispose"
    /\ EndTx(r)
    /\ \/ outcome[r].order = r /\ Goto(r, "publish") /\ UNCHANGED reply
       \/ outcome[r].order # r /\ outcome[r] # Open /\ Answer(r, outcome[r].status)
       \/ outcome[r] = Open /\ Answer(r, 500)
    /\ UNCHANGED <<ask, tables, outcome, mq, faults>>

(* The connection is gone: ROLLBACK throws, and dispose() is skipped.  That the
   pool gets its place back nevertheless is TypeORM's doing: it releases a
   connection that reports an error. *)
DisposeFails(r) ==
    /\ \/ pc[r] = "dispose" /\ tx[r] # "committed"
       \/ pc[r] = "broken"
    /\ EndTx(r)
    /\ Answer(r, 500)
    /\ UNCHANGED <<ask, tables, outcome, mq, faults>>

Publish(r) ==
    /\ pc[r] = "publish"
    /\ channel = "open"
    /\ outbox' = Append(outbox, outcome[r].order)
    /\ Answer(r, outcome[r].status)
    /\ UNCHANGED <<ask, db, tables, idle, outcome, queue, channel, faults>>

(* sendToQueue throws on a closed channel. *)
PublishFails(r) ==
    /\ pc[r] = "publish"
    /\ channel = "closed"
    /\ Answer(r, 500)
    /\ UNCHANGED <<ask, db, tables, idle, outcome, mq, faults>>

-----------------------------------------------------------------------------
(* What happens around the handlers. *)

(* The socket delivers the oldest message to the broker. *)
Flush ==
    /\ outbox # <<>>
    /\ queue' = Append(queue, Head(outbox))
    /\ outbox' = Tail(outbox)
    /\ UNCHANGED <<pc, ask, db, tables, idle, outcome, reply, channel, faults>>

(* The broker closes the channel; nothing opens another before a restart. *)
ChannelClose ==
    /\ faults < MaxFaults
    /\ channel = "open"
    /\ channel' = "closed"
    /\ outbox' = <<>>
    /\ faults' = faults + 1
    /\ UNCHANGED <<pc, ask, db, tables, idle, outcome, reply, queue>>

(* The process dies and is started again. *)
Crash ==
    /\ faults < MaxFaults
    /\ faults' = faults + 1
    /\ pc' = [r \in Requests |-> IF pc[r] \in {"idle", "done"} THEN pc[r] ELSE "lost"]
    /\ idle' = PoolSize
    /\ outbox' = <<>>
    /\ channel' = "open"
    /\ UNCHANGED <<ask, db, tables, outcome, reply, queue>>

(* PostgreSQL notices that the client of a transaction is gone. *)
BackendCleanup(r) ==
    /\ pc[r] = "lost"
    /\ tx[r] \in {"begun", "inserted"}
    /\ Abort(r)
    /\ UNCHANGED <<pc, ask, tables, idle, outcome, reply, mq, faults>>

(* Every request has been dealt with. *)
Quiescent ==
    /\ \A r \in Requests : pc[r] = "done" \/ (pc[r] = "lost" /\ tx[r] \notin {"begun", "inserted"})
    /\ outbox = <<>>
    /\ UNCHANGED vars

(* The steps a handler takes when nothing goes wrong around it. *)
Advance(r) ==
    \/ BeginTx(r)
    \/ InsertOrder(r)
    \/ InsertDuplicate(r)
    \/ Lookup(r)
    \/ \E p \in Products : LockRow(r, p) \/ WaitRow(r, p)
    \/ DeadlockAbort(r)
    \/ SelectNothing(r)
    \/ MissingProducts(r)
    \/ OutOfStock(r)
    \/ ReserveStock(r)
    \/ Commit(r)
    \/ Dispose(r)
    \/ Publish(r)
    \/ PublishFails(r)

Fail(r) ==
    \/ ConnectFails(r)
    \/ CommitUnknown(r)
    \/ StatementFails(r)
    \/ DisposeFails(r)

Next ==
    \/ \E r \in Requests :
          SubmitWithoutKey(r) \/ Submit(r) \/ Advance(r) \/ Fail(r) \/ BackendCleanup(r)
    \/ Flush
    \/ ChannelClose
    \/ Crash
    \/ Quiescent

Spec == Init /\ [][Next]_vars

(* An await settles unless the process dies; "broken" fails by itself. *)
Fairness ==
    /\ \A r \in Requests : WF_vars(Advance(r)) /\ WF_vars(BackendCleanup(r))
    /\ \A r \in Requests : WF_vars(pc[r] = "broken" /\ DisposeFails(r))
    /\ WF_vars(Flush)

FairSpec == Spec /\ Fairness
-----------------------------------------------------------------------------
(* Properties. *)

(* Every variable has its type; in particular no stock is ever negative: no
   product is oversold. *)
TypeOK ==
    /\ pc \in [Requests -> Steps]
    /\ ask \in [Requests -> Bodies \cup {NoAsk}]
    /\ tx \in [Requests -> TxStates]
    /\ lock \in [Products -> Requests \cup {None}]
    /\ target \in [Requests -> Products \cup {None}]
    /\ seen \in [Requests -> [Products -> Nat]]
    /\ orders \subseteq Requests
    /\ stock \in [Products -> Nat]
    /\ idle \in Nat
    /\ outcome \in [Requests -> [status : {0, 201, 404, 409}, order : Requests \cup {None}]]
    /\ reply \in [Requests -> {0, 201, 400, 404, 409, 500}]
    /\ outbox \in Seq(Requests)
    /\ queue \in Seq(Requests)
    /\ channel \in {"open", "closed"}
    /\ faults \in 0..MaxFaults

(* The step of a handler determines the state of its transaction; rows are
   visible exactly when their transaction has committed. *)
TxInv ==
    /\ orders = {r \in Requests : tx[r] = "committed"}
    /\ \A r \in Requests :
          /\ pc[r] \in {"idle", "connect"} => tx[r] = "none"
          /\ pc[r] = "insert" => tx[r] = "begun"
          /\ pc[r] = "lookup" => tx[r] = "aborted"
          /\ pc[r] \in {"select", "commit"} => tx[r] = "inserted"
          /\ pc[r] = "dispose" => tx[r] \in {"inserted", "aborted", "committed"}
          /\ pc[r] \in {"publish", "broken"} => tx[r] = "committed"
          /\ pc[r] = "done" => tx[r] \in {"none", "aborted", "committed"}
          /\ pc[r] = "idle" => ask[r] = NoAsk
          /\ pc[r] \notin {"idle", "done"} => ask[r].key # None
          /\ tx[r] # "none" => ask[r].key # None

(* No two transactions hold the same idempotency key, committed or not. *)
KeyInv ==
    \A r, q \in Requests :
        HoldsRow(r) /\ HoldsRow(q) /\ ask[r].key = ask[q].key => r = q

(* A locked row belongs to a live transaction that asked for it, and nobody
   else changes its stock: what the owner read is still true.  A lock is never
   left behind by a request that is over. *)
LockInv ==
    \A p \in Products : lock[p] # None =>
        /\ tx[lock[p]] = "inserted"
        /\ p \in Rows(lock[p])
        /\ seen[lock[p]][p] = stock[p]

(* What the checks of the handler found still holds when it commits. *)
CommitInv ==
    \A r \in Requests : pc[r] = "commit" => Reservable(r)

(* A handler knows of an order only if it exists and has the handler's key. *)
OutcomeInv ==
    \A r \in Requests :
        /\ reply[r] # 0 <=> pc[r] = "done"
        /\ outcome[r].order = r <=> tx[r] = "committed"
        /\ outcome[r].order # None => outcome[r].status = 201 /\ KeyTaken(r, outcome[r].order)
        /\ outcome[r].order = None => outcome[r].status # 201
        /\ pc[r] \notin {"dispose", "publish", "broken", "done", "lost"} => outcome[r] = Open

(* The strengthening that the proofs carry through every step. *)
IInv == TypeOK /\ TxInv /\ KeyInv /\ LockInv /\ CommitInv /\ OutcomeInv

(* The stock of a product and what the orders took of it add up to what there
   was: no reservation is lost, doubled or left behind by a failed request. *)
StockConserved ==
    \A p \in Products :
        InitialStock[p] = stock[p] + MapThenSumSet(LAMBDA o : LinesOf(ask[o].cart)[p], orders)

UsesConnection == {"insert", "lookup", "select", "commit", "dispose", "broken"}

(* Connections are neither leaked nor given back twice, whatever fails. *)
PoolAccounted ==
    idle + Cardinality({r \in Requests : pc[r] \in UsesConnection}) = PoolSize

Published == queue \o outbox

(* An order is published at most once, only after it is committed, and only
   when its client is told 201: no retry publishes it again. *)
PublishedOnce ==
    /\ \A i, j \in DOMAIN Published : Published[i] = Published[j] => i = j
    /\ \A i \in DOMAIN Published :
          /\ Published[i] \in orders
          /\ reply[Published[i]] = 201

(* Every item of the cart names a product of its own. *)
Serviceable(cart) ==
    \A i \in DOMAIN cart :
        /\ cart[i].id \in Products
        /\ \A j \in DOMAIN cart : cart[i].id = cart[j].id => i = j

View(body) ==
    [key |-> body.key, lines |-> LinesOf(body.cart), known |-> Serviceable(body.cart)]

Ledger == INSTANCE OrderLedger WITH
    Ids <- Requests,
    Asks <- {View(b) : b \in UNION {Inbox[r] : r \in Requests}},
    ask <- [r \in Requests |-> View(ask[r])]

(* The concurrent handlers implement the ledger of one-step transactions: one
   order per key, stock taken once and only when all of it is there, and
   replies that tell the truth. *)
ImplementsLedger == Ledger!Spec

(* Duplicates hold every connection of the pool, and each of them waits for one
   more (orders.repository.ts:50). *)
PoolStarved == Cardinality({r \in Requests : pc[r] = "lookup"}) >= PoolSize

(* Every request that is accepted is answered, unless the process dies or the
   pool is starved for good: whatever waits for a key, a row or a connection
   goes on, and duplicates that leave one connection to the others, which are
   fewer than PoolSize at a time, keep nobody from his answer. *)
Answered ==
    \/ <>[]PoolStarved
    \/ \A r \in Requests : pc[r] = "connect" ~> pc[r] \in {"done", "lost"}

(* docs/task-3-transactions: a subsequent request with the same key returns the
   order that was created. *)
RetryReturnsOrder == \A r \in Requests : pc[r] = "lookup" ~> pc[r] \in {"done", "lost"}

(* README, main business flow, step 5: the API publishes a message for the
   order it has created. *)
EveryOrderIsPublished ==
    \A r \in Requests : r \in orders ~> \E i \in DOMAIN queue : queue[i] = r
=============================================================================
