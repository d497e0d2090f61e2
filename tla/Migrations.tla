----------------------------- MODULE Migrations -----------------------------
(***************************************************************************)
(* The schema migrations and the jobs that run and revert them beside a    *)
(* live API (npm run db:migrate, db:revert; the migrate service of         *)
(* compose.yml).  A migration is a sequence of SQL statements over the     *)
(* objects of the schema; TypeORM runs all the pending ones in one         *)
(* transaction, and reverts the last one in one.                           *)
(***************************************************************************)
EXTENDS Naturals, Sequences

CONSTANTS Users,      \* users who may sign up
          Orders,     \* orders that may be placed
          Jobs,       \* migration jobs that exist at one time
          Releases,   \* releases that are deployed, named by their last migration
          MaxStarts,  \* bound on jobs started
          MaxFaults   \* bound on jobs that die or lose their connection

ASSUME MigrationsAssumption ==
    /\ Releases \subseteq 1..6
    /\ MaxStarts \in Nat /\ MaxFaults \in Nat

-----------------------------------------------------------------------------
(* Objects of a schema: "in" is the table or type an object belongs to,
   "uses" what it names besides. *)

Object(kind, name, in, uses) == [kind |-> kind, name |-> name, in |-> in, uses |-> uses]

Table(t) == Object("table", t, t, {})
Type(ty) == Object("type", ty, ty, {})
Enum(ty, labels) == {Type(ty)} \cup {Object("label", l, ty, {}) : l \in labels}
Column(t, c) == Object("column", c, t, {})
EnumColumn(t, c, ty) == Object("column", c, t, {ty})
NotNull(t, c) == Object("not_null", c, t, {})
Default(t, c) == Object("default", c, t, {})
Unique(name, t, cs) == Object("unique", name, t, cs)
Index(name, t, cs) == Object("index", name, t, cs)
ForeignKey(name, t, to) == Object("foreign_key", name, t, {to})

Required(t, cs) == {Column(t, c) : c \in cs} \cup {NotNull(t, c) : c \in cs}
Dates == {"created_at", "updated_at"}

Role == {EnumColumn("users", "role", "users_role_enum"),
         NotNull("users", "role"), Default("users", "role")}
Status(ty) == EnumColumn("orders", "status", ty)
StatusDefault == Default("orders", "status")

UsersEmail == Unique("UQ_users_email", "users", {"email"})
OrdersKey == Unique("UQ_orders_user_id_idempotency_key", "orders", {"user_id", "idempotency_key"})
OrdersUser == Index("IX_orders_user_id", "orders", {"user_id"})
Listing == Index("IX_orders_user_id_status_created_at", "orders", {"user_id", "status", "created_at"})
OrdersFK == ForeignKey("FK_orders_user_id_users_id", "orders", "users")
ItemsOrderFK == ForeignKey("FK_order_items_order_id_orders_id", "order_items", "orders")
ItemsProductFK == ForeignKey("FK_order_items_product_id_products_id", "order_items", "products")

TProducts ==
    {Table("products"), Unique("PK_products_id", "products", {"id"})}
    \cup Required("products", {"id", "title", "description", "stock", "price"} \cup Dates)
TItems ==
    {Table("order_items"),
     Unique("PK_order_items_order_id_product_id", "order_items", {"order_id", "product_id"})}
    \cup Required("order_items", {"order_id", "product_id", "qty", "purchase_price"} \cup Dates)
TMessages ==
    {Table("processed_messages"),
     Unique("PK_processed_messages_id", "processed_messages", {"id"}),
     Unique("UQ_processed_messages_message_id_handler", "processed_messages", {"message_id", "handler"})}
    \cup Required("processed_messages", {"id", "message_id", "handler", "processed_at"})

(* The schema the entities of this release expect *)
EUser ==
    {Table("users"), Unique("PK_users_id", "users", {"id"}), UsersEmail}
    \cup Required("users", {"id", "email", "password"} \cup Dates) \cup Role
    \cup Enum("users_role_enum", {"user", "admin"})
EOrder ==
    {Table("orders"), Unique("PK_orders_id", "orders", {"id"}),
     Listing, OrdersKey, OrdersUser, OrdersFK,
     Status("orders_status_enum"), NotNull("orders", "status"), StatusDefault,
     Column("orders", "processed_at")}
    \cup Required("orders", {"id", "user_id", "idempotency_key"} \cup Dates)
    \cup Enum("orders_status_enum", {"created", "canceled", "processed", "paid"})
EOrderItem == TItems \cup {ItemsOrderFK, ItemsProductFK}
EProduct == TProducts
EProcessedMessage == TMessages
Entities == EUser \cup EOrder \cup EOrderItem \cup EProduct \cup EProcessedMessage

-----------------------------------------------------------------------------
(* Statements. *)

Create(objects) == [op |-> "create", what |-> objects]
Drop(object) == [op |-> "drop", what |-> {object}]
Rename(ty, new) == [op |-> "rename", what |-> {Type(ty)}, to |-> new]
Retype(column) == [op |-> "retype", what |-> {column}]
FillKeys == [op |-> "fill", what |-> {Column("orders", "idempotency_key")}]

(* The row of a migration in the table "migrations" *)
Record(n) == [op |-> "record", what |-> {}, row |-> n]
Forget(n) == [op |-> "forget", what |-> {}, row |-> n]

-----------------------------------------------------------------------------
(* The migrations. *)

Up1 == <<
    Create(Enum("users_role_enum", {"user", "admin"})),
    Create({Table("users"), UsersEmail, Unique("PK_users_id", "users", {"id"})}
           \cup Required("users", {"id", "email"} \cup Dates) \cup Role),
    Create(TProducts),
    Create(Enum("orders_status_enum", {"created", "canceled", "paid"})),
    Create({Table("orders"), Unique("PK_orders_id", "orders", {"id"}),
            Status("orders_status_enum"), NotNull("orders", "status"), StatusDefault}
           \cup Required("orders", {"id", "user_id"} \cup Dates)),
    Create({OrdersUser}),
    Create(TItems),
    Create({OrdersFK}),
    Create({ItemsOrderFK}),
    Create({ItemsProductFK}) >>

Down1 == <<
    Drop(ItemsProductFK),
    Drop(ItemsOrderFK),
    Drop(OrdersFK),
    Drop(Table("order_items")),
    Drop(OrdersUser),
    Drop(Table("orders")),
    Drop(Type("orders_status_enum")),
    Drop(Table("products")),
    Drop(Table("users")),
    Drop(Type("users_role_enum")) >>

(* Mutant: the column is left without values. *)
Up2NoValues == <<
    Create({Column("orders", "idempotency_key")}),
    Create({OrdersKey}) >>

Up2 == <<
    Create({Column("orders", "idempotency_key")}),
    FillKeys,
    Create({NotNull("orders", "idempotency_key")}),
    Create({OrdersKey}) >>

Down2 == << Drop(OrdersKey), Drop(Column("orders", "idempotency_key")) >>

Up3 == << Create({Listing}) >>
Down3 == << Drop(Listing) >>

(* Mutant: the index is not dropped before it is created. *)
Up4KeepsIndex == <<
    Create({Column("orders", "processed_at")}),
    Rename("orders_status_enum", "orders_status_enum_old"),
    Create(Enum("orders_status_enum", {"created", "canceled", "processed", "paid"})),
    Drop(StatusDefault),
    Retype(Status("orders_status_enum")),
    Create({StatusDefault}),
    Drop(Type("orders_status_enum_old")),
    Create({Listing}) >>

Up4 == <<
    Create({Column("orders", "processed_at")}),
    Drop(Listing),
    Rename("orders_status_enum", "orders_status_enum_old"),
    Create(Enum("orders_status_enum", {"created", "canceled", "processed", "paid"})),
    Drop(StatusDefault),
    Retype(Status("orders_status_enum")),
    Create({StatusDefault}),
    Drop(Type("orders_status_enum_old")),
    Create({Listing}) >>

(* Mutant: the index is not created again. *)
Down4NoIndex == <<
    Drop(Listing),
    Create(Enum("orders_status_enum_old", {"created", "canceled", "paid"})),
    Drop(StatusDefault),
    Retype(Status("orders_status_enum_old")),
    Create({StatusDefault}),
    Drop(Type("orders_status_enum")),
    Rename("orders_status_enum_old", "orders_status_enum"),
    Drop(Column("orders", "processed_at")) >>

Down4 == <<
    Drop(Listing),
    Create(Enum("orders_status_enum_old", {"created", "canceled", "paid"})),
    Drop(StatusDefault),
    Retype(Status("orders_status_enum_old")),
    Create({StatusDefault}),
    Drop(Type("orders_status_enum")),
    Rename("orders_status_enum_old", "orders_status_enum"),
    Create({Listing}),
    Drop(Column("orders", "processed_at")) >>

Up5 == << Create(TMessages) >>
Down5 == << Drop(Table("processed_messages")) >>

Up6 == << Create(Required("users", {"password"})) >>
Down6 == << Drop(Column("users", "password")) >>

Up == <<Up1, Up2, Up3, Up4, Up5, Up6>>
Down == <<Down1, Down2, Down3, Down4, Down5, Down6>>

-----------------------------------------------------------------------------
(* What PostgreSQL does with a statement.  A database is a schema, the rows
   that have a value in a column the migrations add or convert, and the
   executed migrations. *)

Empty == [schema |-> {}, users |-> {}, passwords |-> {},
          status |-> <<>>, keys |-> {}, done |-> {}]

Named(schema, kind, in, name) ==
    {o \in schema : o.kind = kind /\ o.in = in /\ o.name = name}
HasTable(d, t) == Table(t) \in d.schema
HasColumn(d, t, c) == Named(d.schema, "column", t, c) # {}
Labels(schema, ty) == {o.name : o \in {p \in schema : p.kind = "label" /\ p.in = ty}}

(* Rows without a value in a column that must have one *)
NullRows(d, o) ==
    IF o.in = "users" /\ o.name = "password" THEN d.users \ d.passwords
    ELSE IF o.in = "orders" /\ o.name = "idempotency_key" THEN DOMAIN d.status \ d.keys
    ELSE {}

(* What goes with a dropped object *)
Parts(schema, o) ==
    {p \in schema : \/ p = o
                    \/ o.kind \in {"table", "type"} /\ p.in = o.name
                    \/ /\ o.kind = "column" /\ p.in = o.in
                       /\ p.name = o.name \/ o.name \in p.uses}
InUse(schema, o) ==
    /\ o.kind \in {"table", "type"}
    /\ \E p \in schema \ Parts(schema, o) : o.name \in p.uses

Refused(s, d) ==
    \/ /\ s.op = "create"
       /\ \E o \in s.what :
             \/ Named(d.schema, o.kind, o.in, o.name) # {}
             \/ \E n \in {o.in} \cup o.uses : \A p \in d.schema \cup s.what : p.name # n
             \/ o.kind = "not_null" /\ NullRows(d, o) # {}
    \/ /\ s.op = "drop"
       /\ \E o \in s.what : o \notin d.schema \/ InUse(d.schema, o)
    \/ /\ s.op = "rename"
       /\ \/ ~ s.what \subseteq d.schema
          \/ Type(s.to) \in d.schema
    \/ /\ s.op = "retype"    \* of a column whose default cannot be converted, or a value
       /\ \E o \in s.what :
             \/ Default(o.in, o.name) \in d.schema
             \/ \E r \in DOMAIN d.status :
                   d.status[r] \notin UNION {Labels(d.schema, ty) : ty \in o.uses}
    \/ s.op = "fill" /\ ~ s.what \subseteq d.schema

(* Mutant: the values are not converted. *)
CastLost(label) == "created"

(* USING "status"::"text"::"orders_status_enum" *)
Cast(label) == label

Renamed(o, old, new) ==
    LET NewName(name) == IF name = old THEN new ELSE name
    IN  [o EXCEPT !.name = NewName(@), !.in = NewName(@), !.uses = {NewName(u) : u \in @}]

The(objects) == CHOOSE o \in objects : TRUE

(* The rows that are left in the tables and columns of a schema *)
Kept(d, schema) ==
    LET e == [d EXCEPT !.schema = schema]
    IN  [e EXCEPT !.users = IF HasTable(e, "users") THEN @ ELSE {},
                  !.passwords = IF HasColumn(e, "users", "password") THEN @ ELSE {},
                  !.status = IF HasTable(e, "orders") THEN @ ELSE <<>>,
                  !.keys = IF HasColumn(e, "orders", "idempotency_key") THEN @ ELSE {}]

Executed(s, d) ==
    CASE s.op = "create" -> [d EXCEPT !.schema = @ \cup s.what]
      [] s.op = "drop" -> Kept(d, d.schema \ UNION {Parts(d.schema, o) : o \in s.what})
      [] s.op = "rename" ->
            [d EXCEPT !.schema = {Renamed(o, The(s.what).name, s.to) : o \in @}]
      [] s.op = "retype" ->
            [d EXCEPT !.schema = s.what \cup (@ \ Named(@, "column", The(s.what).in, The(s.what).name)),
                      !.status = [r \in DOMAIN @ |-> Cast(@[r])]]
      [] s.op = "fill" -> [d EXCEPT !.keys = DOMAIN d.status]
      [] s.op = "record" -> [d EXCEPT !.done = @ \cup {s.row}]
      [] s.op = "forget" -> [d EXCEPT !.done = @ \ {s.row}]

(* Tables that are locked against writes until the transaction ends *)
TableNames == {"users", "products", "orders", "order_items", "processed_messages"}
Locks(s) == TableNames \cap UNION {{o.in} \cup o.uses : o \in s.what}

(* What the later migrations have added to the schema the entities expect,
   and so the schema after the first k of them *)
Added(n) ==
    CASE n = 2 -> Required("orders", {"idempotency_key"}) \cup {OrdersKey}
      [] n = 3 -> {Listing}
      [] n = 4 -> {Column("orders", "processed_at"),
                   Object("label", "processed", "orders_status_enum", {})}
      [] n = 5 -> TMessages
      [] n = 6 -> Required("users", {"password"})
SchemaAfter(k) == IF k = 0 THEN {} ELSE Entities \ UNION {Added(n) : n \in (k + 1)..6}

-----------------------------------------------------------------------------
(* Migration jobs and the API. *)

VARIABLES
    db,       \* the committed database
    work,     \* the database as the running transaction sees it
    locked,   \* tables it has locked
    job,      \* the job of each slot
    starts, faults

vars == <<db, work, locked, job, starts, faults>>

NoJob == [step |-> "none", kind |-> "none", plan |-> <<>>, from |-> {}]
Ended == {"none", "committed", "refused", "died"}

Init ==
    /\ db = Empty
    /\ work = Empty
    /\ locked = {}
    /\ job = [j \in Jobs |-> NoJob]
    /\ starts = 0 /\ faults = 0

Running == {j \in Jobs : job[j].step = "running"}

(* Jobs run at the same time only if they all are runs: that an operator
   reverts alone is an assumption, nothing in the code ensures it. *)
Start(j, kind, plan) ==
    /\ job[j].step \in Ended
    /\ \A i \in Jobs : job[i].step \notin Ended => job[i].kind = "run" /\ kind = "run"
    /\ starts < MaxStarts
    /\ starts' = starts + 1
    /\ job' = [job EXCEPT ![j] = [step |-> "loaded", kind |-> kind, plan |-> plan, from |-> db.done]]
    /\ UNCHANGED <<db, work, locked, faults>>

(* Each pending migration, then its row, in order *)
PlanOf(pending) ==
    LET Of(n) == IF n \in pending THEN Append(Up[n], Record(n)) ELSE <<>>
    IN  Of(1) \o Of(2) \o Of(3) \o Of(4) \o Of(5) \o Of(6)

(* migration:run of release r: the pending migrations are read before the
   transaction begins. *)
LoadRun(j, r) ==
    LET pending == 1..r \ db.done
    IN  /\ pending # {}
        /\ Start(j, "run", PlanOf(pending))

(* migration:revert: the last executed migration. *)
LoadRevert(j) ==
    \E n \in db.done :
        /\ \A m \in db.done : m <= n
        /\ Start(j, "revert", Append(Down[n], Forget(n)))

(* The first statement waits for the transaction of another job to end: both
   would change the same object. *)
Begin(j) ==
    /\ job[j].step = "loaded"
    /\ Running = {}
    /\ job' = [job EXCEPT ![j].step = "running"]
    /\ UNCHANGED <<db, work, locked, starts, faults>>

Statement(j) == Head(job[j].plan)

Execute(j) ==
    /\ job[j].step = "running"
    /\ job[j].plan # <<>>
    /\ ~ Refused(Statement(j), work)
    /\ work' = Executed(Statement(j), work)
    /\ locked' = locked \cup Locks(Statement(j))
    /\ job' = [job EXCEPT ![j].plan = Tail(@)]
    /\ UNCHANGED <<db, starts, faults>>

(* Mutant: the transaction is left open. *)
LeaveOpen(j, step) == UNCHANGED <<job, work, locked>>

(* Mutant: the connection of a failed job is kept, and its locks with it. *)
KeepLocks(j, step) ==
    /\ job' = [job EXCEPT ![j] = [NoJob EXCEPT !.step = step]]
    /\ work' = db
    /\ UNCHANGED locked

Rollback(j, step) ==
    /\ job' = [job EXCEPT ![j] = [NoJob EXCEPT !.step = step]]
    /\ work' = db
    /\ locked' = {}

Refuse(j) ==
    /\ job[j].step = "running"
    /\ job[j].plan # <<>>
    /\ Refused(Statement(j), work)
    /\ Rollback(j, "refused")
    /\ UNCHANGED <<db, starts, faults>>

Commit(j) ==
    /\ job[j].step = "running"
    /\ job[j].plan = <<>>
    /\ db' = work
    /\ locked' = {}
    /\ job' = [job EXCEPT ![j] = [NoJob EXCEPT !.step = "committed"]]
    /\ UNCHANGED <<work, starts, faults>>

(* The container stops, the connection is lost, PostgreSQL breaks a deadlock
   with a transaction of the API. *)
Die(j) ==
    /\ job[j].step = "running"
    /\ faults < MaxFaults
    /\ faults' = faults + 1
    /\ Rollback(j, "died")
    /\ UNCHANGED <<db, starts>>

(* The API commits a row in tables no job has locked: of this release, or of
   the earlier one that fits the schema. *)
Writable(tables) ==
    /\ \A t \in tables : HasTable(db, t)
    /\ tables \cap locked = {}
    /\ UNCHANGED <<locked, job, starts, faults>>

WithUser(d, u) ==
    [d EXCEPT !.users = @ \cup {u},
              !.passwords = IF HasColumn(db, "users", "password") THEN @ \cup {u} ELSE @]
WithOrder(d, o) ==
    [d EXCEPT !.status = [x \in DOMAIN @ \cup {o} |-> IF x = o THEN "created" ELSE @[x]],
              !.keys = IF HasColumn(db, "orders", "idempotency_key") THEN @ \cup {o} ELSE @]
WithStatus(d, o, label) == [d EXCEPT !.status[o] = label]

SignUp(u) ==
    /\ u \notin db.users
    /\ Writable({"users"})
    /\ db' = WithUser(db, u) /\ work' = WithUser(work, u)

PlaceOrder(o) ==
    /\ o \notin DOMAIN db.status
    /\ db.users # {}
    /\ Writable({"users", "products", "orders", "order_items"})
    /\ db' = WithOrder(db, o) /\ work' = WithOrder(work, o)

Settle(o, label) ==
    /\ o \in DOMAIN db.status
    /\ db.status[o] = "created"
    /\ label \in Labels(db.schema, "orders_status_enum")
    /\ Writable({"orders"})
    /\ db' = WithStatus(db, o, label) /\ work' = WithStatus(work, o, label)

ProcessOrder(o) == Settle(o, "processed")

(* Nothing in src marks an order as paid; the label is there for what will. *)
PayOrder(o) == Settle(o, "paid")

Quiet ==
    /\ \A j \in Jobs : job[j].step \in Ended
    /\ UNCHANGED vars

Progress(j) == Begin(j) \/ Execute(j) \/ Refuse(j) \/ Commit(j)

Next ==
    \/ \E j \in Jobs :
          \/ \E r \in Releases : LoadRun(j, r)
          \/ LoadRevert(j)
          \/ Begin(j)
          \/ Execute(j)
          \/ Refuse(j)
          \/ Commit(j)
          \/ Die(j)
    \/ \E u \in Users : SignUp(u)
    \/ \E o \in Orders : PlaceOrder(o) \/ ProcessOrder(o) \/ PayOrder(o)
    \/ Quiet

Spec == Init /\ [][Next]_vars

(* PostgreSQL answers every statement; a job that waits gets the lock. *)
FairSpec == Spec /\ \A j \in Jobs : SF_vars(Progress(j))

-----------------------------------------------------------------------------
(* Properties. *)

(* Every variable has its type; outside a job's transaction its view is the
   committed database. *)
TypeOK ==
    /\ \A d \in {db, work} :
          /\ \A o \in d.schema : o = Object(o.kind, o.name, o.in, o.uses)
          /\ d.users \subseteq Users
          /\ DOMAIN d.status \subseteq Orders
          /\ d.done \subseteq 1..6
    /\ locked \subseteq TableNames
    /\ \A j \in Jobs : job[j].step \in Ended \cup {"loaded", "running"}
    /\ Running = {} => work = db /\ locked = {}
    /\ starts \in 0..MaxStarts /\ faults \in 0..MaxFaults

(* Whatever jobs ran, failed, died or were reverted, in whatever order, the
   executed migrations are the first k, and the schema is the one the entities
   expect less what the other migrations add. *)
SchemaFitsHistory ==
    \E k \in 0..6 : db.done = 1..k /\ db.schema = SchemaAfter(k)

(* A row written under an earlier schema has all the entities expect of it in
   the columns that exist: a user a password, an order a key, and a status
   that is a label. *)
RowsFitSchema ==
    /\ \A o \in Entities :
          o.kind = "not_null" /\ HasColumn(db, o.in, o.name) => NullRows(db, o) = {}
    /\ \A o \in DOMAIN db.status : \E p \in db.schema :
          /\ p.kind = "column" /\ p.in = "orders" /\ p.name = "status"
          /\ db.status[o] \in UNION {Labels(db.schema, ty) : ty \in p.uses}

(* No migration and no failure of one loses a user, an order, the status of
   an order, a password or a key, unless it is the revert that drops the
   table or the column. *)
RowsSurvive ==
    [][ /\ HasTable(db', "users") => db.users \subseteq db'.users
        /\ HasColumn(db', "users", "password") => db.passwords \subseteq db'.passwords
        /\ HasColumn(db', "orders", "idempotency_key") => db.keys \subseteq db'.keys
        /\ HasTable(db', "orders") =>
              \A o \in DOMAIN db.status :
                  /\ o \in DOMAIN db'.status
                  /\ db'.status[o] # db.status[o] => job' = job
      ]_vars

(* A job whose plan is up to date is refused for the rows only: the password
   column by users, the earlier labels by a processed order.  No statement
   of a migration stands in the way of another, up or down. *)
RefusedForRowsOnly ==
    [][ \A j \in Jobs :
          job[j].step = "running" /\ job'[j].step = "refused" /\ job[j].from = db.done =>
              \/ NotNull("users", "password") \in Statement(j).what /\ work.users # {}
              \/ /\ Status("orders_status_enum_old") \in Statement(j).what
                 /\ \E o \in DOMAIN work.status : work.status[o] = "processed"
      ]_vars

(* Every job ends, and with it the locks that keep the API from writing. *)
JobsEnd == \A j \in Jobs : job[j].step \in {"loaded", "running"} ~> job[j].step \in Ended
=============================================================================
