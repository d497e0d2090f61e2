-------------------------- MODULE MigrationsProofs --------------------------
(***************************************************************************)
(* Proofs about Migrations for any users, orders, jobs and releases: what  *)
(* the statements of the migrations do to the tables, the columns and      *)
(* their rows, whatever else the schema holds; which schema the plan of a  *)
(* job leads from and to; that the rows fit the schema; and what a job can *)
(* be refused for.                                                         *)
(***************************************************************************)
EXTENDS Migrations, SequenceTheorems, TLAPS

-----------------------------------------------------------------------------
(* Objects, databases and statements. *)

Kinds == {"table", "type", "label", "column", "not_null", "default",
          "unique", "index", "foreign_key"}

IsObject(o) ==
    /\ o \in [kind : Kinds, name : {o.name}, in : {o.in}, uses : {o.uses}]
    /\ o.kind = "not_null" => o.uses = {}

Statuses == {"created", "canceled", "processed", "paid"}
Rows == UNION {[R -> Statuses] : R \in SUBSET Orders}

IsDatabase(d) ==
    /\ d \in [schema : {d.schema}, users : SUBSET Users, passwords : SUBSET Users,
              status : Rows, keys : SUBSET Orders, done : SUBSET (1..6)]
    /\ \A o \in d.schema : IsObject(o)

(* The names that the type of orders.status has in turn *)
StatusTypes == {"orders_status_enum", "orders_status_enum_old"}

(* No type or column has the name of a table. *)
DropStep(s) ==
    /\ s.op = "drop"
    /\ \E o : /\ s.what = {o} /\ IsObject(o)
              /\ o.kind = "table" => o.in = o.name
              /\ o.kind \in {"type", "column"} => o.name \notin TableNames

CreateStep(s) == s.op = "create" /\ \A o \in s.what : IsObject(o)

RenameStep(s) ==
    /\ s.op = "rename" /\ s.to \in StatusTypes
    /\ \E ty \in StatusTypes : s.what = {Type(ty)}

RetypeStep(s) == s.op = "retype" /\ \E ty \in StatusTypes : s.what = {Status(ty)}

FillStep(s) == s.op = "fill" /\ s.what = {Column("orders", "idempotency_key")}

RowStep(s) == s.op \in {"record", "forget"} /\ s.row \in 1..6

(* A table or a column holds rows, nothing else does. *)
HoldsRows(o) == o.kind \in {"table", "column"}

(* A statement of an up drops no table and no column. *)
UpStep(s) ==
    \/ CreateStep(s) \/ RenameStep(s) \/ RetypeStep(s) \/ FillStep(s) \/ RowStep(s)
    \/ DropStep(s) /\ \A o \in s.what : ~ HoldsRows(o)

(* A statement of a down creates none, and requires no value. *)
DownStep(s) ==
    \/ DropStep(s) \/ RenameStep(s) \/ RetypeStep(s) \/ RowStep(s)
    \/ CreateStep(s) /\ \A o \in s.what : ~ HoldsRows(o) /\ o.kind # "not_null"

UpPlan(p) == \E S : p \in Seq(S) /\ \A s \in S : UpStep(s)
DownPlan(p) == \E S : p \in Seq(S) /\ \A s \in S : DownStep(s)

(* The objects of the model are objects. *)
LEMMA TableType == ASSUME NEW t PROVE IsObject(Table(t)) /\ Table(t).kind = "table"
BY DEF Table, Object, IsObject, Kinds

LEMMA TypeType == ASSUME NEW ty PROVE IsObject(Type(ty)) /\ Type(ty).kind = "type"
BY DEF Type, Object, IsObject, Kinds

LEMMA PartTypes ==
    ASSUME NEW t, NEW c
    PROVE  /\ IsObject(Column(t, c)) /\ IsObject(NotNull(t, c)) /\ IsObject(Default(t, c))
           /\ \A ty : IsObject(EnumColumn(t, c, ty)) /\ IsObject(ForeignKey(c, t, ty))
           /\ \A cs : IsObject(Unique(c, t, cs)) /\ IsObject(Index(c, t, cs))
<1>1. IsObject(Column(t, c))
  BY DEF Column, Object, IsObject, Kinds
<1>2. IsObject(NotNull(t, c))
  BY DEF NotNull, Object, IsObject, Kinds
<1>3. IsObject(Default(t, c))
  BY DEF Default, Object, IsObject, Kinds
<1>4. ASSUME NEW ty PROVE IsObject(EnumColumn(t, c, ty)) /\ IsObject(ForeignKey(c, t, ty))
  BY DEF EnumColumn, ForeignKey, Object, IsObject, Kinds
<1>5. ASSUME NEW cs PROVE IsObject(Unique(c, t, cs)) /\ IsObject(Index(c, t, cs))
  BY DEF Unique, Index, Object, IsObject, Kinds
<1> QED
  BY <1>1, <1>2, <1>3, <1>4, <1>5

LEMMA RequiredType ==
    ASSUME NEW t, NEW cs
    PROVE  \A o \in Required(t, cs) : IsObject(o)
<1>1. \A c \in cs : IsObject(Column(t, c)) /\ IsObject(NotNull(t, c))
  BY PartTypes
<1> QED
  BY <1>1 DEF Required

LEMMA EnumType ==
    ASSUME NEW ty, NEW ls
    PROVE  \A o \in Enum(ty, ls) : IsObject(o) /\ ~ HoldsRows(o) /\ o.kind # "not_null"
<1>1. ASSUME NEW l
      PROVE  IsObject(Object("label", l, ty, {})) /\ Object("label", l, ty, {}).kind = "label"
  BY DEF Object, IsObject, Kinds
<1>2. IsObject(Type(ty)) /\ Type(ty).kind = "type"
  BY TypeType
<1>3. /\ ~ HoldsRows(Type(ty)) /\ Type(ty).kind # "not_null"
      /\ \A l : ~ HoldsRows(Object("label", l, ty, {})) /\ Object("label", l, ty, {}).kind # "not_null"
  BY <1>1, <1>2 DEF HoldsRows
<1> QED
  BY <1>1, <1>2, <1>3 DEF Enum

(* Which statements are steps of an up and of a down *)
LEMMA CreateSteps ==
    ASSUME NEW what, \A o \in what : IsObject(o)
    PROVE  /\ UpStep(Create(what))
           /\ (\A o \in what : ~ HoldsRows(o) /\ o.kind # "not_null") => DownStep(Create(what))
BY DEF Create, UpStep, DownStep, CreateStep

LEMMA DropSteps ==
    ASSUME NEW o, IsObject(o),
           o.kind = "table" => o.in = o.name,
           o.kind \in {"type", "column"} => o.name \notin TableNames
    PROVE  /\ DownStep(Drop(o))
           /\ ~ HoldsRows(o) => UpStep(Drop(o))
<1>1. Drop(o).op = "drop" /\ Drop(o).what = {o}
  BY DEF Drop
<1>2. DropStep(Drop(o))
  BY <1>1 DEF DropStep
<1> QED
  BY <1>1, <1>2 DEF UpStep, DownStep

LEMMA OtherSteps ==
    /\ UpStep(FillKeys)
    /\ \A ty, new \in StatusTypes : UpStep(Rename(ty, new)) /\ DownStep(Rename(ty, new))
    /\ \A ty \in StatusTypes : UpStep(Retype(Status(ty))) /\ DownStep(Retype(Status(ty)))
    /\ \A n \in 1..6 : UpStep(Record(n)) /\ DownStep(Forget(n))
<1>1. UpStep(FillKeys)
  BY DEF FillKeys, UpStep, FillStep
<1>2. ASSUME NEW ty \in StatusTypes, NEW new \in StatusTypes
      PROVE  RenameStep(Rename(ty, new))
  BY DEF Rename, RenameStep
<1>3. ASSUME NEW ty \in StatusTypes
      PROVE  RetypeStep(Retype(Status(ty)))
  BY DEF Retype, RetypeStep
<1>4. ASSUME NEW n \in 1..6 PROVE RowStep(Record(n)) /\ RowStep(Forget(n))
  BY DEF Record, Forget, RowStep
<1> QED
  BY <1>1, <1>2, <1>3, <1>4 DEF UpStep, DownStep

(* A plan of statements that are steps one by one *)
LEMMA Tuples ==
    /\ \A S, a : a \in S => <<a>> \in Seq(S)
    /\ \A S, a, b : {a, b} \subseteq S => <<a, b>> \in Seq(S)
    /\ \A S, a, b, c, d : {a, b, c, d} \subseteq S => <<a, b, c, d>> \in Seq(S)
    /\ \A S, a, b, c, d, e, f, g, h, i :
          {a, b, c, d, e, f, g, h, i} \subseteq S => <<a, b, c, d, e, f, g, h, i>> \in Seq(S)
    /\ \A S, a, b, c, d, e, f, g, h, i, j :
          {a, b, c, d, e, f, g, h, i, j} \subseteq S => <<a, b, c, d, e, f, g, h, i, j>> \in Seq(S)
<1>1. \A S, a : a \in S => <<a>> \in Seq(S)
  OBVIOUS
<1>2. \A S, a, b : {a, b} \subseteq S => <<a, b>> \in Seq(S)
  OBVIOUS
<1>3. \A S, a, b, c, d : {a, b, c, d} \subseteq S => <<a, b, c, d>> \in Seq(S)
  OBVIOUS
<1>4. \A S, a, b, c, d, e, f, g, h, i :
        {a, b, c, d, e, f, g, h, i} \subseteq S => <<a, b, c, d, e, f, g, h, i>> \in Seq(S)
  OBVIOUS
<1>5. \A S, a, b, c, d, e, f, g, h, i, j :
        {a, b, c, d, e, f, g, h, i, j} \subseteq S => <<a, b, c, d, e, f, g, h, i, j>> \in Seq(S)
  OBVIOUS
<1> QED
  BY <1>1, <1>2, <1>3, <1>4, <1>5

LEMMA NamedObjects ==
    /\ \A o \in {UsersEmail, OrdersKey, OrdersUser, Listing, OrdersFK, ItemsOrderFK,
                 ItemsProductFK, StatusDefault} :
          IsObject(o) /\ ~ HoldsRows(o) /\ o.kind \notin {"type", "not_null"}
    /\ \A ty : IsObject(Status(ty))
    /\ \A o \in Role : IsObject(o)
    /\ \A n, t, cs : IsObject(Unique(n, t, cs))
    /\ \A o \in TProducts \cup TItems \cup TMessages : IsObject(o)
<1>1. \A o \in {UsersEmail, OrdersKey} :
        IsObject(o) /\ ~ HoldsRows(o) /\ o.kind \notin {"type", "not_null"}
  <2>1. UsersEmail.kind = "unique" /\ OrdersKey.kind = "unique"
    BY DEF UsersEmail, OrdersKey, Unique, Object
  <2>2. IsObject(UsersEmail) /\ IsObject(OrdersKey)
    BY PartTypes DEF UsersEmail, OrdersKey
  <2> QED
    BY <2>1, <2>2 DEF HoldsRows
<1>2. \A o \in {OrdersUser, Listing} :
        IsObject(o) /\ ~ HoldsRows(o) /\ o.kind \notin {"type", "not_null"}
  <2>1. OrdersUser.kind = "index" /\ Listing.kind = "index"
    BY DEF OrdersUser, Listing, Index, Object
  <2>2. IsObject(OrdersUser) /\ IsObject(Listing)
    BY PartTypes DEF OrdersUser, Listing
  <2> QED
    BY <2>1, <2>2 DEF HoldsRows
<1>3. \A o \in {OrdersFK, ItemsOrderFK, ItemsProductFK} :
        IsObject(o) /\ ~ HoldsRows(o) /\ o.kind \notin {"type", "not_null"}
  <2>1. /\ OrdersFK.kind = "foreign_key" /\ ItemsOrderFK.kind = "foreign_key"
        /\ ItemsProductFK.kind = "foreign_key"
    BY DEF OrdersFK, ItemsOrderFK, ItemsProductFK, ForeignKey, Object
  <2>2. IsObject(OrdersFK) /\ IsObject(ItemsOrderFK) /\ IsObject(ItemsProductFK)
    BY PartTypes DEF OrdersFK, ItemsOrderFK, ItemsProductFK
  <2> QED
    BY <2>1, <2>2 DEF HoldsRows
<1>4. IsObject(StatusDefault) /\ ~ HoldsRows(StatusDefault) /\ StatusDefault.kind \notin {"type", "not_null"}
  BY DEF StatusDefault, Default, Object, IsObject, HoldsRows, Kinds
<1>5. \A ty : IsObject(Status(ty))
  BY PartTypes DEF Status
<1>6. \A o \in Role : IsObject(o)
  BY PartTypes DEF Role
<1>7. \A n, t, cs : IsObject(Unique(n, t, cs))
  BY PartTypes
<1>8. \A o \in TProducts : IsObject(o)
  BY TableType, RequiredType, <1>7 DEF TProducts
<1>9. \A o \in TItems : IsObject(o)
  BY TableType, RequiredType, <1>7 DEF TItems
<1>10. \A o \in TMessages : IsObject(o)
  BY TableType, RequiredType, <1>7 DEF TMessages
<1> QED
  BY <1>1, <1>2, <1>3, <1>4, <1>5, <1>6, <1>7, <1>8, <1>9, <1>10

(* The ups are plans of up steps, the downs of down steps. *)
LEMMA Up1Plan == UpPlan(Up1)
<1> DEFINE a == Create(Enum("users_role_enum", {"user", "admin"}))
           b == Create({Table("users"), UsersEmail, Unique("PK_users_id", "users", {"id"})}
                       \cup Required("users", {"id", "email"} \cup Dates) \cup Role)
           c == Create(TProducts)
           d == Create(Enum("orders_status_enum", {"created", "canceled", "paid"}))
           e == Create({Table("orders"), Unique("PK_orders_id", "orders", {"id"}),
                        Status("orders_status_enum"), NotNull("orders", "status"), StatusDefault}
                       \cup Required("orders", {"id", "user_id"} \cup Dates))
           f == Create({OrdersUser})
           g == Create(TItems)
           h == Create({OrdersFK})
           i == Create({ItemsOrderFK})
           j == Create({ItemsProductFK})
<1>1. UpStep(a) /\ UpStep(d)
  BY EnumType, CreateSteps
<1>2. UpStep(b)
  <2>1. \A o \in {Table("users"), UsersEmail, Unique("PK_users_id", "users", {"id"})} : IsObject(o)
    BY TableType, NamedObjects
  <2>2. \A o \in Required("users", {"id", "email"} \cup Dates) \cup Role : IsObject(o)
    BY RequiredType, NamedObjects
  <2> QED
    BY <2>1, <2>2, CreateSteps
<1>3. UpStep(c) /\ UpStep(g)
  BY NamedObjects, CreateSteps
<1>4. UpStep(e)
  <2>1. \A o \in {Table("orders"), Unique("PK_orders_id", "orders", {"id"}),
                   Status("orders_status_enum"), NotNull("orders", "status"), StatusDefault} : IsObject(o)
    BY TableType, NamedObjects, PartTypes
  <2>2. \A o \in Required("orders", {"id", "user_id"} \cup Dates) : IsObject(o)
    BY RequiredType
  <2> QED
    BY <2>1, <2>2, CreateSteps
<1>5. UpStep(f) /\ UpStep(h) /\ UpStep(i) /\ UpStep(j)
  BY NamedObjects, CreateSteps
<1>6. Up1 = <<a, b, c, d, e, f, g, h, i, j>>
  BY DEF Up1
<1> HIDE DEF a, b, c, d, e, f, g, h, i, j
<1>7. Up1 \in Seq({a, b, c, d, e, f, g, h, i, j})
  BY <1>6, Tuples
<1>8. \A s \in {a, b, c, d, e, f, g, h, i, j} : UpStep(s)
  BY <1>1, <1>2, <1>3, <1>4, <1>5
<1> QED
  BY <1>7, <1>8 DEF UpPlan

LEMMA Up4Plan == UpPlan(Up4)
<1> DEFINE a == Create({Column("orders", "processed_at")})
           b == Drop(Listing)
           c == Rename("orders_status_enum", "orders_status_enum_old")
           d == Create(Enum("orders_status_enum", {"created", "canceled", "processed", "paid"}))
           e == Drop(StatusDefault)
           f == Retype(Status("orders_status_enum"))
           g == Create({StatusDefault})
           h == Drop(Type("orders_status_enum_old"))
           i == Create({Listing})
<1>1. UpStep(a)
  BY PartTypes, CreateSteps
<1>2. UpStep(b) /\ UpStep(e)
  BY NamedObjects, DropSteps DEF HoldsRows
<1>3. UpStep(c) /\ UpStep(f)
  BY OtherSteps DEF StatusTypes
<1>4. UpStep(d)
  BY EnumType, CreateSteps
<1>5. UpStep(g) /\ UpStep(i)
  BY NamedObjects, CreateSteps
<1>6. UpStep(h)
  <2>1. Type("orders_status_enum_old").name \notin TableNames
    BY DEF Type, Object, TableNames
  <2>2. Type("orders_status_enum_old").kind = "type" /\ ~ HoldsRows(Type("orders_status_enum_old"))
    BY TypeType DEF HoldsRows
  <2> QED
    BY <2>1, <2>2, TypeType, DropSteps
<1>7. Up4 = <<a, b, c, d, e, f, g, h, i>>
  BY DEF Up4
<1> HIDE DEF a, b, c, d, e, f, g, h, i
<1>8. Up4 \in Seq({a, b, c, d, e, f, g, h, i})
  BY <1>7, Tuples
<1>9. \A s \in {a, b, c, d, e, f, g, h, i} : UpStep(s)
  BY <1>1, <1>2, <1>3, <1>4, <1>5, <1>6
<1> QED
  BY <1>8, <1>9 DEF UpPlan

LEMMA OtherUpPlans == UpPlan(Up2) /\ UpPlan(Up3) /\ UpPlan(Up5) /\ UpPlan(Up6)
<1>1. UpPlan(Up2)
  <2> DEFINE a == Create({Column("orders", "idempotency_key")})
             b == FillKeys
             c == Create({NotNull("orders", "idempotency_key")})
             d == Create({OrdersKey})
  <2>1. UpStep(a) /\ UpStep(b) /\ UpStep(c) /\ UpStep(d)
    BY PartTypes, NamedObjects, OtherSteps, CreateSteps
  <2>2. Up2 = <<a, b, c, d>>
    BY DEF Up2
  <2> HIDE DEF a, b, c, d
  <2>3. Up2 \in Seq({a, b, c, d})
    BY <2>2, Tuples
  <2> QED
    BY <2>1, <2>3 DEF UpPlan
<1>2. ASSUME NEW what, \A o \in what : IsObject(o)
      PROVE  UpPlan(<<Create(what)>>)
  <2>1. UpStep(Create(what))
    BY <1>2, CreateSteps
  <2>2. PICK s : s = Create(what)
    OBVIOUS
  <2>3. PICK S : S = {s}
    OBVIOUS
  <2>4. <<s>> \in Seq(S) /\ \A x \in S : UpStep(x)
    BY <2>1, <2>2, <2>3, Tuples
  <2>5. UpPlan(<<s>>)
    BY <2>4 DEF UpPlan
  <2> QED
    BY <2>2, <2>5
<1>3. UpPlan(Up3)
  BY <1>2, NamedObjects DEF Up3
<1>4. UpPlan(Up5)
  BY <1>2, NamedObjects DEF Up5
<1>5. UpPlan(Up6)
  BY <1>2, RequiredType DEF Up6
<1> QED
  BY <1>1, <1>3, <1>4, <1>5

LEMMA Down1Plan == DownPlan(Down1)
<1> DEFINE a == Drop(ItemsProductFK)
           b == Drop(ItemsOrderFK)
           c == Drop(OrdersFK)
           d == Drop(Table("order_items"))
           e == Drop(OrdersUser)
           f == Drop(Table("orders"))
           g == Drop(Type("orders_status_enum"))
           h == Drop(Table("products"))
           i == Drop(Table("users"))
           j == Drop(Type("users_role_enum"))
<1>1. DownStep(a) /\ DownStep(b) /\ DownStep(c) /\ DownStep(e)
  BY NamedObjects, DropSteps DEF HoldsRows
<1>2. ASSUME NEW t PROVE DownStep(Drop(Table(t)))
  <2>1. Table(t).in = Table(t).name /\ Table(t).kind = "table"
    BY DEF Table, Object
  <2> QED
    BY <2>1, TableType, DropSteps
<1>3. ASSUME NEW ty, ty \notin TableNames PROVE DownStep(Drop(Type(ty)))
  <2>1. Type(ty).name = ty /\ Type(ty).kind = "type"
    BY DEF Type, Object
  <2> QED
    BY <1>3, <2>1, TypeType, DropSteps
<1>4. DownStep(g) /\ DownStep(j)
  BY <1>3 DEF TableNames
<1>5. DownStep(d) /\ DownStep(f) /\ DownStep(h) /\ DownStep(i)
  BY <1>2
<1>6. Down1 = <<a, b, c, d, e, f, g, h, i, j>>
  BY DEF Down1
<1> HIDE DEF a, b, c, d, e, f, g, h, i, j
<1>7. Down1 \in Seq({a, b, c, d, e, f, g, h, i, j})
  BY <1>6, Tuples
<1>8. \A s \in {a, b, c, d, e, f, g, h, i, j} : DownStep(s)
  BY <1>1, <1>4, <1>5
<1> QED
  BY <1>7, <1>8 DEF DownPlan

LEMMA Down4Plan == DownPlan(Down4)
<1> DEFINE a == Drop(Listing)
           b == Create(Enum("orders_status_enum_old", {"created", "canceled", "paid"}))
           c == Drop(StatusDefault)
           d == Retype(Status("orders_status_enum_old"))
           e == Create({StatusDefault})
           f == Drop(Type("orders_status_enum"))
           g == Rename("orders_status_enum_old", "orders_status_enum")
           h == Create({Listing})
           i == Drop(Column("orders", "processed_at"))
<1>1. DownStep(a) /\ DownStep(c)
  BY NamedObjects, DropSteps DEF HoldsRows
<1>2. DownStep(b)
  BY EnumType, CreateSteps
<1>3. DownStep(d) /\ DownStep(g)
  BY OtherSteps DEF StatusTypes
<1>4. DownStep(e) /\ DownStep(h)
  BY NamedObjects, CreateSteps
<1>5. DownStep(f)
  <2>1. Type("orders_status_enum").kind = "type" /\ Type("orders_status_enum").name \notin TableNames
    BY DEF Type, Object, TableNames
  <2> QED
    BY <2>1, TypeType, DropSteps
<1>6. DownStep(i)
  <2>1. /\ Column("orders", "processed_at").kind = "column"
        /\ Column("orders", "processed_at").name \notin TableNames
    BY DEF Column, Object, TableNames
  <2> QED
    BY <2>1, PartTypes, DropSteps
<1>7. Down4 = <<a, b, c, d, e, f, g, h, i>>
  BY DEF Down4
<1> HIDE DEF a, b, c, d, e, f, g, h, i
<1>8. Down4 \in Seq({a, b, c, d, e, f, g, h, i})
  BY <1>7, Tuples
<1>9. \A s \in {a, b, c, d, e, f, g, h, i} : DownStep(s)
  BY <1>1, <1>2, <1>3, <1>4, <1>5, <1>6
<1> QED
  BY <1>8, <1>9 DEF DownPlan

LEMMA OtherDownPlans ==
    DownPlan(Down2) /\ DownPlan(Down3) /\ DownPlan(Down5) /\ DownPlan(Down6)
<1>1. ASSUME NEW s, DownStep(s) PROVE DownPlan(<<s>>)
  <2>1. PICK S : S = {s}
    OBVIOUS
  <2>2. <<s>> \in Seq(S) /\ \A x \in S : DownStep(x)
    BY <1>1, <2>1, Tuples
  <2> QED
    BY <2>2 DEF DownPlan
<1>2. ASSUME NEW s, NEW r, DownStep(s), DownStep(r) PROVE DownPlan(<<s, r>>)
  <2>1. PICK S : S = {s, r}
    OBVIOUS
  <2>2. <<s, r>> \in Seq(S) /\ \A x \in S : DownStep(x)
    BY <1>2, <2>1, Tuples
  <2> QED
    BY <2>2 DEF DownPlan
<1>3. ASSUME NEW t, NEW c, c \notin TableNames PROVE DownStep(Drop(Column(t, c)))
  <2>1. Column(t, c).name = c /\ Column(t, c).kind = "column"
    BY DEF Column, Object
  <2> QED
    BY <1>3, <2>1, PartTypes, DropSteps
<1>4. DownPlan(Down2)
  <2>1. DownStep(Drop(OrdersKey))
    BY NamedObjects, DropSteps DEF HoldsRows
  <2>2. DownStep(Drop(Column("orders", "idempotency_key")))
    BY <1>3 DEF TableNames
  <2> QED
    BY <2>1, <2>2, <1>2 DEF Down2
<1>5. DownPlan(Down3)
  BY <1>1, NamedObjects, DropSteps DEF Down3, HoldsRows
<1>6. DownPlan(Down5)
  <2>1. Table("processed_messages").in = Table("processed_messages").name
    BY DEF Table, Object
  <2>2. DownStep(Drop(Table("processed_messages")))
    BY <2>1, TableType, DropSteps
  <2> QED
    BY <2>2, <1>1 DEF Down5
<1>7. DownPlan(Down6)
  <2>1. DownStep(Drop(Column("users", "password")))
    BY <1>3 DEF TableNames
  <2> QED
    BY <2>1, <1>1 DEF Down6
<1> QED
  BY <1>4, <1>5, <1>6, <1>7

(* What a job loads *)
LEMMA ConcatPlans ==
    /\ \A p, q : UpPlan(p) /\ UpPlan(q) => UpPlan(p \o q)
    /\ \A p, s : UpPlan(p) /\ UpStep(s) => UpPlan(Append(p, s))
    /\ \A p, s : DownPlan(p) /\ DownStep(s) => DownPlan(Append(p, s))
    /\ UpPlan(<<>>) /\ DownPlan(<<>>)
<1>1. ASSUME NEW p, NEW q, UpPlan(p), UpPlan(q) PROVE UpPlan(p \o q)
  <2>1. PICK S : p \in Seq(S) /\ \A s \in S : UpStep(s)
    BY <1>1 DEF UpPlan
  <2>2. PICK T : q \in Seq(T) /\ \A s \in T : UpStep(s)
    BY <1>1 DEF UpPlan
  <2>3. PICK U : U = S \cup T
    OBVIOUS
  <2>4. p \in Seq(U) /\ q \in Seq(U) /\ \A s \in U : UpStep(s)
    BY <2>1, <2>2, <2>3, SeqMonotonic
  <2>5. p \o q \in Seq(U)
    BY <2>4, ConcatProperties
  <2> QED
    BY <2>4, <2>5 DEF UpPlan
<1>2. ASSUME NEW p, NEW s, UpPlan(p), UpStep(s) PROVE UpPlan(Append(p, s))
  <2>1. PICK S : p \in Seq(S) /\ \A x \in S : UpStep(x)
    BY <1>2 DEF UpPlan
  <2>2. PICK U : U = S \cup {s}
    OBVIOUS
  <2>3. p \in Seq(U) /\ \A x \in U : UpStep(x)
    BY <1>2, <2>1, <2>2, SeqMonotonic
  <2>4. Append(p, s) \in Seq(U)
    BY <2>2, <2>3, AppendProperties
  <2> QED
    BY <2>3, <2>4 DEF UpPlan
<1>3. ASSUME NEW p, NEW s, DownPlan(p), DownStep(s) PROVE DownPlan(Append(p, s))
  <2>1. PICK S : p \in Seq(S) /\ \A x \in S : DownStep(x)
    BY <1>3 DEF DownPlan
  <2>2. PICK U : U = S \cup {s}
    OBVIOUS
  <2>3. p \in Seq(U) /\ \A x \in U : DownStep(x)
    BY <1>3, <2>1, <2>2, SeqMonotonic
  <2>4. Append(p, s) \in Seq(U)
    BY <2>2, <2>3, AppendProperties
  <2> QED
    BY <2>3, <2>4 DEF DownPlan
<1>4. PICK S : S = {}
  OBVIOUS
<1>5. <<>> \in Seq(S) /\ (\A x \in S : UpStep(x)) /\ (\A x \in S : DownStep(x))
  BY <1>4
<1>6. UpPlan(<<>>) /\ DownPlan(<<>>)
  BY <1>5 DEF UpPlan, DownPlan
<1> QED
  BY <1>1, <1>2, <1>3, <1>6

LEMMA PlanOfUps == ASSUME NEW pending PROVE UpPlan(PlanOf(pending))
<1> DEFINE Of(n) == IF n \in pending THEN Append(Up[n], Record(n)) ELSE <<>>
<1>1. \A n \in 1..6 : UpPlan(Up[n])
  <2>1. ASSUME NEW n \in 1..6 PROVE UpPlan(Up[n])
    <3>1. n = 1 \/ n = 2 \/ n = 3 \/ n = 4 \/ n = 5 \/ n = 6
      OBVIOUS
    <3>2. /\ Up[1] = Up1 /\ Up[2] = Up2 /\ Up[3] = Up3
          /\ Up[4] = Up4 /\ Up[5] = Up5 /\ Up[6] = Up6
      BY DEF Up
    <3> QED
      BY <3>1, <3>2, Up1Plan, Up4Plan, OtherUpPlans
  <2> QED
    BY <2>1
<1>2. ASSUME NEW n \in 1..6 PROVE UpPlan(Of(n))
  BY <1>1, OtherSteps, ConcatPlans
<1>3. PlanOf(pending) = Of(1) \o Of(2) \o Of(3) \o Of(4) \o Of(5) \o Of(6)
  BY DEF PlanOf
<1>4. /\ UpPlan(Of(1)) /\ UpPlan(Of(2)) /\ UpPlan(Of(3))
      /\ UpPlan(Of(4)) /\ UpPlan(Of(5)) /\ UpPlan(Of(6))
  BY <1>2
<1> HIDE DEF Of
<1> QED
  BY <1>3, <1>4, ConcatPlans

LEMMA PlanOfDown == ASSUME NEW n \in 1..6 PROVE DownPlan(Append(Down[n], Forget(n)))
<1>1. n = 1 \/ n = 2 \/ n = 3 \/ n = 4 \/ n = 5 \/ n = 6
  OBVIOUS
<1>2. /\ Down[1] = Down1 /\ Down[2] = Down2 /\ Down[3] = Down3
      /\ Down[4] = Down4 /\ Down[5] = Down5 /\ Down[6] = Down6
  BY DEF Down
<1>3. DownPlan(Down[n])
  BY <1>1, <1>2, Down1Plan, Down4Plan, OtherDownPlans
<1> QED
  BY <1>3, OtherSteps, ConcatPlans

-----------------------------------------------------------------------------
(* What statements do to the rows of a database. *)

(* The rows of a database, and the table each kind of them is in *)
Fields == {"users", "passwords", "status", "keys"}
In(f) == IF f \in {"users", "passwords"} THEN "users" ELSE "orders"

(* Object o holds the rows f *)
Holds(o, f) ==
    CASE f = "users" -> o = Table("users")
      [] f = "passwords" -> o.kind = "column" /\ o.in = "users" /\ o.name = "password"
      [] f = "status" -> o = Table("orders")
      [] f = "keys" -> o.kind = "column" /\ o.in = "orders" /\ o.name = "idempotency_key"

Stands(schema, f) == \E o \in schema : Holds(o, f)

(* There are rows only in what stands, and a key only of an order. *)
Owned(d) ==
    /\ d.users # {} => Stands(d.schema, "users")
    /\ d.passwords # {} => Stands(d.schema, "passwords")
    /\ DOMAIN d.status # {} => Stands(d.schema, "status")
    /\ d.keys # {} => Stands(d.schema, "keys")
    /\ d.keys \subseteq DOMAIN d.status

(* e has the rows of d wherever they still stand. *)
Keeps(d, e) ==
    /\ Stands(e.schema, "users") => e.users = d.users
    /\ Stands(e.schema, "passwords") => e.passwords = d.passwords
    /\ Stands(e.schema, "status") => e.status = d.status
    /\ Stands(e.schema, "keys") => e.keys = d.keys

(* e has at least the rows of d wherever they still stand. *)
Carries(d, e) ==
    /\ Stands(e.schema, "users") => d.users \subseteq e.users
    /\ Stands(e.schema, "passwords") => d.passwords \subseteq e.passwords
    /\ Stands(e.schema, "keys") => d.keys \subseteq e.keys
    /\ Stands(e.schema, "status") => \A o \in DOMAIN d.status :
          o \in DOMAIN e.status /\ e.status[o] = d.status[o]

LEMMA StandsIsHas ==
    ASSUME NEW d
    PROVE  /\ Stands(d.schema, "users") <=> HasTable(d, "users")
           /\ Stands(d.schema, "status") <=> HasTable(d, "orders")
           /\ Stands(d.schema, "passwords") <=> HasColumn(d, "users", "password")
           /\ Stands(d.schema, "keys") <=> HasColumn(d, "orders", "idempotency_key")
<1>1. /\ Stands(d.schema, "users") <=> HasTable(d, "users")
      /\ Stands(d.schema, "status") <=> HasTable(d, "orders")
  BY DEF Stands, Holds, HasTable
<1>2. /\ Stands(d.schema, "passwords") <=> HasColumn(d, "users", "password")
      /\ Stands(d.schema, "keys") <=> HasColumn(d, "orders", "idempotency_key")
  BY DEF Stands, Holds, HasColumn, Named
<1> QED
  BY <1>1, <1>2

(* What holds rows is a table, or a column of it that no statement on types
   or on the status touches. *)
LEMMA Holders ==
    ASSUME NEW f \in Fields, NEW o, Holds(o, f)
    PROVE  /\ HoldsRows(o) /\ o.in = In(f) /\ In(f) \in TableNames
           /\ o.name \notin StatusTypes \cup {"status"} /\ o.in \notin StatusTypes
           /\ o.kind = "table" => o = Table(In(f))
<1>1. CASE f = "users"
  BY <1>1 DEF Holds, HoldsRows, In, TableNames, StatusTypes, Table, Object
<1>2. CASE f = "passwords"
  BY <1>2 DEF Holds, HoldsRows, In, TableNames, StatusTypes, Table, Object
<1>3. CASE f = "status"
  BY <1>3 DEF Holds, HoldsRows, In, TableNames, StatusTypes, Table, Object
<1>4. CASE f = "keys"
  BY <1>4 DEF Holds, HoldsRows, In, TableNames, StatusTypes, Table, Object
<1> QED
  BY <1>1, <1>2, <1>3, <1>4 DEF Fields

(* A change of the schema alone *)
LEMMA NewSchema ==
    ASSUME NEW d, IsDatabase(d), Owned(d), NEW S, \A o \in S : IsObject(o),
           \A f \in Fields : Stands(d.schema, f) => Stands(S, f)
    PROVE  LET e == [d EXCEPT !.schema = S]
           IN  IsDatabase(e) /\ Owned(e) /\ Keeps(d, e) /\ e.schema = S
               /\ e.users = d.users /\ e.passwords = d.passwords
               /\ e.status = d.status /\ e.keys = d.keys
<1> DEFINE e == [d EXCEPT !.schema = S]
<1>1. /\ e.schema = S /\ e.users = d.users /\ e.passwords = d.passwords
      /\ e.status = d.status /\ e.keys = d.keys /\ e.done = d.done
  BY DEF IsDatabase
<1>2. e \in [schema : {S}, users : SUBSET Users, passwords : SUBSET Users,
             status : Rows, keys : SUBSET Orders, done : SUBSET (1..6)]
  BY DEF IsDatabase
<1> HIDE DEF e
<1>3. IsDatabase(e)
  BY <1>1, <1>2 DEF IsDatabase
<1>4. Owned(e)
  BY <1>1 DEF Owned, Fields
<1>5. Keeps(d, e)
  BY <1>1 DEF Keeps
<1> QED
  BY <1>1, <1>3, <1>4, <1>5 DEF e

(* A change of the schema after which rows are left where they stand *)
LEMMA KeptRows ==
    ASSUME NEW d, IsDatabase(d), Owned(d), NEW S, \A o \in S : IsObject(o),
           Stands(d.schema, "status") /\ Stands(S, "keys") => Stands(S, "status")
    PROVE  LET e == Kept(d, S)
           IN  IsDatabase(e) /\ Owned(e) /\ Keeps(d, e) /\ e.schema = S
<1> DEFINE c == [d EXCEPT !.schema = S]
           e == Kept(d, S)
<1>1. c.schema = S
  BY DEF IsDatabase
<1>2. /\ HasTable(c, "users") <=> Stands(S, "users")
      /\ HasTable(c, "orders") <=> Stands(S, "status")
      /\ HasColumn(c, "users", "password") <=> Stands(S, "passwords")
      /\ HasColumn(c, "orders", "idempotency_key") <=> Stands(S, "keys")
  BY <1>1, StandsIsHas
<1>3. e = [schema |-> S,
           users |-> IF Stands(S, "users") THEN d.users ELSE {},
           passwords |-> IF Stands(S, "passwords") THEN d.passwords ELSE {},
           status |-> IF Stands(S, "status") THEN d.status ELSE <<>>,
           keys |-> IF Stands(S, "keys") THEN d.keys ELSE {},
           done |-> d.done]
  <2>1. c \in [schema : {S}, users : {d.users}, passwords : {d.passwords},
               status : {d.status}, keys : {d.keys}, done : {d.done}]
    BY DEF IsDatabase
  <2>2. e = [c EXCEPT !.users = IF HasTable(c, "users") THEN @ ELSE {},
                      !.passwords = IF HasColumn(c, "users", "password") THEN @ ELSE {},
                      !.status = IF HasTable(c, "orders") THEN @ ELSE <<>>,
                      !.keys = IF HasColumn(c, "orders", "idempotency_key") THEN @ ELSE {}]
    BY DEF Kept
  <2> HIDE DEF c, e
  <2>3. e = [c EXCEPT !.users = IF Stands(S, "users") THEN @ ELSE {},
                      !.passwords = IF Stands(S, "passwords") THEN @ ELSE {},
                      !.status = IF Stands(S, "status") THEN @ ELSE <<>>,
                      !.keys = IF Stands(S, "keys") THEN @ ELSE {}]
    BY <1>2, <2>2
  <2> QED
    BY <2>1, <2>3
<1>4. <<>> \in Rows /\ DOMAIN <<>> = {}
  <2>1. <<>> \in [{} -> Statuses]
    OBVIOUS
  <2> QED
    BY <2>1 DEF Rows
<1> HIDE DEF e
<1>5. IsDatabase(e)
  BY <1>3, <1>4 DEF IsDatabase
<1>6. Owned(e)
  BY <1>3, <1>4 DEF Owned
<1>7. Keeps(d, e)
  BY <1>3 DEF Keeps
<1> QED
  BY <1>3, <1>5, <1>6, <1>7 DEF e

(* What a statement of an up does, and what one of a down does that locks
   the tables L *)
Grown(d, e) ==
    /\ IsDatabase(e) /\ Owned(e)
    /\ \A f \in Fields : Stands(d.schema, f) => Stands(e.schema, f)
    /\ e.users = d.users /\ e.passwords = d.passwords /\ e.status = d.status
    /\ e.keys = d.keys \/ e.keys = DOMAIN d.status

Shrunk(d, e, L) ==
    /\ IsDatabase(e) /\ Owned(e) /\ Keeps(d, e)
    /\ \A f \in Fields : Stands(e.schema, f) => Stands(d.schema, f)
    /\ \A f \in Fields : Stands(d.schema, f) => Stands(e.schema, f) \/ In(f) \in L

LEMMA CreateExecuted ==
    ASSUME NEW d, IsDatabase(d), Owned(d), NEW s, CreateStep(s), NEW L
    PROVE  /\ Grown(d, Executed(s, d))
           /\ (\A o \in s.what : ~ HoldsRows(o)) => Shrunk(d, Executed(s, d), L)
<1> DEFINE e == Executed(s, d)
           S == d.schema \cup s.what
<1>1. e = [d EXCEPT !.schema = S]
  BY DEF Executed, CreateStep
<1>2. \A o \in S : IsObject(o)
  BY DEF IsDatabase, CreateStep
<1>3. \A f \in Fields : Stands(d.schema, f) => Stands(S, f)
  BY DEF Stands
<1>4. ASSUME \A o \in s.what : ~ HoldsRows(o), NEW f \in Fields, Stands(S, f)
      PROVE  Stands(d.schema, f)
  BY <1>4, Holders DEF Stands
<1> HIDE DEF e, S
<1>5. /\ IsDatabase(e) /\ Owned(e) /\ Keeps(d, e) /\ e.schema = S
      /\ e.users = d.users /\ e.passwords = d.passwords
      /\ e.status = d.status /\ e.keys = d.keys
  BY <1>1, <1>2, <1>3, NewSchema
<1>6. Grown(d, e)
  BY <1>3, <1>5 DEF Grown
<1>7. (\A o \in s.what : ~ HoldsRows(o)) => Shrunk(d, e, L)
  BY <1>3, <1>4, <1>5 DEF Shrunk
<1> QED
  BY <1>6, <1>7 DEF e

LEMMA DropExecuted ==
    ASSUME NEW d, IsDatabase(d), Owned(d), NEW s, DropStep(s)
    PROVE  /\ Shrunk(d, Executed(s, d), Locks(s))
           /\ (\A o \in s.what : ~ HoldsRows(o)) => Grown(d, Executed(s, d))
<1>1. PICK o : /\ s.what = {o} /\ IsObject(o)
               /\ o.kind = "table" => o.in = o.name
               /\ o.kind \in {"type", "column"} => o.name \notin TableNames
  BY DEF DropStep
<1> DEFINE e == Executed(s, d)
           S == d.schema \ Parts(d.schema, o)
<1>2. e = Kept(d, S)
  <2>1. UNION {Parts(d.schema, x) : x \in s.what} = Parts(d.schema, o)
    BY <1>1
  <2>2. e = Kept(d, d.schema \ UNION {Parts(d.schema, x) : x \in s.what})
    BY DEF Executed, DropStep
  <2> QED
    BY <2>1, <2>2
<1>3. ASSUME NEW f \in Fields, NEW p \in Parts(d.schema, o), Holds(p, f)
      PROVE  HoldsRows(o) /\ In(f) = o.in
  <2>1. /\ HoldsRows(p) /\ p.in = In(f) /\ In(f) \in TableNames
    BY <1>3, Holders
  <2>2. \/ p = o
        \/ o.kind \in {"table", "type"} /\ p.in = o.name
        \/ o.kind = "column" /\ p.in = o.in
    BY <1>3 DEF Parts
  <2>3. CASE p = o
    BY <2>1, <2>3
  <2>4. CASE o.kind \in {"table", "type"} /\ p.in = o.name
    BY <1>1, <2>1, <2>4 DEF HoldsRows
  <2>5. CASE o.kind = "column" /\ p.in = o.in
    BY <2>1, <2>5 DEF HoldsRows
  <2> QED
    BY <2>2, <2>3, <2>4, <2>5
<1>4. ASSUME NEW f \in Fields, Stands(d.schema, f), ~ Stands(S, f)
      PROVE  HoldsRows(o) /\ In(f) = o.in
  <2>1. PICK p \in d.schema : Holds(p, f)
    BY <1>4 DEF Stands
  <2>2. p \in Parts(d.schema, o)
    BY <1>4, <2>1 DEF Stands
  <2> QED
    BY <1>3, <2>1, <2>2
<1>5. Stands(d.schema, "status") /\ Stands(S, "keys") => Stands(S, "status")
  <2> SUFFICES ASSUME Stands(d.schema, "status"), ~ Stands(S, "status"),
                      NEW p \in S, Holds(p, "keys")
               PROVE  FALSE
    BY DEF Stands
  <2>1. Table("orders") \in Parts(d.schema, o)
    BY DEF Stands, Holds
  <2>2. p.in = "orders" /\ p \in d.schema
    BY DEF Holds
  <2>3. /\ Table("orders").in = "orders" /\ Table("orders").name = "orders"
        /\ Table("orders").kind = "table" /\ Table("orders").uses = {}
    BY DEF Table, Object
  <2>4. \/ Table("orders") = o
        \/ o.kind \in {"table", "type"} /\ o.name = "orders"
        \/ o.kind = "column" /\ o.name = "orders"
    BY <2>1, <2>3 DEF Parts
  <2>5. o.kind = "table" /\ o.name = "orders"
    BY <1>1, <2>3, <2>4 DEF TableNames
  <2>6. p \in Parts(d.schema, o)
    BY <2>2, <2>5 DEF Parts
  <2> QED
    BY <2>6
<1>6. \A x \in S : IsObject(x)
  BY DEF IsDatabase
<1>7. \A f \in Fields : Stands(S, f) => Stands(d.schema, f)
  BY DEF Stands
<1> HIDE DEF S, e
<1>8. IsDatabase(e) /\ Owned(e) /\ Keeps(d, e) /\ e.schema = S
  BY <1>2, <1>5, <1>6, KeptRows
<1>9. Shrunk(d, e, Locks(s))
  <2>1. ASSUME NEW f \in Fields, Stands(d.schema, f), ~ Stands(S, f)
        PROVE  In(f) \in Locks(s)
    <3>1. In(f) = o.in /\ In(f) \in TableNames
      BY <1>4, <2>1 DEF In, TableNames
    <3> QED
      BY <1>1, <3>1 DEF Locks
  <2> QED
    BY <1>7, <1>8, <2>1 DEF Shrunk
<1>10. ASSUME \A x \in s.what : ~ HoldsRows(x) PROVE Grown(d, e)
  <2>1. \A f \in Fields : Stands(d.schema, f) <=> Stands(e.schema, f)
    BY <1>1, <1>4, <1>7, <1>8, <1>10
  <2>2. e.users = d.users
    BY <1>8, <2>1 DEF Owned, Keeps, Fields
  <2>3. e.passwords = d.passwords
    BY <1>8, <2>1 DEF Owned, Keeps, Fields
  <2>4. e.keys = d.keys
    BY <1>8, <2>1 DEF Owned, Keeps, Fields
  <2>5. e.status = d.status
    <3>1. CASE Stands(e.schema, "status")
      BY <1>8, <3>1 DEF Keeps
    <3>2. CASE ~ Stands(e.schema, "status")
      <4>1. DOMAIN e.status = {} /\ DOMAIN d.status = {}
        BY <1>8, <2>1, <3>2 DEF Owned, Fields
      <4>2. e.status \in Rows /\ d.status \in Rows
        BY <1>8 DEF IsDatabase
      <4> QED
        BY <4>1, <4>2 DEF Rows
    <3> QED
      BY <3>1, <3>2
  <2> QED
    BY <1>8, <2>1, <2>2, <2>3, <2>4, <2>5 DEF Grown
<1> QED
  BY <1>9, <1>10 DEF e

LEMMA RenameExecuted ==
    ASSUME NEW d, IsDatabase(d), Owned(d), NEW s, RenameStep(s), NEW L
    PROVE  Grown(d, Executed(s, d)) /\ Shrunk(d, Executed(s, d), L)
<1>1. PICK ty \in StatusTypes : s.what = {Type(ty)}
  BY DEF RenameStep
<1> DEFINE new == s.to
           e == Executed(s, d)
           S == {Renamed(o, ty, new) : o \in d.schema}
<1>2. new \in StatusTypes
  BY DEF RenameStep
<1>3. e = [d EXCEPT !.schema = S]
  <2>1. The(s.what) = Type(ty)
    BY <1>1 DEF The
  <2>2. The(s.what).name = ty
    BY <2>1 DEF Type, Object
  <2>3. e = [d EXCEPT !.schema = {Renamed(o, The(s.what).name, s.to) : o \in d.schema}]
    BY DEF Executed, RenameStep
  <2> QED
    BY <2>2, <2>3
<1>4. ASSUME NEW o, IsObject(o)
      PROVE  LET r == Renamed(o, ty, new)
             IN  /\ IsObject(r)
                 /\ r.kind = o.kind
                 /\ r.name = (IF o.name = ty THEN new ELSE o.name)
                 /\ r.in = (IF o.in = ty THEN new ELSE o.in)
                 /\ r.uses = {} <=> o.uses = {}
  <2> DEFINE NewName(name) == IF name = ty THEN new ELSE name
             r == Renamed(o, ty, new)
  <2>1. r = [o EXCEPT !.name = NewName(@), !.in = NewName(@), !.uses = {NewName(u) : u \in @}]
    BY DEF Renamed
  <2>2. r \in [kind : {o.kind}, name : {NewName(o.name)}, in : {NewName(o.in)},
               uses : {{NewName(u) : u \in o.uses}}]
    <3>1. o \in [kind : {o.kind}, name : {o.name}, in : {o.in}, uses : {o.uses}]
      BY <1>4 DEF IsObject
    <3> HIDE DEF NewName, r
    <3> QED
      BY <2>1, <3>1
  <2> HIDE DEF r
  <2>3. r.kind \in Kinds
    BY <1>4, <2>2 DEF IsObject
  <2>4. IsObject(r)
    <3>1. o.uses = {} => r.uses = {}
      BY <2>2
    <3> QED
      BY <1>4, <2>2, <2>3, <3>1 DEF IsObject
  <2>5. r.uses = {} <=> o.uses = {}
    <3>1. r.uses = {NewName(u) : u \in o.uses}
      BY <2>2
    <3> QED
      BY <3>1
  <2> QED
    BY <2>2, <2>4, <2>5 DEF r
<1>5. ASSUME NEW f \in Fields, NEW o, IsObject(o)
      PROVE  Holds(Renamed(o, ty, new), f) <=> Holds(o, f)
  <2> DEFINE r == Renamed(o, ty, new)
  <2>1. /\ IsObject(r) /\ r.kind = o.kind
        /\ r.name = (IF o.name = ty THEN new ELSE o.name)
        /\ r.in = (IF o.in = ty THEN new ELSE o.in)
        /\ r.uses = {} <=> o.uses = {}
    BY <1>4, <1>5
  <2> HIDE DEF r
  <2>2. /\ ty \notin {"users", "orders", "password", "idempotency_key"}
        /\ new \notin {"users", "orders", "password", "idempotency_key"}
    BY <1>2 DEF StatusTypes
  <2>3. ASSUME NEW t \in {"users", "orders"}, NEW x, IsObject(x)
        PROVE  x = Table(t) <=> x.kind = "table" /\ x.name = t /\ x.in = t /\ x.uses = {}
    BY <2>3 DEF Table, Object, IsObject
  <2>4. \A t \in {"users", "orders"} : r = Table(t) <=> o = Table(t)
    BY <1>5, <2>1, <2>2, <2>3
  <2>5. \A t \in {"users", "orders"}, c \in {"password", "idempotency_key"} :
          r.in = t /\ r.name = c <=> o.in = t /\ o.name = c
    BY <2>1, <2>2
  <2>6. Holds(r, f) <=> Holds(o, f)
    BY <2>1, <2>4, <2>5 DEF Holds, Fields
  <2> QED
    BY <2>6 DEF r
<1>6. \A x \in S : IsObject(x)
  BY <1>4 DEF IsDatabase
<1>7. \A f \in Fields : Stands(d.schema, f) <=> Stands(S, f)
  BY <1>5 DEF IsDatabase, Stands
<1> HIDE DEF S, e, new
<1>8. /\ IsDatabase(e) /\ Owned(e) /\ Keeps(d, e) /\ e.schema = S
      /\ e.users = d.users /\ e.passwords = d.passwords
      /\ e.status = d.status /\ e.keys = d.keys
  BY <1>3, <1>6, <1>7, NewSchema
<1>9. Grown(d, e) /\ Shrunk(d, e, L)
  BY <1>7, <1>8 DEF Grown, Shrunk
<1> QED
  BY <1>9 DEF e

(* The statuses are converted to the labels of the same name. *)
LEMMA RetypeExecuted ==
    ASSUME NEW d, IsDatabase(d), Owned(d), NEW s, RetypeStep(s), NEW L
    PROVE  Grown(d, Executed(s, d)) /\ Shrunk(d, Executed(s, d), L)
<1>1. PICK ty \in StatusTypes : s.what = {Status(ty)}
  BY DEF RetypeStep
<1> DEFINE e == Executed(s, d)
           S == s.what \cup (d.schema \ Named(d.schema, "column", "orders", "status"))
<1>2. /\ Status(ty).kind = "column" /\ Status(ty).in = "orders" /\ Status(ty).name = "status"
      /\ IsObject(Status(ty))
  BY DEF Status, EnumColumn, Object, IsObject, Kinds
<1>3. e = [d EXCEPT !.schema = S]
  <2>1. The(s.what) = Status(ty)
    BY <1>1 DEF The
  <2>2. e = [d EXCEPT !.schema = s.what \cup (@ \ Named(@, "column", The(s.what).in, The(s.what).name)),
                      !.status = [r \in DOMAIN @ |-> Cast(@[r])]]
    BY DEF Executed, RetypeStep
  <2>3. [r \in DOMAIN d.status |-> Cast(d.status[r])] = d.status
    BY DEF IsDatabase, Rows, Cast
  <2>4. d.schema \ Named(d.schema, "column", The(s.what).in, The(s.what).name)
        = d.schema \ Named(d.schema, "column", "orders", "status")
    BY <1>2, <2>1
  <2> HIDE DEF e
  <2>5. e = [d EXCEPT !.schema = S, !.status = d.status]
    BY <2>2, <2>3, <2>4 DEF IsDatabase
  <2> QED
    BY <2>5 DEF IsDatabase
<1>4. \A x \in S : IsObject(x)
  BY <1>1, <1>2 DEF IsDatabase
<1>5. \A f \in Fields : \A o : Holds(o, f) => o.name # "status"
  BY Holders
<1>6. \A f \in Fields : Stands(d.schema, f) <=> Stands(S, f)
  BY <1>1, <1>2, <1>5 DEF Stands, Named
<1> HIDE DEF S, e
<1>7. /\ IsDatabase(e) /\ Owned(e) /\ Keeps(d, e) /\ e.schema = S
      /\ e.users = d.users /\ e.passwords = d.passwords
      /\ e.status = d.status /\ e.keys = d.keys
  BY <1>3, <1>4, <1>6, NewSchema
<1>8. Grown(d, e) /\ Shrunk(d, e, L)
  BY <1>6, <1>7 DEF Grown, Shrunk
<1> QED
  BY <1>8 DEF e

(* Every order gets a key, if the column is there. *)
LEMMA FillExecuted ==
    ASSUME NEW d, IsDatabase(d), Owned(d), NEW s, FillStep(s), ~ Refused(s, d)
    PROVE  Grown(d, Executed(s, d))
<1> DEFINE e == Executed(s, d)
<1>1. e = [d EXCEPT !.keys = DOMAIN d.status]
  BY DEF Executed, FillStep
<1>2. /\ e.schema = d.schema /\ e.users = d.users /\ e.passwords = d.passwords
      /\ e.status = d.status /\ e.keys = DOMAIN d.status
  BY <1>1 DEF IsDatabase
<1>3. DOMAIN d.status \in SUBSET Orders
  BY DEF IsDatabase, Rows
<1>4. e \in [schema : {d.schema}, users : SUBSET Users, passwords : SUBSET Users,
             status : Rows, keys : SUBSET Orders, done : SUBSET (1..6)]
  BY <1>1, <1>3 DEF IsDatabase
<1> HIDE DEF e
<1>5. IsDatabase(e)
  BY <1>2, <1>4 DEF IsDatabase
<1>6. Column("orders", "idempotency_key") \in d.schema
  BY DEF FillStep, Refused
<1>7. Stands(d.schema, "keys")
  <2>1. Holds(Column("orders", "idempotency_key"), "keys")
    BY DEF Holds, Column, Object
  <2> QED
    BY <1>6, <2>1 DEF Stands
<1>8. Owned(e)
  BY <1>2, <1>7 DEF Owned
<1>9. Grown(d, e)
  BY <1>2, <1>5, <1>8 DEF Grown
<1> QED
  BY <1>9 DEF e

LEMMA RowExecuted ==
    ASSUME NEW d, IsDatabase(d), Owned(d), NEW s, RowStep(s), NEW L
    PROVE  Grown(d, Executed(s, d)) /\ Shrunk(d, Executed(s, d), L)
<1> DEFINE e == Executed(s, d)
<1>1. PICK done \in SUBSET (1..6) : e = [d EXCEPT !.done = done]
  <2>1. CASE s.op = "record"
    <3>1. e = [d EXCEPT !.done = d.done \cup {s.row}]
      BY <2>1 DEF Executed
    <3>2. d.done \cup {s.row} \in SUBSET (1..6)
      BY DEF RowStep, IsDatabase
    <3> HIDE DEF e
    <3> QED
      BY <3>1, <3>2
  <2>2. CASE s.op = "forget"
    <3>1. e = [d EXCEPT !.done = d.done \ {s.row}]
      BY <2>2 DEF Executed
    <3>2. d.done \ {s.row} \in SUBSET (1..6)
      BY DEF RowStep, IsDatabase
    <3> HIDE DEF e
    <3> QED
      BY <3>1, <3>2
  <2> QED
    BY <2>1, <2>2 DEF RowStep
<1> HIDE DEF e
<1>2. /\ e.schema = d.schema /\ e.users = d.users /\ e.passwords = d.passwords
      /\ e.status = d.status /\ e.keys = d.keys
  BY <1>1 DEF IsDatabase
<1>3. e \in [schema : {d.schema}, users : SUBSET Users, passwords : SUBSET Users,
             status : Rows, keys : SUBSET Orders, done : SUBSET (1..6)]
  BY <1>1 DEF IsDatabase
<1>4. IsDatabase(e)
  BY <1>2, <1>3 DEF IsDatabase
<1>5. Owned(e) /\ Keeps(d, e)
  BY <1>2 DEF Owned, Keeps
<1>6. Grown(d, e) /\ Shrunk(d, e, L)
  BY <1>2, <1>4, <1>5 DEF Grown, Shrunk
<1> QED
  BY <1>6 DEF e

LEMMA UpExecuted ==
    ASSUME NEW d, IsDatabase(d), Owned(d), NEW s, UpStep(s), ~ Refused(s, d)
    PROVE  Grown(d, Executed(s, d))
BY CreateExecuted, DropExecuted, RenameExecuted, RetypeExecuted, FillExecuted, RowExecuted
   DEF UpStep

LEMMA DownExecuted ==
    ASSUME NEW d, IsDatabase(d), Owned(d), NEW s, DownStep(s)
    PROVE  Shrunk(d, Executed(s, d), Locks(s))
BY CreateExecuted, DropExecuted, RenameExecuted, RetypeExecuted, RowExecuted DEF DownStep

-----------------------------------------------------------------------------
(* The inductive invariant: the rows that are committed are carried by the
   database that a running job sees, in every table and column that still
   stands there, and what a revert has dropped is locked. *)

IsJob(b) ==
    /\ b \in [step : Ended \cup {"loaded", "running"}, kind : {"none", "run", "revert"},
              plan : {b.plan}, from : SUBSET (1..6)]
    /\ b.step \in {"loaded", "running"} =>
          \/ b.kind = "run" /\ UpPlan(b.plan)
          \/ b.kind = "revert" /\ DownPlan(b.plan)

Typed ==
    /\ IsDatabase(db) /\ IsDatabase(work)
    /\ DOMAIN job = Jobs /\ \A j \in Jobs : IsJob(job[j])
    /\ locked \subseteq TableNames
    /\ starts \in 0..MaxStarts /\ faults \in 0..MaxFaults

(* One transaction at a time; outside it nothing is locked. *)
Alone ==
    /\ \A i, j \in Jobs : job[i].step = "running" /\ job[j].step = "running" => i = j
    /\ (\A j \in Jobs : job[j].step # "running") => work = db /\ locked = {}

Reverting == \E j \in Jobs : job[j].step = "running" /\ job[j].kind = "revert"

Standing ==
    \A f \in Fields :
        Stands(db.schema, f) =>
            Stands(work.schema, f) \/ (Reverting /\ In(f) \in locked)

IInv ==
    /\ Typed /\ Alone /\ Standing
    /\ Owned(db) /\ Owned(work) /\ Carries(db, work)

LEMMA NoJobTyped == \A step \in Ended : IsJob([NoJob EXCEPT !.step = step])
BY DEF IsJob, NoJob, Ended

(* The statement a job executes, and its plan after it *)
LEMMA PlanSteps ==
    ASSUME NEW p, p # <<>>
    PROVE  /\ UpPlan(p) => UpStep(Head(p)) /\ UpPlan(Tail(p))
           /\ DownPlan(p) => DownStep(Head(p)) /\ DownPlan(Tail(p))
<1>1. ASSUME UpPlan(p) PROVE UpStep(Head(p)) /\ UpPlan(Tail(p))
  <2>1. PICK S : p \in Seq(S) /\ \A s \in S : UpStep(s)
    BY <1>1 DEF UpPlan
  <2>2. Head(p) \in S /\ Tail(p) \in Seq(S)
    BY <2>1
  <2> QED
    BY <2>1, <2>2 DEF UpPlan
<1>2. ASSUME DownPlan(p) PROVE DownStep(Head(p)) /\ DownPlan(Tail(p))
  <2>1. PICK S : p \in Seq(S) /\ \A s \in S : DownStep(s)
    BY <1>2 DEF DownPlan
  <2>2. Head(p) \in S /\ Tail(p) \in Seq(S)
    BY <2>1
  <2> QED
    BY <2>1, <2>2 DEF DownPlan
<1> QED
  BY <1>1, <1>2

LEMMA CarriesItself == \A d : Carries(d, d)
BY DEF Carries

LEMMA InitIInv == Init => IInv
<1> SUFFICES ASSUME Init PROVE IInv
  OBVIOUS
<1>1. IsDatabase(Empty) /\ Owned(Empty)
  <2>1. <<>> \in [{} -> Statuses] /\ DOMAIN <<>> = {}
    OBVIOUS
  <2>2. <<>> \in Rows
    BY <2>1 DEF Rows
  <2>3. IsDatabase(Empty)
    BY <2>2 DEF Empty, IsDatabase
  <2>4. Owned(Empty)
    BY <2>1 DEF Empty, Owned
  <2> QED
    BY <2>3, <2>4
<1>2. \A j \in Jobs : IsJob(job[j]) /\ job[j].step = "none"
  BY DEF Init, NoJob, IsJob, Ended
<1>3. Typed
  BY <1>1, <1>2, MigrationsAssumption DEF Init, Typed
<1>4. Alone /\ Standing
  BY <1>2 DEF Init, Alone, Standing
<1> QED
  BY <1>1, <1>3, <1>4, CarriesItself DEF Init, IInv

(* A job ends: its transaction is rolled back or committed. *)
LEMMA EndedIInv ==
    ASSUME IInv, NEW j \in Jobs, NEW step \in Ended, job[j].step = "running",
           job' = [job EXCEPT ![j] = [NoJob EXCEPT !.step = step]],
           db' \in {db, work}, work' = db', locked' = {},
           starts' = starts, faults' \in 0..MaxFaults
    PROVE  IInv'
<1> DEFINE b == [NoJob EXCEPT !.step = step]
<1>1. IsJob(b) /\ b.step # "running"
  BY NoJobTyped DEF NoJob, Ended
<1>2. DOMAIN job' = Jobs /\ job'[j] = b /\ \A i \in Jobs \ {j} : job'[i] = job[i]
  BY DEF IInv, Typed
<1> HIDE DEF b
<1>3. \A i \in Jobs : job'[i].step # "running"
  BY <1>1, <1>2 DEF IInv, Alone
<1>4. Typed'
  <2>1. IsDatabase(db') /\ IsDatabase(work')
    BY DEF IInv, Typed
  <2>2. \A i \in Jobs : IsJob(job'[i])
    BY <1>1, <1>2 DEF IInv, Typed
  <2> QED
    BY <1>2, <2>1, <2>2 DEF IInv, Typed
<1>5. Alone'
  BY <1>3 DEF Alone
<1>6. Standing'
  BY DEF Standing
<1>7. Owned(db') /\ Owned(work')
  BY DEF IInv
<1>8. Carries(db', work')
  BY CarriesItself
<1> QED
  BY <1>4, <1>5, <1>6, <1>7, <1>8 DEF IInv

LEMMA StartIInv ==
    ASSUME IInv, NEW j \in Jobs, NEW kind, NEW plan, Start(j, kind, plan),
           \/ kind = "run" /\ UpPlan(plan)
           \/ kind = "revert" /\ DownPlan(plan)
    PROVE  IInv'
<1> DEFINE b == [step |-> "loaded", kind |-> kind, plan |-> plan, from |-> db.done]
<1>1. IsJob(b) /\ b.step = "loaded"
  <2>1. db.done \in SUBSET (1..6)
    BY DEF IInv, Typed, IsDatabase
  <2> QED
    BY <2>1 DEF IsJob
<1>2. DOMAIN job' = Jobs /\ job'[j] = b /\ \A i \in Jobs \ {j} : job'[i] = job[i]
  BY DEF IInv, Typed, Start
<1>3. job[j].step # "running" /\ db' = db /\ work' = work /\ locked' = locked /\ faults' = faults
  BY DEF Start, Ended
<1> HIDE DEF b
<1>4. \A i \in Jobs : job'[i].step = "running" <=> job[i].step = "running"
  BY <1>1, <1>2, <1>3
<1>5. Typed'
  <2>1. \A i \in Jobs : IsJob(job'[i])
    BY <1>1, <1>2 DEF IInv, Typed
  <2>2. starts' \in 0..MaxStarts
    BY MigrationsAssumption DEF IInv, Typed, Start
  <2> QED
    BY <1>2, <1>3, <2>1, <2>2 DEF IInv, Typed
<1>6. Alone'
  BY <1>3, <1>4 DEF IInv, Alone
<1>7. Standing'
  <2>1. Reverting => Reverting'
    BY <1>2, <1>3 DEF Reverting
  <2> QED
    BY <1>3, <2>1 DEF IInv, Standing
<1> QED
  BY <1>3, <1>5, <1>6, <1>7 DEF IInv

LEMMA BeginIInv == ASSUME IInv, NEW j \in Jobs, Begin(j) PROVE IInv'
<1>1. \A i \in Jobs : job[i].step # "running"
  BY DEF Begin, Running
<1>2. work = db /\ locked = {}
  BY <1>1 DEF IInv, Alone
<1>3. db' = db /\ work' = work /\ locked' = locked /\ faults' = faults /\ starts' = starts
  BY DEF Begin
<1>4. /\ DOMAIN job' = Jobs /\ job'[j] = [job[j] EXCEPT !.step = "running"]
      /\ \A i \in Jobs \ {j} : job'[i] = job[i]
  BY DEF IInv, Typed, Begin
<1>5. IsJob(job'[j])
  BY <1>4 DEF IInv, Typed, IsJob, Begin
<1>6. Typed'
  <2>1. \A i \in Jobs : IsJob(job'[i])
    BY <1>4, <1>5 DEF IInv, Typed
  <2> QED
    BY <1>3, <1>4, <2>1 DEF IInv, Typed
<1>7. Alone'
  <2>1. \A i \in Jobs : job'[i].step = "running" => i = j
    BY <1>1, <1>4
  <2>2. work' = db' /\ locked' = {}
    BY <1>2, <1>3
  <2> QED
    BY <2>1, <2>2 DEF Alone
<1>8. Standing'
  BY <1>2, <1>3 DEF Standing
<1> QED
  BY <1>3, <1>6, <1>7, <1>8 DEF IInv

LEMMA ExecuteIInv == ASSUME IInv, NEW j \in Jobs, Execute(j) PROVE IInv'
<1> DEFINE s == Statement(j)
<1>1. /\ job[j].step = "running" /\ ~ Refused(s, work)
      /\ work' = Executed(s, work) /\ locked' = locked \cup Locks(s)
      /\ db' = db /\ starts' = starts /\ faults' = faults
  BY DEF Execute
<1>2. IsJob(job[j]) /\ IsDatabase(work) /\ Owned(work)
  BY DEF IInv, Typed
<1>3. /\ DOMAIN job' = Jobs /\ job'[j] = [job[j] EXCEPT !.plan = Tail(@)]
      /\ \A i \in Jobs \ {j} : job'[i] = job[i]
  BY DEF IInv, Typed, Execute
<1>4. /\ job'[j].step = "running" /\ job'[j].kind = job[j].kind
      /\ job'[j].plan = Tail(job[j].plan) /\ job'[j].from = job[j].from
      /\ job'[j] \in [step : Ended \cup {"loaded", "running"}, kind : {"none", "run", "revert"},
                      plan : {job'[j].plan}, from : SUBSET (1..6)]
  BY <1>1, <1>2, <1>3 DEF IsJob
<1>5. /\ s = Head(job[j].plan) /\ job[j].plan # <<>>
      /\ \/ job[j].kind = "run" /\ UpPlan(job[j].plan)
         \/ job[j].kind = "revert" /\ DownPlan(job[j].plan)
  BY <1>1, <1>2 DEF Execute, Statement, IsJob
<1> HIDE DEF s
<1>6. \/ job[j].kind = "run" /\ UpStep(s) /\ UpPlan(job'[j].plan)
      \/ job[j].kind = "revert" /\ DownStep(s) /\ DownPlan(job'[j].plan)
  BY <1>4, <1>5, PlanSteps
<1>7. IsJob(job'[j])
  BY <1>4, <1>6 DEF IsJob
<1>8. \A i \in Jobs : job[i].step = "running" => i = j
  BY <1>1 DEF IInv, Alone
<1>9. Alone'
  <2>1. \A i \in Jobs : job'[i].step = "running" => i = j
    BY <1>3, <1>8
  <2> QED
    BY <1>4, <2>1 DEF Alone
<1>10. locked' \subseteq TableNames
  BY <1>1 DEF IInv, Typed, Locks
<1>11. \A i \in Jobs : IsJob(job'[i])
  BY <1>3, <1>7 DEF IInv, Typed
<1>12. IsDatabase(work') => Typed'
  BY <1>1, <1>3, <1>10, <1>11 DEF IInv, Typed
<1>13. CASE job[j].kind = "run" /\ UpStep(s)
  <2>1. Grown(work, work')
    BY <1>1, <1>2, <1>13, UpExecuted
  <2>2. \A f \in Fields : Stands(db.schema, f) => Stands(work.schema, f)
    BY <1>8, <1>13 DEF IInv, Standing, Reverting
  <2>3. Standing'
    BY <1>1, <2>1, <2>2 DEF Standing, Grown
  <2>4. db.users \subseteq work.users
    BY <2>2 DEF IInv, Owned, Carries, Fields
  <2>5. db.passwords \subseteq work.passwords
    BY <2>2 DEF IInv, Owned, Carries, Fields
  <2>6. db.keys \subseteq work.keys
    BY <2>2 DEF IInv, Owned, Carries, Fields
  <2>7. \A o \in DOMAIN db.status : o \in DOMAIN work.status /\ work.status[o] = db.status[o]
    BY <2>2 DEF IInv, Owned, Carries, Fields
  <2>8. db.keys \subseteq work'.keys
    BY <2>1, <2>6, <2>7 DEF IInv, Owned, Grown
  <2>9. Carries(db', work')
    BY <1>1, <2>1, <2>4, <2>5, <2>7, <2>8 DEF Carries, Grown
  <2> QED
    BY <1>1, <1>9, <1>12, <2>1, <2>3, <2>9 DEF IInv, Grown
<1>14. CASE job[j].kind = "revert" /\ DownStep(s)
  <2>1. Shrunk(work, work', Locks(s))
    BY <1>1, <1>2, <1>14, DownExecuted
  <2>2. Reverting'
    BY <1>4, <1>14 DEF Reverting
  <2>3. Standing'
    BY <1>1, <2>1, <2>2 DEF IInv, Standing, Shrunk
  <2>4. Carries(db, work)
    BY DEF IInv
  <2>5. Carries(db', work')
    BY <1>1, <2>1, <2>4 DEF Carries, Shrunk, Keeps, Fields
  <2> QED
    BY <1>1, <1>9, <1>12, <2>1, <2>3, <2>5 DEF IInv, Shrunk
<1> QED
  BY <1>6, <1>13, <1>14

(* The API writes: what is not locked stands in both databases. *)
LEMMA WritableStands ==
    ASSUME IInv, NEW tables, Writable(tables)
    PROVE  /\ \A f \in Fields : In(f) \in tables /\ Stands(db.schema, f) => Stands(work.schema, f)
           /\ "users" \in tables => Stands(db.schema, "users") /\ Stands(work.schema, "users")
           /\ "orders" \in tables => Stands(db.schema, "status") /\ Stands(work.schema, "status")
           /\ locked' = locked /\ job' = job /\ starts' = starts /\ faults' = faults
<1>1. \A f \in Fields : In(f) \in tables /\ Stands(db.schema, f) => Stands(work.schema, f)
  BY DEF IInv, Standing, Writable
<1>2. /\ "users" \in tables => Stands(db.schema, "users")
      /\ "orders" \in tables => Stands(db.schema, "status")
  BY StandsIsHas DEF Writable
<1>3. In("users") = "users" /\ In("status") = "orders" /\ "users" \in Fields /\ "status" \in Fields
  BY DEF In, Fields
<1> QED
  BY <1>1, <1>2, <1>3 DEF Writable

(* Rows are written, the schema stays. *)
LEMMA WrittenIInv ==
    ASSUME IInv, db'.schema = db.schema, work'.schema = work.schema,
           IsDatabase(db'), IsDatabase(work'), Owned(db'), Owned(work'),
           Carries(db', work'), work = db => work' = db',
           locked' = locked, job' = job, starts' = starts, faults' = faults
    PROVE  IInv'
<1>1. Typed'
  BY DEF IInv, Typed
<1>2. Alone'
  BY DEF IInv, Alone
<1>3. Standing'
  BY DEF IInv, Standing, Reverting
<1> QED
  BY <1>1, <1>2, <1>3 DEF IInv

(* What a new user and a new order leave of a database *)
LEMMA UserWritten ==
    ASSUME NEW d, IsDatabase(d), NEW u \in Users
    PROVE  LET e == WithUser(d, u)
               new == IF HasColumn(db, "users", "password") THEN {u} ELSE {}
           IN  /\ IsDatabase(e) /\ e.schema = d.schema
               /\ e.users = d.users \cup {u} /\ e.passwords = d.passwords \cup new
               /\ e.status = d.status /\ e.keys = d.keys
<1> DEFINE new == IF HasColumn(db, "users", "password") THEN {u} ELSE {}
           e == WithUser(d, u)
<1>1. e = [d EXCEPT !.users = d.users \cup {u}, !.passwords = d.passwords \cup new]
  BY DEF WithUser, IsDatabase
<1>7. new \subseteq {u}
  OBVIOUS
<1> HIDE DEF e, new
<1>2. /\ e.schema = d.schema
      /\ e.users = d.users \cup {u} /\ e.passwords = d.passwords \cup new
      /\ e.status = d.status /\ e.keys = d.keys
  BY <1>1 DEF IsDatabase
<1>3. e \in [schema : {d.schema}, users : SUBSET Users, passwords : SUBSET Users,
             status : Rows, keys : SUBSET Orders, done : SUBSET (1..6)]
  BY <1>1, <1>7 DEF IsDatabase
<1>4. IsDatabase(e)
  BY <1>2, <1>3 DEF IsDatabase
<1> QED
  BY <1>2, <1>4 DEF e, new

LEMMA OrderWritten ==
    ASSUME NEW d, IsDatabase(d), NEW o \in Orders
    PROVE  LET e == WithOrder(d, o)
               new == IF HasColumn(db, "orders", "idempotency_key") THEN {o} ELSE {}
           IN  /\ IsDatabase(e) /\ e.schema = d.schema
               /\ e.users = d.users /\ e.passwords = d.passwords
               /\ DOMAIN e.status = DOMAIN d.status \cup {o}
               /\ e.status[o] = "created"
               /\ \A x \in DOMAIN d.status \ {o} : e.status[x] = d.status[x]
               /\ e.keys = d.keys \cup new
<1> DEFINE new == IF HasColumn(db, "orders", "idempotency_key") THEN {o} ELSE {}
           e == WithOrder(d, o)
           status == [x \in DOMAIN d.status \cup {o} |-> IF x = o THEN "created" ELSE d.status[x]]
<1>1. e = [d EXCEPT !.status = status, !.keys = d.keys \cup new]
  BY DEF WithOrder, IsDatabase
<1>2. status \in Rows
  <2>1. PICK R \in SUBSET Orders : d.status \in [R -> Statuses]
    BY DEF IsDatabase, Rows
  <2>2. PICK Q \in SUBSET Orders : Q = R \cup {o}
    OBVIOUS
  <2>3. status \in [Q -> Statuses]
    BY <2>1, <2>2 DEF Statuses
  <2> QED
    BY <2>3 DEF Rows
<1>3. /\ DOMAIN status = DOMAIN d.status \cup {o} /\ status[o] = "created"
      /\ \A x \in DOMAIN d.status \ {o} : status[x] = d.status[x]
  OBVIOUS
<1>7. new \subseteq {o}
  OBVIOUS
<1> HIDE DEF e, new, status
<1>4. /\ e.schema = d.schema /\ e.users = d.users /\ e.passwords = d.passwords
      /\ e.status = status /\ e.keys = d.keys \cup new
  BY <1>1 DEF IsDatabase
<1>5. e \in [schema : {d.schema}, users : SUBSET Users, passwords : SUBSET Users,
             status : Rows, keys : SUBSET Orders, done : SUBSET (1..6)]
  BY <1>1, <1>2, <1>7 DEF IsDatabase
<1>6. IsDatabase(e)
  BY <1>4, <1>5 DEF IsDatabase
<1> QED
  BY <1>3, <1>4, <1>6 DEF e, new

LEMMA SignUpIInv == ASSUME IInv, NEW u \in Users, SignUp(u) PROVE IInv'
<1>1. PICK new \in SUBSET {u} : new = IF HasColumn(db, "users", "password") THEN {u} ELSE {}
  OBVIOUS
<1>2. /\ locked' = locked /\ job' = job /\ starts' = starts /\ faults' = faults
      /\ Stands(db.schema, "users") /\ Stands(work.schema, "users")
      /\ Stands(db.schema, "passwords") => Stands(work.schema, "passwords")
  <2>1. Writable({"users"}) /\ In("passwords") \in {"users"} /\ "passwords" \in Fields
    BY DEF SignUp, In, Fields
  <2> QED
    BY <2>1, WritableStands
<1>3. new # {} => Stands(db.schema, "passwords") /\ Stands(work.schema, "passwords")
  BY <1>1, <1>2, StandsIsHas
<1>4. db' = WithUser(db, u) /\ work' = WithUser(work, u) /\ IsDatabase(db) /\ IsDatabase(work)
  BY DEF SignUp, IInv, Typed
<1>5. /\ IsDatabase(db') /\ db'.schema = db.schema
      /\ db'.users = db.users \cup {u} /\ db'.passwords = db.passwords \cup new
      /\ db'.status = db.status /\ db'.keys = db.keys
  BY <1>1, <1>4, UserWritten
<1>6. /\ IsDatabase(work') /\ work'.schema = work.schema
      /\ work'.users = work.users \cup {u} /\ work'.passwords = work.passwords \cup new
      /\ work'.status = work.status /\ work'.keys = work.keys
  BY <1>1, <1>4, UserWritten
<1>7. Owned(db')
  BY <1>2, <1>3, <1>5 DEF IInv, Owned
<1>8. Owned(work')
  BY <1>2, <1>3, <1>6 DEF IInv, Owned
<1>9. Carries(db', work')
  BY <1>5, <1>6 DEF IInv, Carries
<1>10. work = db => work' = db'
  BY <1>4
<1> QED
  BY <1>2, <1>5, <1>6, <1>7, <1>8, <1>9, <1>10, WrittenIInv

LEMMA PlaceOrderIInv == ASSUME IInv, NEW o \in Orders, PlaceOrder(o) PROVE IInv'
<1>1. PICK new \in SUBSET {o} : new = IF HasColumn(db, "orders", "idempotency_key") THEN {o} ELSE {}
  OBVIOUS
<1>2. /\ locked' = locked /\ job' = job /\ starts' = starts /\ faults' = faults
      /\ Stands(db.schema, "status") /\ Stands(work.schema, "status")
      /\ Stands(db.schema, "keys") => Stands(work.schema, "keys")
  <2>1. /\ Writable({"users", "products", "orders", "order_items"})
        /\ In("keys") \in {"users", "products", "orders", "order_items"} /\ "keys" \in Fields
    BY DEF PlaceOrder, In, Fields
  <2> QED
    BY <2>1, WritableStands
<1>3. new # {} => Stands(db.schema, "keys") /\ Stands(work.schema, "keys")
  BY <1>1, <1>2, StandsIsHas
<1>4. db' = WithOrder(db, o) /\ work' = WithOrder(work, o) /\ IsDatabase(db) /\ IsDatabase(work)
  BY DEF PlaceOrder, IInv, Typed
<1>5. /\ IsDatabase(db') /\ db'.schema = db.schema
      /\ db'.users = db.users /\ db'.passwords = db.passwords
      /\ DOMAIN db'.status = DOMAIN db.status \cup {o} /\ db'.status[o] = "created"
      /\ \A x \in DOMAIN db.status \ {o} : db'.status[x] = db.status[x]
      /\ db'.keys = db.keys \cup new
  BY <1>1, <1>4, OrderWritten
<1>6. /\ IsDatabase(work') /\ work'.schema = work.schema
      /\ work'.users = work.users /\ work'.passwords = work.passwords
      /\ DOMAIN work'.status = DOMAIN work.status \cup {o} /\ work'.status[o] = "created"
      /\ \A x \in DOMAIN work.status \ {o} : work'.status[x] = work.status[x]
      /\ work'.keys = work.keys \cup new
  BY <1>1, <1>4, OrderWritten
<1>7. Owned(db')
  BY <1>2, <1>3, <1>5 DEF IInv, Owned
<1>8. Owned(work')
  BY <1>2, <1>3, <1>6 DEF IInv, Owned
<1>9. Carries(db', work')
  <2>1. Carries(db, work)
    BY DEF IInv
  <2>2. ASSUME NEW x \in DOMAIN db'.status
        PROVE  x \in DOMAIN work'.status /\ work'.status[x] = db'.status[x]
    <3>1. CASE x = o
      BY <1>5, <1>6, <3>1
    <3>2. CASE x # o
      <4>1. x \in DOMAIN db.status \ {o}
        BY <1>5, <2>2, <3>2
      <4>2. x \in DOMAIN work.status \ {o} /\ work.status[x] = db.status[x]
        BY <1>2, <2>1, <4>1 DEF Carries
      <4> QED
        BY <1>5, <1>6, <4>1, <4>2
    <3> QED
      BY <3>1, <3>2
  <2>3. /\ Stands(work'.schema, "users") => db'.users \subseteq work'.users
        /\ Stands(work'.schema, "passwords") => db'.passwords \subseteq work'.passwords
        /\ Stands(work'.schema, "keys") => db'.keys \subseteq work'.keys
    BY <1>5, <1>6, <2>1 DEF Carries
  <2> QED
    BY <2>2, <2>3 DEF Carries
<1>10. work = db => work' = db'
  BY <1>4
<1> QED
  BY <1>2, <1>5, <1>6, <1>7, <1>8, <1>9, <1>10, WrittenIInv

(* What a new status of an order leaves of a database *)
LEMMA StatusWritten ==
    ASSUME NEW d, IsDatabase(d), NEW o \in DOMAIN d.status, NEW label \in Statuses
    PROVE  LET e == WithStatus(d, o, label)
           IN  /\ IsDatabase(e) /\ e.schema = d.schema
               /\ e.users = d.users /\ e.passwords = d.passwords /\ e.keys = d.keys
               /\ DOMAIN e.status = DOMAIN d.status /\ e.status[o] = label
               /\ \A x \in DOMAIN d.status \ {o} : e.status[x] = d.status[x]
<1> DEFINE e == WithStatus(d, o, label)
           status == [d.status EXCEPT ![o] = label]
<1>1. e = [d EXCEPT !.status = status]
  BY DEF WithStatus, IsDatabase
<1>2. PICK R \in SUBSET Orders : d.status \in [R -> Statuses]
  BY DEF IsDatabase, Rows
<1>3. status \in [R -> Statuses]
  BY <1>2
<1>4. status \in Rows
  BY <1>3 DEF Rows
<1>5. /\ DOMAIN status = DOMAIN d.status /\ status[o] = label
      /\ \A x \in DOMAIN d.status \ {o} : status[x] = d.status[x]
  BY <1>2
<1> HIDE DEF e, status
<1>6. /\ e.schema = d.schema /\ e.users = d.users /\ e.passwords = d.passwords
      /\ e.status = status /\ e.keys = d.keys
  BY <1>1 DEF IsDatabase
<1>7. e \in [schema : {d.schema}, users : SUBSET Users, passwords : SUBSET Users,
             status : Rows, keys : SUBSET Orders, done : SUBSET (1..6)]
  BY <1>1, <1>4 DEF IsDatabase
<1>8. IsDatabase(e)
  BY <1>6, <1>7 DEF IsDatabase
<1> QED
  BY <1>5, <1>6, <1>8 DEF e

LEMMA SettleIInv ==
    ASSUME IInv, NEW o \in Orders, NEW label \in Statuses, Settle(o, label)
    PROVE  IInv'
<1>1. /\ locked' = locked /\ job' = job /\ starts' = starts /\ faults' = faults
      /\ Stands(work.schema, "status")
  <2>1. Writable({"orders"})
    BY DEF Settle
  <2> QED
    BY <2>1, WritableStands
<1>2. o \in DOMAIN db.status /\ o \in DOMAIN work.status
  BY <1>1 DEF Settle, IInv, Carries
<1>3. /\ db' = WithStatus(db, o, label) /\ work' = WithStatus(work, o, label)
      /\ IsDatabase(db) /\ IsDatabase(work)
  BY DEF Settle, IInv, Typed
<1>4. /\ IsDatabase(db') /\ db'.schema = db.schema
      /\ db'.users = db.users /\ db'.passwords = db.passwords /\ db'.keys = db.keys
      /\ DOMAIN db'.status = DOMAIN db.status /\ db'.status[o] = label
      /\ \A x \in DOMAIN db.status \ {o} : db'.status[x] = db.status[x]
  BY <1>2, <1>3, StatusWritten
<1>5. /\ IsDatabase(work') /\ work'.schema = work.schema
      /\ work'.users = work.users /\ work'.passwords = work.passwords /\ work'.keys = work.keys
      /\ DOMAIN work'.status = DOMAIN work.status /\ work'.status[o] = label
      /\ \A x \in DOMAIN work.status \ {o} : work'.status[x] = work.status[x]
  BY <1>2, <1>3, StatusWritten
<1>6. Owned(db') /\ Owned(work')
  BY <1>4, <1>5 DEF IInv, Owned
<1>7. Carries(db', work')
  <2>1. ASSUME NEW x \in DOMAIN db'.status
        PROVE  x \in DOMAIN work'.status /\ work'.status[x] = db'.status[x]
    <3>1. x \in DOMAIN work.status /\ work.status[x] = db.status[x]
      BY <1>1, <1>4, <2>1 DEF IInv, Carries
    <3> QED
      BY <1>4, <1>5, <2>1, <3>1
  <2>2. Carries(db, work)
    BY DEF IInv
  <2> QED
    BY <1>4, <1>5, <2>1, <2>2 DEF Carries
<1>8. work = db => work' = db'
  BY <1>3
<1> QED
  BY <1>1, <1>4, <1>5, <1>6, <1>7, <1>8, WrittenIInv

-----------------------------------------------------------------------------
(* The theorems. *)

LEMMA NextIInv == IInv /\ [Next]_vars => IInv'
<1> SUFFICES ASSUME IInv, [Next]_vars PROVE IInv'
  OBVIOUS
<1>1. ASSUME NEW j \in Jobs, NEW r \in Releases, LoadRun(j, r) PROVE IInv'
  <2>1. PICK pending : Start(j, "run", PlanOf(pending))
    BY <1>1 DEF LoadRun
  <2> QED
    BY <2>1, PlanOfUps, StartIInv
<1>2. ASSUME NEW j \in Jobs, LoadRevert(j) PROVE IInv'
  <2>1. PICK n \in db.done : Start(j, "revert", Append(Down[n], Forget(n)))
    BY <1>2 DEF LoadRevert
  <2>2. n \in 1..6
    BY <2>1 DEF IInv, Typed, IsDatabase
  <2> QED
    BY <2>1, <2>2, PlanOfDown, StartIInv
<1>3. ASSUME NEW j \in Jobs, Begin(j) PROVE IInv'
  BY <1>3, BeginIInv
<1>4. ASSUME NEW j \in Jobs, Execute(j) PROVE IInv'
  BY <1>4, ExecuteIInv
<1>5. ASSUME NEW j \in Jobs, Refuse(j) PROVE IInv'
  <2>1. /\ job[j].step = "running" /\ "refused" \in Ended
        /\ job' = [job EXCEPT ![j] = [NoJob EXCEPT !.step = "refused"]]
        /\ db' = db /\ work' = db' /\ locked' = {} /\ starts' = starts
        /\ faults' \in 0..MaxFaults
    BY <1>5 DEF Refuse, Rollback, Ended, IInv, Typed
  <2> QED
    BY <2>1, EndedIInv
<1>6. ASSUME NEW j \in Jobs, Commit(j) PROVE IInv'
  <2>1. /\ job[j].step = "running" /\ "committed" \in Ended
        /\ job' = [job EXCEPT ![j] = [NoJob EXCEPT !.step = "committed"]]
        /\ db' = work /\ work' = db' /\ locked' = {} /\ starts' = starts
        /\ faults' \in 0..MaxFaults
    BY <1>6 DEF Commit, Ended, IInv, Typed
  <2> QED
    BY <2>1, EndedIInv
<1>7. ASSUME NEW j \in Jobs, Die(j) PROVE IInv'
  <2>1. /\ job[j].step = "running" /\ "died" \in Ended
        /\ job' = [job EXCEPT ![j] = [NoJob EXCEPT !.step = "died"]]
        /\ db' = db /\ work' = db' /\ locked' = {} /\ starts' = starts
    BY <1>7 DEF Die, Rollback, Ended
  <2>2. faults' \in 0..MaxFaults
    BY <1>7, MigrationsAssumption DEF Die, IInv, Typed
  <2> QED
    BY <2>1, <2>2, EndedIInv
<1>8. ASSUME NEW u \in Users, SignUp(u) PROVE IInv'
  BY <1>8, SignUpIInv
<1>9. ASSUME NEW o \in Orders, PlaceOrder(o) PROVE IInv'
  BY <1>9, PlaceOrderIInv
<1>10. ASSUME NEW o \in Orders, ProcessOrder(o) \/ PayOrder(o) PROVE IInv'
  BY <1>10, SettleIInv DEF ProcessOrder, PayOrder, Statuses
<1>11. CASE Quiet \/ UNCHANGED vars
  <2>1. UNCHANGED vars
    BY <1>11 DEF Quiet
  <2>2. /\ db' = db /\ work' = work /\ locked' = locked /\ job' = job
        /\ starts' = starts /\ faults' = faults
    BY <2>1 DEF vars
  <2> QED
    BY <2>2 DEF IInv, Typed, Alone, Standing, Reverting
<1> QED
  BY <1>1, <1>2, <1>3, <1>4, <1>5, <1>6, <1>7, <1>8, <1>9, <1>10, <1>11 DEF Next

(* What the jobs and the API keep true of the committed rows and of the rows
   a running job sees, for any number of jobs, releases and rows *)
THEOREM MigrationsInvariant == Spec => []IInv
<1> QED
  BY InitIInv, NextIInv, PTL DEF Spec

(* Every variable has its type, and outside a job's transaction its view is
   the committed database (the jobs of migration:run and migration:revert). *)
THEOREM MigrationsTypeCorrect == Spec => []TypeOK
<1>1. IInv => TypeOK
  <2> SUFFICES ASSUME IInv PROVE TypeOK
    OBVIOUS
  <2>1. ASSUME NEW d, IsDatabase(d)
        PROVE  /\ \A o \in d.schema : o = Object(o.kind, o.name, o.in, o.uses)
               /\ d.users \subseteq Users /\ DOMAIN d.status \subseteq Orders
               /\ d.done \subseteq 1..6
    <3>1. ASSUME NEW o \in d.schema PROVE o = Object(o.kind, o.name, o.in, o.uses)
      <4>1. o \in [kind : Kinds, name : {o.name}, in : {o.in}, uses : {o.uses}]
        BY <2>1 DEF IsDatabase, IsObject
      <4> QED
        BY <4>1 DEF Object
    <3>2. d.users \subseteq Users /\ DOMAIN d.status \subseteq Orders /\ d.done \subseteq 1..6
      BY <2>1 DEF IsDatabase, Rows
    <3> QED
      BY <3>1, <3>2
  <2>2. \A j \in Jobs : job[j].step \in Ended \cup {"loaded", "running"}
    BY DEF IInv, Typed, IsJob
  <2>3. Running = {} => work = db /\ locked = {}
    BY DEF Running, IInv, Alone
  <2>4. /\ IsDatabase(db) /\ IsDatabase(work) /\ locked \subseteq TableNames
        /\ starts \in 0..MaxStarts /\ faults \in 0..MaxFaults
    BY DEF IInv, Typed
  <2> QED
    BY <2>1, <2>2, <2>3, <2>4 DEF TypeOK
<1> QED
  BY <1>1, MigrationsInvariant, PTL

(* No migration, no revert, no refusal and no crash of a job loses a user, a
   password, a key, an order or its status, but for the revert that drops the
   table or the column (the up and down methods of the migrations, in one
   transaction of TypeORM each, beside an API that writes). *)
THEOREM MigrationsKeepRows == Spec => RowsSurvive
<1> DEFINE Survive ==
        /\ HasTable(db', "users") => db.users \subseteq db'.users
        /\ HasColumn(db', "users", "password") => db.passwords \subseteq db'.passwords
        /\ HasColumn(db', "orders", "idempotency_key") => db.keys \subseteq db'.keys
        /\ HasTable(db', "orders") =>
              \A o \in DOMAIN db.status :
                  /\ o \in DOMAIN db'.status
                  /\ db'.status[o] # db.status[o] => job' = job
<1>1. IInv /\ [Next]_vars => [Survive]_vars
  <2> SUFFICES ASSUME IInv, Next PROVE Survive \/ UNCHANGED vars
    OBVIOUS
  <2>1. CASE db' = db
    BY <2>1
  <2>2. ASSUME Carries(db, db') PROVE Survive
    <3>1. /\ Stands(db'.schema, "users") <=> HasTable(db', "users")
          /\ Stands(db'.schema, "status") <=> HasTable(db', "orders")
          /\ Stands(db'.schema, "passwords") <=> HasColumn(db', "users", "password")
          /\ Stands(db'.schema, "keys") <=> HasColumn(db', "orders", "idempotency_key")
      BY StandsIsHas
    <3> QED
      BY <2>2, <3>1 DEF Carries
  <2>3. ASSUME NEW j \in Jobs, Commit(j) PROVE Survive
    BY <2>2, <2>3 DEF Commit, IInv
  <2>4. ASSUME NEW u \in Users, SignUp(u) PROVE Survive
    <3>1. /\ db.users \subseteq db'.users /\ db.passwords \subseteq db'.passwords
          /\ db'.keys = db.keys /\ db'.status = db.status
      BY <2>4 DEF SignUp, WithUser, IInv, Typed, IsDatabase
    <3> QED
      BY <3>1
  <2>5. ASSUME NEW o \in Orders, PlaceOrder(o) PROVE Survive
    <3>1. /\ db'.users = db.users /\ db'.passwords = db.passwords
          /\ db.keys \subseteq db'.keys /\ DOMAIN db.status \subseteq DOMAIN db'.status
          /\ job' = job
      BY <2>5 DEF PlaceOrder, WithOrder, Writable, IInv, Typed, IsDatabase
    <3> QED
      BY <3>1
  <2>6. ASSUME NEW o \in Orders, ProcessOrder(o) \/ PayOrder(o) PROVE Survive
    <3>1. PICK label \in Statuses : Settle(o, label)
      BY <2>6 DEF ProcessOrder, PayOrder, Statuses
    <3>2. /\ db' = WithStatus(db, o, label) /\ job' = job /\ o \in DOMAIN db.status /\ IsDatabase(db)
      BY <3>1 DEF Settle, Writable, IInv, Typed
    <3>3. /\ db'.users = db.users /\ db'.passwords = db.passwords
          /\ db'.keys = db.keys /\ DOMAIN db'.status = DOMAIN db.status
      BY <3>2, StatusWritten
    <3> QED
      BY <3>2, <3>3
  <2>7. ASSUME NEW j \in Jobs,
               \/ \E r \in Releases : LoadRun(j, r)
               \/ LoadRevert(j) \/ Begin(j) \/ Execute(j) \/ Refuse(j) \/ Die(j)
        PROVE  db' = db
    BY <2>7 DEF LoadRun, LoadRevert, Start, Begin, Execute, Refuse, Die
  <2>8. Quiet => UNCHANGED vars
    BY DEF Quiet
  <2> HIDE DEF Survive
  <2>9. db' = db => Survive
    BY DEF Survive
  <2> QED
    BY <2>3, <2>4, <2>5, <2>6, <2>7, <2>8, <2>9 DEF Next
<1> QED
  BY <1>1, MigrationsInvariant, PTL DEF Spec, RowsSurvive

-----------------------------------------------------------------------------
(* What the plan of a job does to the schema. *)

(* The schema and the executed migrations after a statement *)
After(s, S) ==
    CASE s.op = "create" -> S \cup s.what
      [] s.op = "drop" -> S \ UNION {Parts(S, o) : o \in s.what}
      [] s.op = "rename" -> {Renamed(o, The(s.what).name, s.to) : o \in S}
      [] s.op = "retype" -> s.what \cup (S \ Named(S, "column", The(s.what).in, The(s.what).name))
      [] OTHER -> S

DoneAfter(s, D) ==
    CASE s.op = "record" -> D \cup {s.row}
      [] s.op = "forget" -> D \ {s.row}
      [] OTHER -> D

(* Nothing in the schema stands in the way of a statement; of the statuses,
   only "processed" has no label in the type of before. *)
Clear(s, S) ==
    /\ s.op = "create" =>
          \A o \in s.what :
              /\ Named(S, o.kind, o.in, o.name) = {}
              /\ \A n \in {o.in} \cup o.uses : \E p \in S \cup s.what : p.name = n
    /\ s.op = "drop" => \A o \in s.what : o \in S /\ ~ InUse(S, o)
    /\ s.op = "rename" => s.what \subseteq S /\ Type(s.to) \notin S
    /\ s.op = "retype" =>
          \A o \in s.what :
              LET labels == UNION {Labels(S, ty) : ty \in o.uses}
              IN  /\ Default(o.in, o.name) \notin S
                  /\ Statuses \ {"processed"} \subseteq labels
                  /\ "processed" \in labels <=> o # Status("orders_status_enum_old")
    /\ s.op = "fill" => s.what \subseteq S

(* A statement that nothing stands in the way of leads from x to y. *)
Moves(s, x, y) ==
    /\ Clear(s, x.schema)
    /\ y = [schema |-> After(s, x.schema), done |-> DoneAfter(s, x.done)]

(* F goes through the statements of p from x to y. *)
Passes(p, F, x, y) ==
    /\ F[1] = x /\ F[Len(p) + 1] = y
    /\ \A i \in 1..Len(p) : Moves(p[i], F[i], F[i + 1])

IsPlan(p) == \E S : p \in Seq(S)

Leads(p, x, y) == IsPlan(p) /\ \E F : Passes(p, F, x, y)

LEMMA NoStatementLeads == \A x, y : Leads(<<>>, x, y) <=> x = y
<1>1. PICK S : S = {}
  OBVIOUS
<1>2. <<>> \in Seq(S) /\ Len(<<>>) = 0
  BY <1>1
<1>3. ASSUME NEW x PROVE Passes(<<>>, <<x>>, x, x)
  BY <1>2 DEF Passes
<1>4. ASSUME NEW x, NEW y, NEW F, Passes(<<>>, F, x, y) PROVE x = y
  BY <1>2, <1>4 DEF Passes
<1>5. IsPlan(<<>>)
  BY <1>2 DEF IsPlan
<1>6. ASSUME NEW x PROVE Leads(<<>>, x, x)
  BY <1>3, <1>5 DEF Leads
<1>7. ASSUME NEW x, NEW y, Leads(<<>>, x, y) PROVE x = y
  BY <1>4, <1>7 DEF Leads
<1> QED
  BY <1>6, <1>7

(* The first statement of a plan, and the rest *)
LEMMA LeadsByHead ==
    ASSUME NEW p, NEW x, NEW y, Leads(p, x, y), p # <<>>
    PROVE  \E z : Moves(Head(p), x, z) /\ Leads(Tail(p), z, y)
<1>1. PICK S : p \in Seq(S)
  BY DEF Leads, IsPlan
<1>2. PICK F : Passes(p, F, x, y)
  BY DEF Leads
<1>3. /\ Len(p) \in Nat /\ Len(p) > 0 /\ Head(p) = p[1]
      /\ Tail(p) \in Seq(S) /\ Len(Tail(p)) = Len(p) - 1
      /\ \A i \in 1..Len(Tail(p)) : Tail(p)[i] = p[i + 1]
  BY <1>1
<1> DEFINE n == Len(Tail(p))
           G == [i \in 1..(n + 1) |-> F[i + 1]]
<1>4. Moves(Head(p), x, F[2])
  BY <1>2, <1>3 DEF Passes
<1>5. Passes(Tail(p), G, F[2], y)
  <2>1. G[1] = F[2] /\ G[n + 1] = y
    BY <1>2, <1>3 DEF Passes
  <2>2. ASSUME NEW i \in 1..n PROVE Moves(Tail(p)[i], G[i], G[i + 1])
    <3>1. i + 1 \in 1..Len(p) /\ i \in 1..(n + 1) /\ i + 1 \in 1..(n + 1)
      BY <1>3
    <3>2. Moves(p[i + 1], F[i + 1], F[i + 1 + 1])
      BY <1>2, <3>1 DEF Passes
    <3> QED
      BY <1>3, <3>1, <3>2
  <2> QED
    BY <2>1, <2>2 DEF Passes
<1>6. Leads(Tail(p), F[2], y)
  BY <1>3, <1>5 DEF Leads, IsPlan
<1> QED
  BY <1>4, <1>6

LEMMA LeadsOn ==
    ASSUME NEW p, NEW q, NEW x, NEW y, NEW z, Leads(p, x, y), Leads(q, y, z)
    PROVE  Leads(p \o q, x, z)
<1>1. PICK S : p \in Seq(S)
  BY DEF Leads, IsPlan
<1>2. PICK T : q \in Seq(T)
  BY DEF Leads, IsPlan
<1>3. PICK U : U = S \cup T
  OBVIOUS
<1>4. p \in Seq(U) /\ q \in Seq(U)
  BY <1>1, <1>2, <1>3, SeqMonotonic
<1> DEFINE m == Len(p)
           n == Len(q)
           r == p \o q
<1>5. /\ m \in Nat /\ n \in Nat /\ r \in Seq(U) /\ Len(r) = m + n
      /\ \A i \in 1..(m + n) : r[i] = IF i <= m THEN p[i] ELSE q[i - m]
  BY <1>4, ConcatProperties, LenProperties
<1>6. PICK F : Passes(p, F, x, y)
  BY DEF Leads
<1>7. PICK G : Passes(q, G, y, z)
  BY DEF Leads
<1> DEFINE H == [i \in 1..(m + n + 1) |-> IF i <= m THEN F[i] ELSE G[i - m]]
<1> HIDE DEF m, n, r
<1>8. H[m + 1] = F[m + 1] /\ \A i \in 1..m : H[i] = F[i]
  BY <1>5, <1>6, <1>7 DEF Passes, m
<1>9. \A i \in 1..(n + 1) : H[m + i] = G[i]
  BY <1>5, <1>8
<1>10. H[1] = x /\ H[m + n + 1] = z
  <2>1. H[m + n + 1] = G[n + 1]
    BY <1>5, <1>9
  <2>2. H[1] = F[1]
    BY <1>5, <1>8
  <2> QED
    BY <2>1, <2>2, <1>6, <1>7 DEF Passes, m, n
<1> HIDE DEF H
<1>11. ASSUME NEW i \in 1..(m + n) PROVE Moves(r[i], H[i], H[i + 1])
  <2>1. CASE i <= m
    <3>1. i \in 1..m /\ r[i] = p[i] /\ H[i] = F[i] /\ (i + 1 \in 1..m \/ i + 1 = m + 1)
      BY <1>5, <1>8, <2>1
    <3>2. H[i + 1] = F[i + 1]
      BY <1>8, <3>1
    <3> QED
      BY <1>6, <3>1, <3>2 DEF Passes, m
  <2>2. CASE ~ (i <= m)
    <3>1. PICK k \in 1..n : k = i - m
      BY <1>5, <2>2
    <3>2. r[i] = q[k] /\ H[i] = G[k] /\ H[i + 1] = G[k + 1]
      <4>1. i = m + k /\ i + 1 = m + (k + 1) /\ k \in 1..(n + 1) /\ k + 1 \in 1..(n + 1)
        BY <1>5, <3>1
      <4>2. r[i] = q[k]
        BY <1>5, <2>2, <3>1
      <4> QED
        BY <1>9, <4>1, <4>2
    <3> QED
      BY <1>7, <3>1, <3>2 DEF Passes, n
  <2> QED
    BY <2>1, <2>2
<1>12. Passes(r, H, x, z)
  BY <1>5, <1>10, <1>11 DEF Passes
<1> QED
  BY <1>5, <1>12 DEF Leads, IsPlan, r

(* Plans of one statement after another *)
LEMMA OneLeads == \A s, x, y : Moves(s, x, y) => Leads(<<s>>, x, y)
<1> SUFFICES ASSUME NEW s, NEW x, NEW y, Moves(s, x, y) PROVE Leads(<<s>>, x, y)
  OBVIOUS
<1>1. PICK S : S = {s}
  OBVIOUS
<1>2. <<s>> \in Seq(S) /\ Len(<<s>>) = 1
  BY <1>1
<1>3. Passes(<<s>>, <<x, y>>, x, y)
  BY <1>2 DEF Passes
<1> QED
  BY <1>2, <1>3 DEF Leads, IsPlan

LEMMA AppendLeads ==
    ASSUME NEW p, NEW s, NEW x, NEW y, NEW z, Leads(p, x, y), Moves(s, y, z)
    PROVE  Leads(Append(p, s), x, z)
<1>1. PICK S : p \in Seq(S)
  BY DEF Leads, IsPlan
<1>2. PICK U : U = S \cup {s}
  OBVIOUS
<1>3. p \in Seq(U) /\ s \in U
  BY <1>1, <1>2, SeqMonotonic
<1>4. Append(p, s) = p \o <<s>>
  BY <1>3, AppendIsConcat
<1>5. Leads(<<s>>, y, z)
  BY OneLeads
<1> QED
  BY <1>4, <1>5, LeadsOn

LEMMA TupleAppends ==
    /\ \A a, b : <<a, b>> = Append(<<a>>, b)
    /\ \A a, b, c : <<a, b, c>> = Append(<<a, b>>, c)
    /\ \A a, b, c, d : <<a, b, c, d>> = Append(<<a, b, c>>, d)
    /\ \A a, b, c, d, e : <<a, b, c, d, e>> = Append(<<a, b, c, d>>, e)
    /\ \A a, b, c, d, e, f : <<a, b, c, d, e, f>> = Append(<<a, b, c, d, e>>, f)
    /\ \A a, b, c, d, e, f, g : <<a, b, c, d, e, f, g>> = Append(<<a, b, c, d, e, f>>, g)
    /\ \A a, b, c, d, e, f, g, h :
          <<a, b, c, d, e, f, g, h>> = Append(<<a, b, c, d, e, f, g>>, h)
    /\ \A a, b, c, d, e, f, g, h, i :
          <<a, b, c, d, e, f, g, h, i>> = Append(<<a, b, c, d, e, f, g, h>>, i)
    /\ \A a, b, c, d, e, f, g, h, i, j :
          <<a, b, c, d, e, f, g, h, i, j>> = Append(<<a, b, c, d, e, f, g, h, i>>, j)
OBVIOUS

LEMMA ExecutedStage ==
    ASSUME NEW d, IsDatabase(d), NEW s, UpStep(s) \/ DownStep(s)
    PROVE  /\ Executed(s, d).schema = After(s, d.schema)
           /\ Executed(s, d).done = DoneAfter(s, d.done)
<1> DEFINE e == Executed(s, d)
<1>1. d \in [schema : {d.schema}, users : {d.users}, passwords : {d.passwords},
             status : {d.status}, keys : {d.keys}, done : {d.done}]
  BY DEF IsDatabase
<1>2. s.op \in {"create", "drop", "rename", "retype", "fill", "record", "forget"}
  BY DEF UpStep, DownStep, CreateStep, DropStep, RenameStep, RetypeStep, FillStep, RowStep
<1>3. CASE s.op = "create"
  <2>1. e = [d EXCEPT !.schema = @ \cup s.what]
    BY <1>3 DEF Executed
  <2>2. e.schema = d.schema \cup s.what /\ e.done = d.done
    BY <1>1, <2>1
  <2> QED
    BY <1>3, <2>2 DEF After, DoneAfter
<1>4. CASE s.op = "drop"
  <2> DEFINE S == d.schema \ UNION {Parts(d.schema, o) : o \in s.what}
  <2>1. e = Kept(d, S)
    BY <1>4 DEF Executed
  <2> HIDE DEF S
  <2>2. e.schema = S /\ e.done = d.done
    BY <1>1, <2>1 DEF Kept
  <2> QED
    BY <1>4, <2>2 DEF After, DoneAfter, S
<1>5. CASE s.op = "rename"
  <2> DEFINE S == {Renamed(o, The(s.what).name, s.to) : o \in d.schema}
  <2>1. e = [d EXCEPT !.schema = S]
    BY <1>5 DEF Executed
  <2> HIDE DEF S
  <2>2. e.schema = S /\ e.done = d.done
    BY <1>1, <2>1
  <2> QED
    BY <1>5, <2>2 DEF After, DoneAfter, S
<1>6. CASE s.op = "retype"
  <2> DEFINE S == s.what \cup (d.schema \ Named(d.schema, "column", The(s.what).in, The(s.what).name))
             status == [r \in DOMAIN d.status |-> Cast(d.status[r])]
  <2>1. e = [d EXCEPT !.schema = S, !.status = status]
    <3>1. e = [d EXCEPT !.schema = s.what \cup (@ \ Named(@, "column", The(s.what).in, The(s.what).name)),
                        !.status = [r \in DOMAIN @ |-> Cast(@[r])]]
      BY <1>6 DEF Executed
    <3> QED
      BY <1>1, <3>1
  <2> HIDE DEF S, status
  <2>2. e.schema = S /\ e.done = d.done
    BY <1>1, <2>1
  <2> QED
    BY <1>6, <2>2 DEF After, DoneAfter, S
<1>7. CASE s.op = "fill"
  <2>1. e = [d EXCEPT !.keys = DOMAIN d.status]
    BY <1>7 DEF Executed
  <2>2. e.schema = d.schema /\ e.done = d.done
    BY <1>1, <2>1
  <2> QED
    BY <1>7, <2>2 DEF After, DoneAfter
<1>8. CASE s.op \in {"record", "forget"}
  <2>1. e = [d EXCEPT !.done = DoneAfter(s, @)]
    BY <1>1, <1>8 DEF Executed, DoneAfter
  <2>2. e.schema = d.schema /\ e.done = DoneAfter(s, d.done)
    BY <1>1, <2>1
  <2> QED
    BY <1>8, <2>2 DEF After
<1> QED
  BY <1>2, <1>3, <1>4, <1>5, <1>6, <1>7, <1>8

(* A statement that nothing in the schema stands in the way of is refused for
   the rows only. *)
LEMMA ClearRefused ==
    ASSUME NEW d, IsDatabase(d), NEW s, Clear(s, d.schema), Refused(s, d)
    PROVE  \/ s.op = "create" /\ \E o \in s.what : o.kind = "not_null" /\ NullRows(d, o) # {}
           \/ /\ Status("orders_status_enum_old") \in s.what
              /\ \E r \in DOMAIN d.status : d.status[r] = "processed"
<1>1. CASE s.op = "create"
  BY <1>1 DEF Clear, Refused
<1>2. CASE s.op = "drop"
  BY <1>2 DEF Clear, Refused
<1>3. CASE s.op = "rename"
  BY <1>3 DEF Clear, Refused
<1>4. CASE s.op = "retype"
  <2>1. PICK o \in s.what :
          \/ Default(o.in, o.name) \in d.schema
          \/ \E r \in DOMAIN d.status :
                d.status[r] \notin UNION {Labels(d.schema, ty) : ty \in o.uses}
    BY <1>4 DEF Refused
  <2> DEFINE labels == UNION {Labels(d.schema, ty) : ty \in o.uses}
  <2>2. /\ Default(o.in, o.name) \notin d.schema
        /\ Statuses \ {"processed"} \subseteq labels
        /\ "processed" \in labels \/ o = Status("orders_status_enum_old")
    BY <1>4, <2>1 DEF Clear
  <2> HIDE DEF labels
  <2>3. PICK r \in DOMAIN d.status : d.status[r] \notin labels
    BY <2>1, <2>2 DEF labels
  <2>4. d.status[r] \in Statuses
    BY <2>3 DEF IsDatabase, Rows
  <2> QED
    BY <2>2, <2>3, <2>4
<1>5. CASE s.op = "fill"
  BY <1>5 DEF Clear, Refused
<1> QED
  BY <1>1, <1>2, <1>3, <1>4, <1>5 DEF Refused

-----------------------------------------------------------------------------
(* The objects of the schemas. *)

LEMMA ObjectParted ==
    \A k, n, t, u :
        /\ Object(k, n, t, u).kind = k /\ Object(k, n, t, u).name = n
        /\ Object(k, n, t, u).in = t /\ Object(k, n, t, u).uses = u
BY DEF Object

LEMMA TableParted ==
    \A t : /\ Table(t).kind = "table" /\ Table(t).name = t
            /\ Table(t).in = t /\ Table(t).uses = {}
BY DEF Table, Object

LEMMA TypeParted ==
    \A t : /\ Type(t).kind = "type" /\ Type(t).name = t
            /\ Type(t).in = t /\ Type(t).uses = {}
BY DEF Type, Object

LEMMA ColumnParted ==
    \A t, c : /\ Column(t, c).kind = "column" /\ Column(t, c).name = c
            /\ Column(t, c).in = t /\ Column(t, c).uses = {}
BY DEF Column, Object

LEMMA EnumColumnParted ==
    \A t, c, ty : /\ EnumColumn(t, c, ty).kind = "column" /\ EnumColumn(t, c, ty).name = c
            /\ EnumColumn(t, c, ty).in = t /\ EnumColumn(t, c, ty).uses = {ty}
BY DEF EnumColumn, Object

LEMMA NotNullParted ==
    \A t, c : /\ NotNull(t, c).kind = "not_null" /\ NotNull(t, c).name = c
            /\ NotNull(t, c).in = t /\ NotNull(t, c).uses = {}
BY DEF NotNull, Object

LEMMA DefaultParted ==
    \A t, c : /\ Default(t, c).kind = "default" /\ Default(t, c).name = c
            /\ Default(t, c).in = t /\ Default(t, c).uses = {}
BY DEF Default, Object

LEMMA UniqueParted ==
    \A n, t, u : /\ Unique(n, t, u).kind = "unique" /\ Unique(n, t, u).name = n
            /\ Unique(n, t, u).in = t /\ Unique(n, t, u).uses = u
BY DEF Unique, Object

LEMMA IndexParted ==
    \A n, t, u : /\ Index(n, t, u).kind = "index" /\ Index(n, t, u).name = n
            /\ Index(n, t, u).in = t /\ Index(n, t, u).uses = u
BY DEF Index, Object

LEMMA ForeignKeyParted ==
    \A n, t, u : /\ ForeignKey(n, t, u).kind = "foreign_key" /\ ForeignKey(n, t, u).name = n
            /\ ForeignKey(n, t, u).in = t /\ ForeignKey(n, t, u).uses = {u}
BY DEF ForeignKey, Object

(* The members of a set of columns, and of an enumeration *)
LEMMA RequiredParted ==
    ASSUME NEW t, NEW cs, NEW o \in Required(t, cs)
    PROVE  /\ o.kind \in {"column", "not_null"} /\ o.name \in cs /\ o.in = t /\ o.uses = {}
           /\ o = Column(t, o.name) \/ o = NotNull(t, o.name)
<1>1. PICK c \in cs : o = Column(t, c) \/ o = NotNull(t, c)
  BY DEF Required
<1> QED
  BY <1>1, ColumnParted, NotNullParted

LEMMA EnumParted ==
    ASSUME NEW ty, NEW ls, NEW o \in Enum(ty, ls)
    PROVE  /\ o.in = ty /\ o.uses = {}
           /\ \/ o = Type(ty)
              \/ o.kind = "label" /\ o.name \in ls /\ o = Object("label", o.name, ty, {})
BY TypeParted, ObjectParted DEF Enum

(* What the first migration makes, but for the status of an order *)
UsersBase ==
    {Table("users"), UsersEmail, Unique("PK_users_id", "users", {"id"})}
    \cup Required("users", {"id", "email"} \cup Dates) \cup Role
OrdersBase ==
    {Table("orders"), Unique("PK_orders_id", "orders", {"id"}), NotNull("orders", "status")}
    \cup Required("orders", {"id", "user_id"} \cup Dates)
Roles == Enum("users_role_enum", {"user", "admin"})
Links == {OrdersUser, OrdersFK, ItemsOrderFK, ItemsProductFK}
Base == Roles \cup UsersBase \cup TProducts \cup OrdersBase \cup TItems \cup Links

Kept4 == Base \cup Added(2)   \* what the fourth leaves alone

FirstLabels == {"created", "canceled", "paid"}
StatusParts(ls) == {Status("orders_status_enum"), StatusDefault} \cup Enum("orders_status_enum", ls)

(* Which table or type the objects of a group belong to, and what they are not *)
GroupOf(t, o) == IsObject(o) /\ o.in = t /\ o.kind \notin {"index", "foreign_key"}

LEMMA Groups ==
    /\ \A o \in Roles : GroupOf("users_role_enum", o)
    /\ \A o \in UsersBase : GroupOf("users", o)
    /\ \A o \in TProducts : GroupOf("products", o)
    /\ \A o \in OrdersBase : GroupOf("orders", o)
    /\ \A o \in TItems : GroupOf("order_items", o)
    /\ \A o \in TMessages : GroupOf("processed_messages", o)
<1>1. ASSUME NEW t, NEW cs, NEW o \in Required(t, cs) PROVE GroupOf(t, o)
  BY <1>1, RequiredParted, RequiredType DEF GroupOf
<1>2. ASSUME NEW ty, NEW ls, NEW o \in Enum(ty, ls) PROVE GroupOf(ty, o)
  BY <1>2, EnumParted, EnumType, TypeParted DEF GroupOf
<1>3. ASSUME NEW t, NEW n, NEW cs PROVE GroupOf(t, Table(t)) /\ GroupOf(t, Unique(n, t, cs))
  <2>1. IsObject(Table(t)) /\ IsObject(Unique(n, t, cs))
    BY TableType, PartTypes
  <2> QED
    BY <2>1, TableParted, UniqueParted DEF GroupOf
<1>4. \A o \in Role : GroupOf("users", o)
  BY EnumColumnParted, NotNullParted, DefaultParted, PartTypes DEF GroupOf, Role
<1>5. \A o \in Roles : GroupOf("users_role_enum", o)
  BY <1>2 DEF Roles
<1>6. \A o \in UsersBase : GroupOf("users", o)
  BY <1>1, <1>3, <1>4 DEF UsersBase, UsersEmail
<1>7. \A o \in TProducts : GroupOf("products", o)
  BY <1>1, <1>3 DEF TProducts
<1>8. \A o \in OrdersBase : GroupOf("orders", o)
  <2>1. GroupOf("orders", NotNull("orders", "status"))
    BY NotNullParted, PartTypes DEF GroupOf
  <2> QED
    BY <1>1, <1>3, <2>1 DEF OrdersBase
<1>9. \A o \in TItems : GroupOf("order_items", o)
  BY <1>1, <1>3 DEF TItems
<1>10. \A o \in TMessages : GroupOf("processed_messages", o)
  BY <1>1, <1>3 DEF TMessages
<1> QED
  BY <1>5, <1>6, <1>7, <1>8, <1>9, <1>10

(* The names that migrations 2 to 6 and their reverts look for *)
Looked ==
    {"password", "idempotency_key", "processed_at", "processed", "processed_messages"} \cup StatusTypes

LEMMA OrdersKeyParted ==
    /\ OrdersKey.kind = "unique" /\ OrdersKey.in = "orders"
    /\ OrdersKey.name = "UQ_orders_user_id_idempotency_key"
    /\ OrdersKey.uses = {"user_id", "idempotency_key"}
BY DEF OrdersKey, Unique, Object

LEMMA ListingParted ==
    /\ Listing.kind = "index" /\ Listing.in = "orders"
    /\ Listing.name = "IX_orders_user_id_status_created_at"
    /\ Listing.uses = {"user_id", "status", "created_at"}
BY DEF Listing, Index, Object

LEMMA OrdersUserParted ==
    /\ OrdersUser.kind = "index" /\ OrdersUser.in = "orders"
    /\ OrdersUser.name = "IX_orders_user_id"
    /\ OrdersUser.uses = {"user_id"}
BY DEF OrdersUser, Index, Object

LEMMA OrdersFKParted ==
    /\ OrdersFK.kind = "foreign_key" /\ OrdersFK.in = "orders"
    /\ OrdersFK.name = "FK_orders_user_id_users_id"
    /\ OrdersFK.uses = {"users"}
BY DEF OrdersFK, ForeignKey, Object

LEMMA ItemsOrderFKParted ==
    /\ ItemsOrderFK.kind = "foreign_key" /\ ItemsOrderFK.in = "order_items"
    /\ ItemsOrderFK.name = "FK_order_items_order_id_orders_id"
    /\ ItemsOrderFK.uses = {"orders"}
BY DEF ItemsOrderFK, ForeignKey, Object

LEMMA ItemsProductFKParted ==
    /\ ItemsProductFK.kind = "foreign_key" /\ ItemsProductFK.in = "order_items"
    /\ ItemsProductFK.name = "FK_order_items_product_id_products_id"
    /\ ItemsProductFK.uses = {"products"}
BY DEF ItemsProductFK, ForeignKey, Object

LEMMA StatusDefaultParted ==
    /\ StatusDefault.kind = "default" /\ StatusDefault.in = "orders"
    /\ StatusDefault.name = "status"
    /\ StatusDefault.uses = {}
BY DEF StatusDefault, Default, Object

LEMMA StatusParted ==
    \A ty : /\ Status(ty).kind = "column" /\ Status(ty).in = "orders"
            /\ Status(ty).name = "status" /\ Status(ty).uses = {ty}
BY DEF Status, EnumColumn, Object

(* No object of the base has a name the later migrations look for. *)
Plain(o) ==
    /\ o.name \notin Looked \cup {OrdersKey.name, Listing.name}
    /\ o.in \notin Looked
    /\ o.uses \cap Looked = {}
    /\ o.in = "orders" /\ o.name = "status" => o.kind = "not_null"

LEMMA BasePlain == \A o \in Base : Plain(o) /\ IsObject(o)
<1> DEFINE Other == Looked \cup {OrdersKey.name, Listing.name}
<1>1. ASSUME NEW t \in {"users", "products", "orders", "order_items"}, NEW cs,
             NEW o \in Required(t, cs), cs \cap (Other \cup {"status"}) = {}
      PROVE  Plain(o)
  <2>1. o.name \notin Other \cup {"status"} /\ o.in = t /\ o.uses = {}
    BY <1>1, RequiredParted
  <2> QED
    BY <2>1 DEF Plain, Looked, StatusTypes
<1>2. \A o \in Roles : Plain(o)
  <2>1. ASSUME NEW o \in Roles
        PROVE  /\ o.in = "users_role_enum" /\ o.uses = {}
               /\ o.name \in {"users_role_enum", "user", "admin"}
    BY EnumParted, TypeParted DEF Roles
  <2> QED
    BY <2>1, OrdersKeyParted, ListingParted DEF Plain, Looked, StatusTypes
<1>3. ASSUME NEW t \in {"users", "products", "orders", "order_items"}
      PROVE  /\ Plain(Table(t))
             /\ \A n, cs : n \notin Other \cup {"status"} /\ cs \cap Looked = {} => Plain(Unique(n, t, cs))
  BY TableParted, UniqueParted, OrdersKeyParted, ListingParted DEF Plain, Looked, StatusTypes
<1>4. /\ {"id", "email"} \cup Dates \subseteq {"id", "email", "created_at", "updated_at"}
      /\ {"id", "user_id"} \cup Dates \subseteq {"id", "user_id", "created_at", "updated_at"}
      /\ {"id", "title", "description", "stock", "price"} \cup Dates
           \subseteq {"id", "title", "description", "stock", "price", "created_at", "updated_at"}
      /\ {"order_id", "product_id", "qty", "purchase_price"} \cup Dates
           \subseteq {"order_id", "product_id", "qty", "purchase_price", "created_at", "updated_at"}
  BY DEF Dates
<1>5. {"id", "email", "title", "description", "stock", "price", "order_id", "product_id", "qty",
       "purchase_price", "user_id", "created_at", "updated_at"} \cap (Other \cup {"status"}) = {}
  BY OrdersKeyParted, ListingParted DEF Looked, StatusTypes
<1>6. \A o \in Role : Plain(o)
  BY EnumColumnParted, NotNullParted, DefaultParted, OrdersKeyParted, ListingParted DEF Role, Plain, Looked, StatusTypes
<1>7. /\ "PK_users_id" \notin Other \cup {"status"} /\ "UQ_users_email" \notin Other \cup {"status"}
      /\ "PK_products_id" \notin Other \cup {"status"} /\ "PK_orders_id" \notin Other \cup {"status"}
      /\ "PK_order_items_order_id_product_id" \notin Other \cup {"status"}
      /\ {"id"} \cap Looked = {} /\ {"email"} \cap Looked = {}
      /\ {"order_id", "product_id"} \cap Looked = {}
  BY OrdersKeyParted, ListingParted DEF Looked, StatusTypes
<1>8. Plain(NotNull("orders", "status"))
  BY NotNullParted, OrdersKeyParted, ListingParted DEF Plain, Looked, StatusTypes
<1>9. \A o \in Links : Plain(o)
  BY OrdersUserParted, OrdersFKParted, ItemsOrderFKParted, ItemsProductFKParted,
     OrdersKeyParted, ListingParted DEF Links, Plain, Looked, StatusTypes
<1> HIDE DEF Other
<1>10. \A o \in UsersBase : Plain(o)
  <2>1. \A o \in Required("users", {"id", "email"} \cup Dates) : Plain(o)
    BY <1>1, <1>4, <1>5
  <2>2. \A o \in {Table("users"), UsersEmail, Unique("PK_users_id", "users", {"id"})} : Plain(o)
    BY <1>3, <1>7 DEF UsersEmail
  <2> QED
    BY <2>1, <2>2, <1>6 DEF UsersBase
<1>11. \A o \in OrdersBase : Plain(o)
  <2>1. \A o \in Required("orders", {"id", "user_id"} \cup Dates) : Plain(o)
    BY <1>1, <1>4, <1>5
  <2>2. \A o \in {Table("orders"), Unique("PK_orders_id", "orders", {"id"})} : Plain(o)
    BY <1>3, <1>7
  <2> QED
    BY <2>1, <2>2, <1>8 DEF OrdersBase
<1>12. \A o \in TProducts : Plain(o)
  <2>1. \A o \in Required("products", {"id", "title", "description", "stock", "price"} \cup Dates) : Plain(o)
    BY <1>1, <1>4, <1>5
  <2>2. \A o \in {Table("products"), Unique("PK_products_id", "products", {"id"})} : Plain(o)
    BY <1>3, <1>7
  <2> QED
    BY <2>1, <2>2 DEF TProducts
<1>13. \A o \in TItems : Plain(o)
  <2>1. \A o \in Required("order_items", {"order_id", "product_id", "qty", "purchase_price"} \cup Dates) : Plain(o)
    BY <1>1, <1>4, <1>5
  <2>2. \A o \in {Table("order_items"),
                  Unique("PK_order_items_order_id_product_id", "order_items",
                         {"order_id", "product_id"})} : Plain(o)
    BY <1>3, <1>7
  <2> QED
    BY <2>1, <2>2 DEF TItems
<1>14. \A o \in Base : Plain(o)
  BY <1>2, <1>9, <1>10, <1>11, <1>12, <1>13 DEF Base
<1>15. \A o \in Base : IsObject(o)
  BY Groups, NamedObjects DEF Base, Links, GroupOf
<1> QED
  BY <1>14, <1>15

Processed == Object("label", "processed", "orders_status_enum", {})
First == Base \cup StatusParts(FirstLabels)

(* The migration that adds an object of the entities *)
Era(o) ==
    CASE o.in = "orders" /\ o.name \in {"idempotency_key", OrdersKey.name} -> 2
      [] o.in = "orders" /\ o.name = Listing.name -> 3
      [] \/ o.in = "orders" /\ o.name = "processed_at"
         \/ o.in = "orders_status_enum" /\ o.name = "processed" -> 4
      [] o.in = "processed_messages" -> 5
      [] o.in = "users" /\ o.name = "password" -> 6
      [] OTHER -> 1

LEMMA AddedMembers ==
    /\ Added(2) = {Column("orders", "idempotency_key"), NotNull("orders", "idempotency_key"), OrdersKey}
    /\ Added(3) = {Listing}
    /\ Added(4) = {Column("orders", "processed_at"), Processed}
    /\ Added(5) = TMessages
    /\ Added(6) = {Column("users", "password"), NotNull("users", "password")}
<1>1. \A t, c : Required(t, {c}) = {Column(t, c), NotNull(t, c)}
  BY DEF Required
<1>2. Added(2) = {Column("orders", "idempotency_key"), NotNull("orders", "idempotency_key"), OrdersKey}
  BY <1>1 DEF Added
<1>3. Added(6) = {Column("users", "password"), NotNull("users", "password")}
  BY <1>1 DEF Added
<1> QED
  BY <1>2, <1>3 DEF Added, Processed

LEMMA FirstMembers ==
    ASSUME NEW o \in First
    PROVE  \/ o \in Base
           \/ o = Status("orders_status_enum") \/ o = StatusDefault
           \/ /\ o.in = "orders_status_enum" /\ o.uses = {}
              /\ \/ o = Type("orders_status_enum")
                 \/ o.kind = "label" /\ o.name \in FirstLabels
BY EnumParted DEF First, StatusParts

LEMMA AddedEras ==
    /\ \A o \in First : Era(o) = 1
    /\ \A n \in 2..6 : \A o \in Added(n) : Era(o) = n
<1>1. OrdersKey.name # Listing.name /\ OrdersKey.name \notin {"idempotency_key", "processed_at", "status"}
      /\ Listing.name \notin {"idempotency_key", "processed_at", "status"}
  BY OrdersKeyParted, ListingParted
<1>2. ASSUME NEW o \in First PROVE Era(o) = 1
  <2>1. CASE o \in Base
    BY <2>1, BasePlain DEF Plain, Looked, StatusTypes, Era
  <2>2. CASE o = Status("orders_status_enum") \/ o = StatusDefault
    <3>1. o.in = "orders" /\ o.name = "status"
      BY <2>2, StatusParted, StatusDefaultParted
    <3> QED
      BY <3>1, <1>1 DEF Era
  <2>3. CASE o.in = "orders_status_enum" /\ (o = Type("orders_status_enum") \/ o.name \in FirstLabels)
    <3>1. o.name # "processed"
      BY <2>3, TypeParted DEF FirstLabels
    <3> QED
      BY <2>3, <3>1 DEF Era
  <2> QED
    BY <2>1, <2>2, <2>3, FirstMembers
<1>3. ASSUME NEW o \in Added(2) PROVE Era(o) = 2
  <2>1. o.in = "orders" /\ o.name \in {"idempotency_key", OrdersKey.name}
    BY <1>3, AddedMembers, ColumnParted, NotNullParted, OrdersKeyParted
  <2> QED
    BY <1>1, <2>1 DEF Era
<1>4. ASSUME NEW o \in Added(3) PROVE Era(o) = 3
  BY <1>4, <1>1, AddedMembers, ListingParted DEF Era
<1>5. ASSUME NEW o \in Added(4) PROVE Era(o) = 4
  BY <1>5, <1>1, AddedMembers, ColumnParted, ObjectParted DEF Era, Processed
<1>6. ASSUME NEW o \in Added(5) PROVE Era(o) = 5
  BY <1>6, AddedMembers, Groups DEF Era, GroupOf
<1>7. ASSUME NEW o \in Added(6) PROVE Era(o) = 6
  BY <1>7, AddedMembers, ColumnParted, NotNullParted DEF Era
<1>8. ASSUME NEW n \in 2..6 PROVE n = 2 \/ n = 3 \/ n = 4 \/ n = 5 \/ n = 6
  OBVIOUS
<1> QED
  BY <1>2, <1>3, <1>4, <1>5, <1>6, <1>7, <1>8

LEMMA EntitiesMade ==
    Entities = First \cup Added(2) \cup Added(3) \cup Added(4) \cup Added(5) \cup Added(6)
<1>1. \A t, A, B : Required(t, A \cup B) = Required(t, A) \cup Required(t, B)
  BY DEF Required
<1>2. Added(2) = Required("orders", {"idempotency_key"}) \cup {OrdersKey}
  BY DEF Added
<1>3. Added(6) = Required("users", {"password"})
  BY DEF Added
<1>4. Required("users", {"id", "email", "password"} \cup Dates)
      = Required("users", {"id", "email"} \cup Dates) \cup Added(6)
  <2>1. {"id", "email", "password"} \cup Dates = ({"id", "email"} \cup Dates) \cup {"password"}
    OBVIOUS
  <2> QED
    BY <2>1, <1>1, <1>3
<1>5. Required("orders", {"id", "user_id", "idempotency_key"} \cup Dates)
      = Required("orders", {"id", "user_id"} \cup Dates) \cup Required("orders", {"idempotency_key"})
  <2>1. {"id", "user_id", "idempotency_key"} \cup Dates
        = ({"id", "user_id"} \cup Dates) \cup {"idempotency_key"}
    OBVIOUS
  <2> QED
    BY <2>1, <1>1
<1>6. Enum("orders_status_enum", {"created", "canceled", "processed", "paid"})
      = Enum("orders_status_enum", FirstLabels) \cup {Processed}
  BY DEF Enum, FirstLabels, Processed
<1>7. EUser = Roles \cup UsersBase \cup Added(6)
  BY <1>4 DEF EUser, Roles, UsersBase
<1>8. EOrder = OrdersBase \cup {OrdersUser, OrdersFK} \cup StatusParts(FirstLabels)
               \cup Added(2) \cup Added(3) \cup Added(4)
  <2>1. EOrder = {Table("orders"), Unique("PK_orders_id", "orders", {"id"}),
                  Listing, OrdersKey, OrdersUser, OrdersFK,
                  Status("orders_status_enum"), NotNull("orders", "status"), StatusDefault,
                  Column("orders", "processed_at")}
                 \cup Required("orders", {"id", "user_id"} \cup Dates)
                 \cup Required("orders", {"idempotency_key"})
                 \cup Enum("orders_status_enum", FirstLabels) \cup {Processed}
    BY <1>5, <1>6 DEF EOrder
  <2> QED
    BY <2>1, <1>2, AddedMembers DEF OrdersBase, StatusParts
<1>9. EOrderItem \cup EProduct \cup EProcessedMessage
      = TItems \cup {ItemsOrderFK, ItemsProductFK} \cup TProducts \cup Added(5)
  BY AddedMembers DEF EOrderItem, EProduct, EProcessedMessage
<1>10. Base = Roles \cup UsersBase \cup TProducts \cup OrdersBase \cup TItems
              \cup {OrdersUser, OrdersFK} \cup {ItemsOrderFK, ItemsProductFK}
  BY DEF Base, Links
<1> QED
  BY <1>7, <1>8, <1>9, <1>10 DEF Entities, First

(* The schema after k migrations is what the first k have added. *)
LEMMA SchemaEras ==
    ASSUME NEW k \in 0..6
    PROVE  SchemaAfter(k) = {o \in Entities : Era(o) <= k}
<1>1. ASSUME NEW o \in Entities
      PROVE  /\ Era(o) \in 1..6
             /\ \A n \in 2..6 : o \in Added(n) <=> Era(o) = n
  <2>1. o \in First \/ \E n \in 2..6 : o \in Added(n)
    <3>1. \/ o \in First \/ o \in Added(2) \/ o \in Added(3)
          \/ o \in Added(4) \/ o \in Added(5) \/ o \in Added(6)
      BY <1>1, EntitiesMade
    <3> QED
      BY <3>1
  <2> QED
    BY <2>1, AddedEras
<1>2. CASE k = 0
  <2>1. SchemaAfter(k) = {}
    BY <1>2 DEF SchemaAfter
  <2> QED
    BY <1>1, <1>2, <2>1
<1>3. CASE k # 0
  <2>1. SchemaAfter(k) = Entities \ UNION {Added(n) : n \in (k + 1)..6}
    BY <1>3 DEF SchemaAfter
  <2>2. ASSUME NEW o \in Entities
        PROVE  o \in UNION {Added(n) : n \in (k + 1)..6} <=> ~ (Era(o) <= k)
    <3>1. o \in UNION {Added(n) : n \in (k + 1)..6} <=> \E n \in (k + 1)..6 : o \in Added(n)
      OBVIOUS
    <3>2. \A n \in (k + 1)..6 : n \in 2..6
      BY <1>3
    <3>3. (\E n \in (k + 1)..6 : o \in Added(n)) <=> Era(o) \in (k + 1)..6
      BY <1>1, <2>2, <3>2
    <3> QED
      BY <1>1, <2>2, <3>1, <3>3
  <2> QED
    BY <2>1, <2>2
<1> QED
  BY <1>2, <1>3

LEMMA SchemaGrows ==
    /\ SchemaAfter(0) = {} /\ SchemaAfter(1) = First /\ SchemaAfter(6) = Entities
    /\ \A n \in 2..6 : SchemaAfter(n) = SchemaAfter(n - 1) \cup Added(n)
    /\ \A n \in 2..6 : \A o \in SchemaAfter(n - 1) : o \in Entities /\ Era(o) < n
<1>1. \A n \in 2..6 : Added(n) \subseteq Entities
  <2>1. ASSUME NEW n \in 2..6 PROVE n = 2 \/ n = 3 \/ n = 4 \/ n = 5 \/ n = 6
    OBVIOUS
  <2> QED
    BY <2>1, EntitiesMade
<1>2. ASSUME NEW o \in Entities
      PROVE  /\ Era(o) \in 1..6
             /\ Era(o) = 1 => o \in First
             /\ \A n \in 2..6 : Era(o) = n => o \in Added(n)
  <2>1. \/ o \in First \/ o \in Added(2) \/ o \in Added(3)
        \/ o \in Added(4) \/ o \in Added(5) \/ o \in Added(6)
    BY <1>2, EntitiesMade
  <2> QED
    BY <2>1, AddedEras
<1>3. First \subseteq Entities
  BY EntitiesMade
<1>4. SchemaAfter(0) = {}
  BY DEF SchemaAfter
<1>5. SchemaAfter(1) = First
  <2>1. SchemaAfter(1) = {o \in Entities : Era(o) <= 1}
    BY SchemaEras
  <2> QED
    BY <1>2, <1>3, <2>1, AddedEras
<1>6. SchemaAfter(6) = Entities
  <2>1. SchemaAfter(6) = {o \in Entities : Era(o) <= 6}
    BY SchemaEras
  <2> QED
    BY <1>2, <2>1
<1>7. ASSUME NEW n \in 2..6
      PROVE  /\ SchemaAfter(n) = SchemaAfter(n - 1) \cup Added(n)
             /\ \A o \in SchemaAfter(n - 1) : o \in Entities /\ Era(o) < n
  <2>1. SchemaAfter(n) = {o \in Entities : Era(o) <= n}
    BY SchemaEras
  <2>2. SchemaAfter(n - 1) = {o \in Entities : Era(o) <= n - 1}
    BY SchemaEras
  <2>3. \A o \in Entities : Era(o) <= n <=> Era(o) <= n - 1 \/ o \in Added(n)
    BY <1>2, AddedEras
  <2> QED
    BY <1>1, <1>2, <2>1, <2>2, <2>3
<1> QED
  BY <1>4, <1>5, <1>6, <1>7

LEMMA SchemaMonotonic ==
    ASSUME NEW k \in 0..6, NEW m \in 0..6, k <= m
    PROVE  SchemaAfter(k) \subseteq SchemaAfter(m)
<1>1. SchemaAfter(k) = {o \in Entities : Era(o) <= k} /\ SchemaAfter(m) = {o \in Entities : Era(o) <= m}
  BY SchemaEras
<1>2. \A o : Era(o) \in Nat
  BY DEF Era
<1> QED
  BY <1>1, <1>2

(* No object that a migration adds has the place and the name of one that is
   there. *)
LEMMA AddedNew ==
    ASSUME NEW n \in 2..6, NEW o \in Added(n), NEW p \in SchemaAfter(n - 1)
    PROVE  ~ (p.in = o.in /\ p.name = o.name)
<1>1. Era(o) = n /\ Era(p) < n
  BY AddedEras, SchemaGrows
<1>2. p.in = o.in /\ p.name = o.name => Era(p) = Era(o)
  BY DEF Era
<1> QED
  BY <1>1, <1>2

(* Objects of the first migration that others name *)
LEMMA FirstHas ==
    {Table("users"), Table("orders"), Column("orders", "user_id"), Column("orders", "created_at"),
     Status("orders_status_enum"), StatusDefault, Type("orders_status_enum"),
     Type("users_role_enum")} \subseteq First
<1>1. {Column("orders", "user_id"), Column("orders", "created_at")}
        \subseteq Required("orders", {"id", "user_id"} \cup Dates)
  BY DEF Required, Dates
<1>2. {Table("orders"), Column("orders", "user_id"), Column("orders", "created_at")} \subseteq Base
  BY <1>1 DEF Base, OrdersBase
<1>3. Table("users") \in Base
  BY DEF Base, UsersBase
<1>4. Type("users_role_enum") \in Base
  BY DEF Base, Roles, Enum
<1>5. {Status("orders_status_enum"), StatusDefault, Type("orders_status_enum")}
        \subseteq StatusParts(FirstLabels)
  BY DEF StatusParts, Enum
<1> QED
  BY <1>2, <1>3, <1>4, <1>5 DEF First

-----------------------------------------------------------------------------
(* What each migration leads from and to. *)

At(S, D) == [schema |-> S, done |-> D]
Stage(k) == At(SchemaAfter(k), 1..k)

(* The objects of X can be created in S. *)
Makeable(X, S) ==
    \A o \in X :
        /\ \A p \in S : ~ (p.kind = o.kind /\ p.in = o.in /\ p.name = o.name)
        /\ \A n \in {o.in} \cup o.uses : \E p \in S \cup X : p.name = n

LEMMA CreateMoves ==
    ASSUME NEW X, NEW S, NEW D, Makeable(X, S)
    PROVE  Moves(Create(X), At(S, D), At(S \cup X, D))
<1> DEFINE s == Create(X)
<1>1. s.op = "create" /\ s.what = X
  BY DEF Create
<1> HIDE DEF s
<1>2. Clear(s, S)
  BY <1>1 DEF Clear, Makeable, Named
<1>3. After(s, S) = S \cup X /\ DoneAfter(s, D) = D
  BY <1>1 DEF After, DoneAfter
<1>4. Moves(s, At(S, D), At(S \cup X, D))
  BY <1>2, <1>3 DEF Moves, At
<1> QED
  BY <1>4 DEF s

LEMMA DropMoves ==
    ASSUME NEW o, NEW S, NEW D, o \in S, ~ InUse(S, o)
    PROVE  Moves(Drop(o), At(S, D), At(S \ Parts(S, o), D))
<1> DEFINE s == Drop(o)
<1>1. s.op = "drop" /\ s.what = {o}
  BY DEF Drop
<1> HIDE DEF s
<1>2. Clear(s, S)
  BY <1>1 DEF Clear
<1>3. After(s, S) = S \ Parts(S, o) /\ DoneAfter(s, D) = D
  <2>1. UNION {Parts(S, x) : x \in s.what} = Parts(S, o)
    BY <1>1
  <2> QED
    BY <1>1, <2>1 DEF After, DoneAfter
<1>4. Moves(s, At(S, D), At(S \ Parts(S, o), D))
  BY <1>2, <1>3 DEF Moves, At
<1> QED
  BY <1>4 DEF s

(* An object that is no table, type or column is dropped alone. *)
LEMMA DropOneMoves ==
    ASSUME NEW o, NEW S, NEW D, o \in S, o.kind \notin {"table", "type", "column"}
    PROVE  Moves(Drop(o), At(S, D), At(S \ {o}, D))
<1>1. Parts(S, o) = {o} /\ ~ InUse(S, o)
  BY DEF Parts, InUse
<1> QED
  BY <1>1, DropMoves

AllRenamed(S, old, new) == {Renamed(o, old, new) : o \in S}

LEMMA RenameMoves ==
    ASSUME NEW ty, NEW new, NEW S, NEW D, Type(ty) \in S, Type(new) \notin S
    PROVE  Moves(Rename(ty, new), At(S, D), At(AllRenamed(S, ty, new), D))
<1> DEFINE s == Rename(ty, new)
           T == AllRenamed(S, ty, new)
<1>1. s.op = "rename" /\ s.what = {Type(ty)} /\ s.to = new
  BY DEF Rename
<1> HIDE DEF s
<1>2. Clear(s, S)
  BY <1>1 DEF Clear
<1>3. The(s.what).name = ty
  BY <1>1, TypeParted DEF The
<1>4. After(s, S) = T /\ DoneAfter(s, D) = D
  BY <1>1, <1>3 DEF After, DoneAfter, AllRenamed
<1> HIDE DEF T
<1>5. Moves(s, At(S, D), At(T, D))
  BY <1>2, <1>4 DEF Moves, At
<1> QED
  BY <1>5 DEF s, T

LEMMA RetypeMoves ==
    ASSUME NEW ty, NEW S, NEW D, StatusDefault \notin S, Statuses \ {"processed"} \subseteq Labels(S, ty),
           "processed" \in Labels(S, ty) <=> ty # "orders_status_enum_old"
    PROVE  Moves(Retype(Status(ty)), At(S, D),
                 At({Status(ty)} \cup (S \ Named(S, "column", "orders", "status")), D))
<1> DEFINE s == Retype(Status(ty))
           T == {Status(ty)} \cup (S \ Named(S, "column", "orders", "status"))
<1>1. s.op = "retype" /\ s.what = {Status(ty)}
  BY DEF Retype
<1>2. UNION {Labels(S, x) : x \in Status(ty).uses} = Labels(S, ty)
  BY StatusParted
<1>3. Default(Status(ty).in, Status(ty).name) = StatusDefault
  BY StatusParted DEF StatusDefault
<1>4. Status(ty) # Status("orders_status_enum_old") <=> ty # "orders_status_enum_old"
  <2>1. \A x : Status(x).uses = {x}
    BY StatusParted
  <2> QED
    BY <2>1
<1> HIDE DEF s
<1>8. Clear(s, S)
  BY <1>1, <1>2, <1>3, <1>4 DEF Clear
<1>5. The(s.what).in = "orders" /\ The(s.what).name = "status"
  BY <1>1, StatusParted DEF The
<1>6. After(s, S) = T /\ DoneAfter(s, D) = D
  BY <1>1, <1>5 DEF After, DoneAfter
<1> HIDE DEF T
<1>7. Moves(s, At(S, D), At(T, D))
  BY <1>8, <1>6 DEF Moves, At
<1> QED
  BY <1>7 DEF s, T

LEMMA FillMoves ==
    ASSUME NEW S, NEW D, Column("orders", "idempotency_key") \in S
    PROVE  Moves(FillKeys, At(S, D), At(S, D))
<1>1. FillKeys.op = "fill" /\ FillKeys.what \subseteq S
  BY DEF FillKeys
<1>2. Clear(FillKeys, S) /\ After(FillKeys, S) = S /\ DoneAfter(FillKeys, D) = D
  BY <1>1 DEF Clear, After, DoneAfter
<1> QED
  BY <1>2 DEF Moves, At

LEMMA RowMoves ==
    ASSUME NEW n \in 1..6, NEW S
    PROVE  /\ Moves(Record(n), At(S, 1..(n - 1)), At(S, 1..n))
           /\ Moves(Forget(n), At(S, 1..n), At(S, 1..(n - 1)))
<1>1. /\ Record(n).op = "record" /\ Record(n).row = n
      /\ Forget(n).op = "forget" /\ Forget(n).row = n
  BY DEF Record, Forget
<1>2. Clear(Record(n), S) /\ Clear(Forget(n), S)
  BY <1>1 DEF Clear
<1>3. After(Record(n), S) = S /\ After(Forget(n), S) = S
  BY <1>1 DEF After
<1>4. (1..(n - 1)) \cup {n} = 1..n /\ (1..n) \ {n} = 1..(n - 1)
  OBVIOUS
<1>5. DoneAfter(Record(n), 1..(n - 1)) = 1..n /\ DoneAfter(Forget(n), 1..n) = 1..(n - 1)
  BY <1>1, <1>4 DEF DoneAfter
<1> QED
  BY <1>2, <1>3, <1>5 DEF Moves, At

(* Plans of two, four, nine and ten statements *)
LEMMA TwoLead ==
    ASSUME NEW a, NEW b,
           NEW x0, NEW x1, NEW x2,
           Moves(a, x0, x1), Moves(b, x1, x2)
    PROVE  Leads(<<a, b>>, x0, x2)
<1>1. Leads(<<a>>, x0, x1)
  BY OneLeads
<1>2. Leads(<<a, b>>, x0, x2)
  <2>1. <<a, b>> = Append(<<a>>, b)
    BY TupleAppends
  <2> QED
    BY <1>1, <2>1, AppendLeads
<1> QED
  BY <1>2

LEMMA FourLead ==
    ASSUME NEW a, NEW b, NEW c, NEW d,
           NEW x0, NEW x1, NEW x2, NEW x3, NEW x4,
           Moves(a, x0, x1), Moves(b, x1, x2), Moves(c, x2, x3),
           Moves(d, x3, x4)
    PROVE  Leads(<<a, b, c, d>>, x0, x4)
<1>1. Leads(<<a>>, x0, x1)
  BY OneLeads
<1>2. Leads(<<a, b>>, x0, x2)
  <2>1. <<a, b>> = Append(<<a>>, b)
    BY TupleAppends
  <2> QED
    BY <1>1, <2>1, AppendLeads
<1>3. Leads(<<a, b, c>>, x0, x3)
  <2>1. <<a, b, c>> = Append(<<a, b>>, c)
    BY TupleAppends
  <2> QED
    BY <1>2, <2>1, AppendLeads
<1>4. Leads(<<a, b, c, d>>, x0, x4)
  <2>1. <<a, b, c, d>> = Append(<<a, b, c>>, d)
    BY TupleAppends
  <2> QED
    BY <1>3, <2>1, AppendLeads
<1> QED
  BY <1>4

LEMMA NineLead ==
    ASSUME NEW a, NEW b, NEW c, NEW d, NEW e, NEW f, NEW g, NEW h, NEW i,
           NEW x0, NEW x1, NEW x2, NEW x3, NEW x4, NEW x5, NEW x6, NEW x7, NEW x8, NEW x9,
           Moves(a, x0, x1), Moves(b, x1, x2), Moves(c, x2, x3),
           Moves(d, x3, x4), Moves(e, x4, x5), Moves(f, x5, x6),
           Moves(g, x6, x7), Moves(h, x7, x8), Moves(i, x8, x9)
    PROVE  Leads(<<a, b, c, d, e, f, g, h, i>>, x0, x9)
<1>1. Leads(<<a>>, x0, x1)
  BY OneLeads
<1>2. Leads(<<a, b>>, x0, x2)
  <2>1. <<a, b>> = Append(<<a>>, b)
    BY TupleAppends
  <2> QED
    BY <1>1, <2>1, AppendLeads
<1>3. Leads(<<a, b, c>>, x0, x3)
  <2>1. <<a, b, c>> = Append(<<a, b>>, c)
    BY TupleAppends
  <2> QED
    BY <1>2, <2>1, AppendLeads
<1>4. Leads(<<a, b, c, d>>, x0, x4)
  <2>1. <<a, b, c, d>> = Append(<<a, b, c>>, d)
    BY TupleAppends
  <2> QED
    BY <1>3, <2>1, AppendLeads
<1>5. Leads(<<a, b, c, d, e>>, x0, x5)
  <2>1. <<a, b, c, d, e>> = Append(<<a, b, c, d>>, e)
    BY TupleAppends
  <2> QED
    BY <1>4, <2>1, AppendLeads
<1>6. Leads(<<a, b, c, d, e, f>>, x0, x6)
  <2>1. <<a, b, c, d, e, f>> = Append(<<a, b, c, d, e>>, f)
    BY TupleAppends
  <2> QED
    BY <1>5, <2>1, AppendLeads
<1>7. Leads(<<a, b, c, d, e, f, g>>, x0, x7)
  <2>1. <<a, b, c, d, e, f, g>> = Append(<<a, b, c, d, e, f>>, g)
    BY TupleAppends
  <2> QED
    BY <1>6, <2>1, AppendLeads
<1>8. Leads(<<a, b, c, d, e, f, g, h>>, x0, x8)
  <2>1. <<a, b, c, d, e, f, g, h>> = Append(<<a, b, c, d, e, f, g>>, h)
    BY TupleAppends
  <2> QED
    BY <1>7, <2>1, AppendLeads
<1>9. Leads(<<a, b, c, d, e, f, g, h, i>>, x0, x9)
  <2>1. <<a, b, c, d, e, f, g, h, i>> = Append(<<a, b, c, d, e, f, g, h>>, i)
    BY TupleAppends
  <2> QED
    BY <1>8, <2>1, AppendLeads
<1> QED
  BY <1>9

LEMMA TenLead ==
    ASSUME NEW a, NEW b, NEW c, NEW d, NEW e, NEW f, NEW g, NEW h, NEW i, NEW j,
           NEW x0, NEW x1, NEW x2, NEW x3, NEW x4, NEW x5, NEW x6, NEW x7, NEW x8, NEW x9, NEW x10,
           Moves(a, x0, x1), Moves(b, x1, x2), Moves(c, x2, x3),
           Moves(d, x3, x4), Moves(e, x4, x5), Moves(f, x5, x6),
           Moves(g, x6, x7), Moves(h, x7, x8), Moves(i, x8, x9),
           Moves(j, x9, x10)
    PROVE  Leads(<<a, b, c, d, e, f, g, h, i, j>>, x0, x10)
<1>1. Leads(<<a>>, x0, x1)
  BY OneLeads
<1>2. Leads(<<a, b>>, x0, x2)
  <2>1. <<a, b>> = Append(<<a>>, b)
    BY TupleAppends
  <2> QED
    BY <1>1, <2>1, AppendLeads
<1>3. Leads(<<a, b, c>>, x0, x3)
  <2>1. <<a, b, c>> = Append(<<a, b>>, c)
    BY TupleAppends
  <2> QED
    BY <1>2, <2>1, AppendLeads
<1>4. Leads(<<a, b, c, d>>, x0, x4)
  <2>1. <<a, b, c, d>> = Append(<<a, b, c>>, d)
    BY TupleAppends
  <2> QED
    BY <1>3, <2>1, AppendLeads
<1>5. Leads(<<a, b, c, d, e>>, x0, x5)
  <2>1. <<a, b, c, d, e>> = Append(<<a, b, c, d>>, e)
    BY TupleAppends
  <2> QED
    BY <1>4, <2>1, AppendLeads
<1>6. Leads(<<a, b, c, d, e, f>>, x0, x6)
  <2>1. <<a, b, c, d, e, f>> = Append(<<a, b, c, d, e>>, f)
    BY TupleAppends
  <2> QED
    BY <1>5, <2>1, AppendLeads
<1>7. Leads(<<a, b, c, d, e, f, g>>, x0, x7)
  <2>1. <<a, b, c, d, e, f, g>> = Append(<<a, b, c, d, e, f>>, g)
    BY TupleAppends
  <2> QED
    BY <1>6, <2>1, AppendLeads
<1>8. Leads(<<a, b, c, d, e, f, g, h>>, x0, x8)
  <2>1. <<a, b, c, d, e, f, g, h>> = Append(<<a, b, c, d, e, f, g>>, h)
    BY TupleAppends
  <2> QED
    BY <1>7, <2>1, AppendLeads
<1>9. Leads(<<a, b, c, d, e, f, g, h, i>>, x0, x9)
  <2>1. <<a, b, c, d, e, f, g, h, i>> = Append(<<a, b, c, d, e, f, g, h>>, i)
    BY TupleAppends
  <2> QED
    BY <1>8, <2>1, AppendLeads
<1>10. Leads(<<a, b, c, d, e, f, g, h, i, j>>, x0, x10)
  <2>1. <<a, b, c, d, e, f, g, h, i, j>> = Append(<<a, b, c, d, e, f, g, h, i>>, j)
    BY TupleAppends
  <2> QED
    BY <1>9, <2>1, AppendLeads
<1> QED
  BY <1>10

(* A plan of one statement, and the row of its migration *)
LEMMA OneUp ==
    ASSUME NEW n \in 1..6, NEW s, Moves(s, At(SchemaAfter(n - 1), 1..(n - 1)), At(SchemaAfter(n), 1..(n - 1)))
    PROVE  Leads(Append(<<s>>, Record(n)), Stage(n - 1), Stage(n))
BY OneLeads, AppendLeads, RowMoves DEF Stage

LEMMA OneDown ==
    ASSUME NEW n \in 1..6, NEW s, Moves(s, At(SchemaAfter(n), 1..n), At(SchemaAfter(n - 1), 1..n))
    PROVE  Leads(Append(<<s>>, Forget(n)), Stage(n), Stage(n - 1))
BY OneLeads, AppendLeads, RowMoves DEF Stage

LEMMA AddedMakeable ==
    ASSUME NEW n \in 2..6, NEW X, X \subseteq Added(n), NEW S,
           \A p \in S : p \in SchemaAfter(n - 1) \/
               \A o \in X : ~ (p.kind = o.kind /\ p.in = o.in /\ p.name = o.name),
           \A o \in X : \A m \in {o.in} \cup o.uses : \E p \in S \cup X : p.name = m
    PROVE  Makeable(X, S)
BY AddedNew DEF Makeable

LEMMA Up2Leads == Leads(Append(Up2, Record(2)), Stage(1), Stage(2))
<1> DEFINE C == Column("orders", "idempotency_key")
           N == NotNull("orders", "idempotency_key")
           S == SchemaAfter(1)
           D == 1..1
<1>1. /\ C.in = "orders" /\ C.name = "idempotency_key" /\ C.uses = {} /\ C.kind = "column"
      /\ N.in = "orders" /\ N.name = "idempotency_key" /\ N.uses = {} /\ N.kind = "not_null"
  BY ColumnParted, NotNullParted
<1>2. Added(2) = {C, N, OrdersKey} /\ 2 - 1 = 1
  BY AddedMembers
<1>3. \E p \in S : p.name = "orders"
  BY FirstHas, SchemaGrows, TableParted
<1>4. \E p \in S : p.name = "user_id"
  BY FirstHas, SchemaGrows, ColumnParted
<1>5. SchemaAfter(2) = S \cup {C} \cup {N} \cup {OrdersKey}
  BY <1>2, SchemaGrows
<1>6. Up2 = <<Create({C}), FillKeys, Create({N}), Create({OrdersKey})>>
  BY DEF Up2
<1> HIDE DEF C, N, S, D
<1>7. Moves(Create({C}), At(S, D), At(S \cup {C}, D))
  <2>1. Makeable({C}, S)
    BY <1>1, <1>2, <1>3, AddedMakeable DEF S
  <2> QED
    BY <2>1, CreateMoves
<1>8. Moves(FillKeys, At(S \cup {C}, D), At(S \cup {C}, D))
  BY FillMoves DEF C
<1>9. Moves(Create({N}), At(S \cup {C}, D), At(S \cup {C} \cup {N}, D))
  <2>1. \A p \in S \cup {C} : p \in SchemaAfter(2 - 1) \/
           \A o \in {N} : ~ (p.kind = o.kind /\ p.in = o.in /\ p.name = o.name)
    BY <1>1, <1>2 DEF S
  <2>2. \A o \in {N} : \A m \in {o.in} \cup o.uses : \E p \in S \cup {C} \cup {N} : p.name = m
    BY <1>1, <1>3
  <2>3. Makeable({N}, S \cup {C})
    BY <1>2, <2>1, <2>2, AddedMakeable
  <2> QED
    BY <2>3, CreateMoves
<1>10. Moves(Create({OrdersKey}), At(S \cup {C} \cup {N}, D), At(S \cup {C} \cup {N} \cup {OrdersKey}, D))
  <2> DEFINE T == S \cup {C} \cup {N}
  <2>1. \A p \in T : p \in SchemaAfter(2 - 1) \/
           \A o \in {OrdersKey} : ~ (p.kind = o.kind /\ p.in = o.in /\ p.name = o.name)
    BY <1>1, <1>2, OrdersKeyParted DEF S
  <2>2. \A o \in {OrdersKey} : \A m \in {o.in} \cup o.uses : \E p \in T \cup {OrdersKey} : p.name = m
    BY <1>1, <1>3, <1>4, OrdersKeyParted
  <2> HIDE DEF T
  <2>3. Makeable({OrdersKey}, T)
    BY <1>2, <2>1, <2>2, AddedMakeable
  <2> QED
    BY <2>3, CreateMoves DEF T
<1>11. Leads(Up2, At(S, D), At(SchemaAfter(2), D))
  BY <1>5, <1>6, <1>7, <1>8, <1>9, <1>10, FourLead
<1> QED
  <2>1. Moves(Record(2), At(SchemaAfter(2), 1..1), At(SchemaAfter(2), 1..2))
    BY RowMoves
  <2> QED
    BY <1>11, <2>1, AppendLeads DEF Stage, S, D

LEMMA Up3Leads == Leads(Append(Up3, Record(3)), Stage(2), Stage(3))
<1> DEFINE S == SchemaAfter(2)
<1>1. \E p \in S : p.name = "orders"
  BY FirstHas, SchemaGrows, SchemaMonotonic, TableParted
<1>2. /\ \E p \in S : p.name = "user_id"
      /\ \E p \in S : p.name = "created_at"
  BY FirstHas, SchemaGrows, SchemaMonotonic, ColumnParted
<1>3. \E p \in S : p.name = "status"
  BY FirstHas, SchemaGrows, SchemaMonotonic, StatusParted
<1>4. Added(3) = {Listing} /\ 3 - 1 = 2 /\ SchemaAfter(3) = S \cup {Listing}
  BY AddedMembers, SchemaGrows
<1> HIDE DEF S
<1>5. \A o \in {Listing} : \A m \in {o.in} \cup o.uses : \E p \in S \cup {Listing} : p.name = m
  BY <1>1, <1>2, <1>3, ListingParted
<1>6. Makeable({Listing}, S)
  BY <1>4, <1>5, AddedMakeable DEF S
<1>7. Moves(Create({Listing}), At(S, 1..2), At(SchemaAfter(3), 1..2))
  BY <1>4, <1>6, CreateMoves
<1> QED
  BY <1>7, <1>4, OneUp DEF S, Up3

LEMMA Up5Leads == Leads(Append(Up5, Record(5)), Stage(4), Stage(5))
<1> DEFINE S == SchemaAfter(4)
<1>1. Added(5) = TMessages /\ 5 - 1 = 4 /\ SchemaAfter(5) = S \cup TMessages
  BY AddedMembers, SchemaGrows
<1> HIDE DEF S
<1>2. /\ \E p \in TMessages : p.name = "processed_messages"
      /\ \A c \in {"id", "message_id", "handler", "processed_at"} : \E p \in TMessages : p.name = c
  <2>1. Table("processed_messages") \in TMessages
    BY DEF TMessages
  <2>2. \A c \in {"id", "message_id", "handler", "processed_at"} : Column("processed_messages", c) \in TMessages
    BY DEF TMessages, Required
  <2> QED
    BY <2>1, <2>2, TableParted, ColumnParted
<1>3. ASSUME NEW o \in TMessages
      PROVE  o.in = "processed_messages" /\ o.uses \subseteq {"id", "message_id", "handler", "processed_at"}
  BY <1>3, RequiredParted, TableParted, UniqueParted DEF TMessages
<1>4. Makeable(TMessages, S)
  <2>1. \A o \in TMessages : \A m \in {o.in} \cup o.uses : \E p \in S \cup TMessages : p.name = m
    BY <1>2, <1>3
  <2> QED
    BY <1>1, <2>1, AddedMakeable DEF S
<1>5. Moves(Create(TMessages), At(S, 1..4), At(SchemaAfter(5), 1..4))
  BY <1>1, <1>4, CreateMoves
<1> QED
  BY <1>1, <1>5, OneUp DEF S, Up5

LEMMA Up6Leads == Leads(Append(Up6, Record(6)), Stage(5), Stage(6))
<1> DEFINE S == SchemaAfter(5)
           X == Required("users", {"password"})
<1>1. Added(6) = X /\ 6 - 1 = 5 /\ SchemaAfter(6) = S \cup X
  <2>1. Added(6) = X
    BY DEF Added
  <2> QED
    BY <2>1, SchemaGrows
<1>2. \E p \in S : p.name = "users"
  BY FirstHas, SchemaGrows, SchemaMonotonic, TableParted
<1>3. \A o \in X : o.in = "users" /\ o.uses = {}
  BY RequiredParted
<1>4. Up6 = <<Create(X)>>
  BY DEF Up6
<1> HIDE DEF S, X
<1>5. Makeable(X, S)
  <2>1. \A o \in X : \A m \in {o.in} \cup o.uses : \E p \in S \cup X : p.name = m
    BY <1>2, <1>3
  <2> QED
    BY <1>1, <2>1, AddedMakeable DEF S
<1>6. Moves(Create(X), At(S, 1..5), At(SchemaAfter(6), 1..5))
  BY <1>1, <1>5, CreateMoves
<1> QED
  BY <1>1, <1>4, <1>6, OneUp DEF S

LEMMA SchemaShrinks ==
    ASSUME NEW n \in 2..6
    PROVE  SchemaAfter(n - 1) = SchemaAfter(n) \ Added(n)
<1>1. /\ SchemaAfter(n) = SchemaAfter(n - 1) \cup Added(n)
      /\ \A o \in SchemaAfter(n - 1) : Era(o) < n
  BY SchemaGrows
<1>2. \A o \in Added(n) : Era(o) = n
  BY AddedEras
<1> QED
  BY <1>1, <1>2

(* Which objects name the columns that reverts drop *)
LEMMA EntityUses ==
    ASSUME NEW o \in Entities
    PROVE  /\ "password" \notin o.uses /\ "processed_messages" \notin o.uses
           /\ "processed_at" \notin o.uses
           /\ "idempotency_key" \in o.uses => o = OrdersKey
<1>1. ASSUME o \in First
      PROVE  o.uses \cap {"password", "processed_messages", "processed_at", "idempotency_key"} = {}
  <2>1. CASE o \in Base
    BY <2>1, BasePlain DEF Plain, Looked
  <2>2. CASE o = Status("orders_status_enum") \/ o = StatusDefault \/ o.uses = {}
    BY <2>2, StatusParted, StatusDefaultParted
  <2> QED
    BY <1>1, <2>1, <2>2, FirstMembers
<1>2. CASE o \in Added(2) \cup Added(3)
  <2>1. o = OrdersKey \/ o = Listing \/ o.uses = {}
    BY <1>2, AddedMembers, ColumnParted, NotNullParted
  <2> QED
    BY <2>1, OrdersKeyParted, ListingParted
<1>3. CASE o \in Added(4) \cup Added(6)
  BY <1>3, AddedMembers, ColumnParted, NotNullParted, ObjectParted DEF Processed
<1>4. ASSUME o \in Added(5)
      PROVE  o.uses \cap {"password", "processed_messages", "processed_at", "idempotency_key"} = {}
  <2>1. o \in TMessages
    BY <1>4, AddedMembers
  <2>2. \/ o = Table("processed_messages")
        \/ o = Unique("PK_processed_messages_id", "processed_messages", {"id"})
        \/ o = Unique("UQ_processed_messages_message_id_handler", "processed_messages", {"message_id", "handler"})
        \/ o \in Required("processed_messages", {"id", "message_id", "handler", "processed_at"})
    BY <2>1 DEF TMessages
  <2> QED
    BY <2>2, RequiredParted, TableParted, UniqueParted
<1> QED
  BY <1>1, <1>2, <1>3, <1>4, EntitiesMade

LEMMA Down2Leads == Leads(Append(Down2, Forget(2)), Stage(2), Stage(1))
<1> DEFINE C == Column("orders", "idempotency_key")
           N == NotNull("orders", "idempotency_key")
           S == SchemaAfter(2)
           T == S \ {OrdersKey}
<1>1. Added(2) = {C, N, OrdersKey} /\ 2 - 1 = 1 /\ SchemaAfter(1) = S \ {C, N, OrdersKey}
      /\ {C, N, OrdersKey} \subseteq S
  BY AddedMembers, SchemaShrinks, SchemaGrows
<1>2. /\ C.in = "orders" /\ C.name = "idempotency_key" /\ C.kind = "column"
      /\ N.in = "orders" /\ N.name = "idempotency_key"
      /\ OrdersKey.kind = "unique" /\ OrdersKey.in = "orders" /\ OrdersKey.uses = {"user_id", "idempotency_key"}
      /\ OrdersKey.name # "idempotency_key"
  BY ColumnParted, NotNullParted, OrdersKeyParted
<1>3. Moves(Drop(OrdersKey), At(S, 1..2), At(T, 1..2))
  BY <1>1, <1>2, DropOneMoves
<1>4. ASSUME NEW p \in SchemaAfter(1)
      PROVE  "idempotency_key" \notin p.uses /\ ~ (p.in = "orders" /\ p.name = "idempotency_key")
  <2>1. p \in Entities /\ Era(p) < 2
    BY <1>1, <1>4, SchemaGrows
  <2>2. p # OrdersKey
    BY <1>1, <1>4
  <2> QED
    BY <1>1, <1>2, <1>4, <2>1, <2>2, EntityUses, AddedNew
<1>5. C \in T
  BY <1>1, <1>2
<1> HIDE DEF C, N
<1>6. Parts(T, C) = {C, N}
  BY <1>1, <1>2, <1>4 DEF Parts
<1>7. ~ InUse(T, C)
  BY <1>2 DEF InUse
<1>8. T \ {C, N} = SchemaAfter(1)
  BY <1>1
<1> HIDE DEF S, T
<1>9. Moves(Drop(C), At(T, 1..2), At(SchemaAfter(1), 1..2))
  BY <1>5, <1>6, <1>7, <1>8, DropMoves
<1>10. Down2 = <<Drop(OrdersKey), Drop(C)>>
  BY DEF Down2, C
<1>11. Leads(Down2, At(S, 1..2), At(SchemaAfter(1), 1..2))
  BY <1>3, <1>9, <1>10, TwoLead
<1>12. Moves(Forget(2), At(SchemaAfter(1), 1..2), At(SchemaAfter(1), 1..(2 - 1)))
  BY RowMoves
<1> QED
  BY <1>1, <1>11, <1>12, AppendLeads DEF Stage, S

LEMMA Down3Leads == Leads(Append(Down3, Forget(3)), Stage(3), Stage(2))
<1>1. /\ 3 - 1 = 2 /\ SchemaAfter(2) = SchemaAfter(3) \ {Listing} /\ Listing \in SchemaAfter(3)
  BY AddedMembers, SchemaShrinks, SchemaGrows
<1>2. Moves(Drop(Listing), At(SchemaAfter(3), 1..3), At(SchemaAfter(2), 1..3))
  BY <1>1, ListingParted, DropOneMoves
<1> QED
  BY <1>1, <1>2, OneDown DEF Down3

LEMMA Down5Leads == Leads(Append(Down5, Forget(5)), Stage(5), Stage(4))
<1> DEFINE o == Table("processed_messages")
           S == SchemaAfter(5)
<1>1. /\ 5 - 1 = 4 /\ SchemaAfter(4) = S \ TMessages /\ TMessages \subseteq S /\ o \in S
  <2>1. o \in TMessages
    BY DEF TMessages
  <2> QED
    BY <2>1, AddedMembers, SchemaShrinks, SchemaGrows
<1>2. o.kind = "table" /\ o.name = "processed_messages" /\ o.in = "processed_messages"
  BY TableParted
<1>3. ASSUME NEW p \in SchemaAfter(4)
      PROVE  p.in # "processed_messages" /\ "processed_messages" \notin p.uses
  <2>1. p \in Entities /\ Era(p) < 5
    BY <1>1, <1>3, SchemaGrows
  <2>2. p.in # "processed_messages"
    BY <2>1 DEF Era
  <2> QED
    BY <2>1, <2>2, EntityUses
<1> HIDE DEF S, o
<1>4. Parts(S, o) = TMessages
  <2>1. \A p \in TMessages : p.in = "processed_messages"
    BY Groups DEF GroupOf
  <2> QED
    BY <1>1, <1>2, <1>3, <2>1 DEF Parts
<1>5. ~ InUse(S, o)
  BY <1>1, <1>2, <1>3, <1>4 DEF InUse
<1>6. Moves(Drop(o), At(S, 1..5), At(SchemaAfter(4), 1..5))
  BY <1>1, <1>4, <1>5, DropMoves
<1>7. Down5 = <<Drop(o)>>
  BY DEF Down5, o
<1> QED
  BY <1>1, <1>6, <1>7, OneDown DEF S

LEMMA Down6Leads == Leads(Append(Down6, Forget(6)), Stage(6), Stage(5))
<1> DEFINE C == Column("users", "password")
           N == NotNull("users", "password")
           S == SchemaAfter(6)
<1>1. /\ 6 - 1 = 5 /\ SchemaAfter(5) = S \ {C, N} /\ {C, N} \subseteq S /\ Added(6) = {C, N}
  BY AddedMembers, SchemaShrinks, SchemaGrows
<1>2. /\ C.in = "users" /\ C.name = "password" /\ C.kind = "column"
      /\ N.in = "users" /\ N.name = "password"
  BY ColumnParted, NotNullParted
<1>3. ASSUME NEW p \in SchemaAfter(5)
      PROVE  "password" \notin p.uses /\ ~ (p.in = "users" /\ p.name = "password")
  <2>1. p \in Entities
    BY <1>1, <1>3, SchemaGrows
  <2> QED
    BY <1>1, <1>2, <1>3, <2>1, EntityUses, AddedNew
<1>4. Down6 = <<Drop(C)>>
  BY DEF Down6
<1> HIDE DEF C, N, S
<1>5. Parts(S, C) = {C, N}
  BY <1>1, <1>2, <1>3 DEF Parts
<1>6. ~ InUse(S, C)
  BY <1>2 DEF InUse
<1>7. Moves(Drop(C), At(S, 1..6), At(SchemaAfter(5), 1..6))
  BY <1>1, <1>5, <1>6, DropMoves
<1> QED
  BY <1>1, <1>4, <1>7, OneDown DEF S

(* The objects a group of the first migration names *)
LEMMA GroupUses ==
    /\ \A o \in Roles : o.uses = {}
    /\ \A o \in UsersBase : o.uses \subseteq {"id", "email", "users_role_enum"}
    /\ \A o \in TProducts : o.uses \subseteq {"id"}
    /\ \A o \in OrdersBase : o.uses \subseteq {"id"}
    /\ \A o \in TItems : o.uses \subseteq {"order_id", "product_id"}
<1>1. ASSUME NEW t, NEW cs, NEW o \in Required(t, cs) PROVE o.uses = {}
  BY <1>1, RequiredParted
<1>2. \A o \in Roles : o.uses = {}
  BY EnumParted DEF Roles
<1>3. \A o \in UsersBase : o.uses \subseteq {"id", "email", "users_role_enum"}
  <2>1. \A o \in Role : o.uses \subseteq {"users_role_enum"}
    BY EnumColumnParted, NotNullParted, DefaultParted DEF Role
  <2> QED
    BY <1>1, <2>1, TableParted, UniqueParted DEF UsersBase, UsersEmail
<1>4. \A o \in TProducts : o.uses \subseteq {"id"}
  BY <1>1, TableParted, UniqueParted DEF TProducts
<1>5. \A o \in OrdersBase : o.uses \subseteq {"id"}
  BY <1>1, TableParted, UniqueParted, NotNullParted DEF OrdersBase
<1>6. \A o \in TItems : o.uses \subseteq {"order_id", "product_id"}
  BY <1>1, TableParted, UniqueParted DEF TItems
<1> QED
  BY <1>2, <1>3, <1>4, <1>5, <1>6

(* The names a group gives to those objects *)
LEMMA GroupNames ==
    /\ \E p \in Roles : p.name = "users_role_enum"
    /\ \A n \in {"users", "id", "email"} : \E p \in UsersBase : p.name = n
    /\ \A n \in {"products", "id"} : \E p \in TProducts : p.name = n
    /\ \A n \in {"orders", "id", "user_id"} : \E p \in OrdersBase : p.name = n
    /\ \A n \in {"order_items", "order_id", "product_id"} : \E p \in TItems : p.name = n
<1>1. Type("users_role_enum") \in Roles
  BY DEF Roles, Enum
<1>2. {Table("users"), Column("users", "id"), Column("users", "email")} \subseteq UsersBase
  BY DEF UsersBase, Required
<1>3. {Table("products"), Column("products", "id")} \subseteq TProducts
  BY DEF TProducts, Required
<1>4. {Table("orders"), Column("orders", "id"), Column("orders", "user_id")} \subseteq OrdersBase
  BY DEF OrdersBase, Required
<1>5. {Table("order_items"), Column("order_items", "order_id"), Column("order_items", "product_id")} \subseteq TItems
  BY DEF TItems, Required
<1>6. \E p \in Roles : p.name = "users_role_enum"
  BY <1>1, TypeParted
<1>7. \A n \in {"users", "id", "email"} : \E p \in UsersBase : p.name = n
  BY <1>2, TableParted, ColumnParted
<1>8. \A n \in {"products", "id"} : \E p \in TProducts : p.name = n
  BY <1>3, TableParted, ColumnParted
<1>9. \A n \in {"orders", "id", "user_id"} : \E p \in OrdersBase : p.name = n
  BY <1>4, TableParted, ColumnParted
<1>10. \A n \in {"order_items", "order_id", "product_id"} : \E p \in TItems : p.name = n
  BY <1>5, TableParted, ColumnParted
<1> QED
  BY <1>6, <1>7, <1>8, <1>9, <1>10

(* A group beside objects of other tables and types *)
Grouped(t, X) == (\A o \in X : GroupOf(t, o)) /\ \E p \in X : p.name = t

LEMMA GroupMakeable ==
    ASSUME NEW t, NEW X, NEW S, Grouped(t, X),
           \A p \in S : p.in # t \/ p.kind \in {"index", "foreign_key"},
           \A o \in X : \A n \in o.uses : \E p \in S \cup X : p.name = n
    PROVE  Makeable(X, S)
BY DEF Makeable, GroupOf, Grouped

LEMMA GroupsGrouped ==
    /\ Grouped("users_role_enum", Roles) /\ Grouped("users", UsersBase)
    /\ Grouped("products", TProducts) /\ Grouped("order_items", TItems)
BY Groups, GroupNames DEF Grouped

(* An index or a foreign key that is not there *)
LEMMA LinkMakeable ==
    ASSUME NEW o, NEW S, o.kind \in {"index", "foreign_key"},
           \A p \in S : ~ (p.kind = o.kind /\ p.name = o.name),
           \A n \in {o.in} \cup o.uses : \E p \in S : p.name = n
    PROVE  Makeable({o}, S)
BY DEF Makeable

LEMMA Up1Leads == Leads(Append(Up1, Record(1)), Stage(0), Stage(1))
<1> DEFINE E == Enum("orders_status_enum", FirstLabels)
           O == OrdersBase \cup {Status("orders_status_enum"), StatusDefault}
           S1 == Roles
           S2 == S1 \cup UsersBase
           S3 == S2 \cup TProducts
           S4 == S3 \cup E
           S5 == S4 \cup O
           S6 == S5 \cup {OrdersUser}
           S7 == S6 \cup TItems
           S8 == S7 \cup {OrdersFK}
           S9 == S8 \cup {ItemsOrderFK}
           S10 == S9 \cup {ItemsProductFK}
           D == 1..0
<1>1. S10 = First
  BY DEF First, Base, Links, StatusParts
<1>2. Up1 = <<Create(Roles), Create(UsersBase), Create(TProducts), Create(E), Create(O),
              Create({OrdersUser}), Create(TItems), Create({OrdersFK}),
              Create({ItemsOrderFK}), Create({ItemsProductFK})>>
  <2>1. O = {Table("orders"), Unique("PK_orders_id", "orders", {"id"}),
             Status("orders_status_enum"), NotNull("orders", "status"), StatusDefault}
            \cup Required("orders", {"id", "user_id"} \cup Dates)
    BY DEF OrdersBase
  <2> HIDE DEF O
  <2> QED
    BY <2>1 DEF Up1, Roles, UsersBase, FirstLabels
<1>3. \A o \in E : GroupOf("orders_status_enum", o) /\ o.uses = {}
  BY EnumParted, EnumType, TypeParted DEF GroupOf
<1>4. \E p \in E : p.name = "orders_status_enum"
  <2>1. Type("orders_status_enum") \in E
    BY DEF Enum
  <2> QED
    BY <2>1, TypeParted
<1>5. \A o \in O : GroupOf("orders", o) /\ o.uses \subseteq {"id", "orders_status_enum"}
  <2>1. GroupOf("orders", Status("orders_status_enum")) /\ GroupOf("orders", StatusDefault)
    BY StatusParted, StatusDefaultParted, NamedObjects DEF GroupOf
  <2> QED
    BY <2>1, Groups, GroupUses, StatusParted, StatusDefaultParted
<1>6. \A n \in {"orders", "id", "user_id"} : \E p \in O : p.name = n
  BY GroupNames
<1> HIDE DEF E, O
<1>11. Makeable(Roles, {})
  BY GroupsGrouped, GroupUses, GroupMakeable
<1>12. Makeable(UsersBase, S1)
  <2>1. \A p \in S1 : p.in # "users"
    BY Groups DEF GroupOf
  <2>2. \A o \in UsersBase : \A n \in o.uses : \E p \in S1 \cup UsersBase : p.name = n
    BY GroupUses, GroupNames
  <2> QED
    BY <2>1, <2>2, GroupsGrouped, GroupMakeable
<1>13. Makeable(TProducts, S2)
  <2>1. \A p \in S2 : p.in # "products"
    BY Groups DEF GroupOf
  <2>2. \A o \in TProducts : \A n \in o.uses : \E p \in S2 \cup TProducts : p.name = n
    BY GroupUses, GroupNames
  <2> QED
    BY <2>1, <2>2, GroupsGrouped, GroupMakeable
<1>14. Makeable(E, S3)
  <2>1. \A p \in S3 : p.in # "orders_status_enum"
    BY Groups DEF GroupOf
  <2>2. Grouped("orders_status_enum", E)
    BY <1>3, <1>4 DEF Grouped
  <2> QED
    BY <1>3, <2>1, <2>2, GroupMakeable
<1>15. Makeable(O, S4)
  <2>1. \A p \in S4 : p.in # "orders"
    BY <1>3, Groups DEF GroupOf
  <2>2. \A o \in O : \A n \in o.uses : \E p \in S4 \cup O : p.name = n
    BY <1>4, <1>5, <1>6
  <2>3. Grouped("orders", O)
    BY <1>5, <1>6 DEF Grouped
  <2> QED
    BY <2>1, <2>2, <2>3, GroupMakeable
<1>16. Makeable({OrdersUser}, S5)
  <2>1. \A p \in S5 : p.kind # "index"
    BY <1>3, <1>5, Groups DEF GroupOf
  <2>2. \A n \in {"orders", "user_id"} : \E p \in S5 : p.name = n
    BY <1>6
  <2> QED
    BY <2>1, <2>2, OrdersUserParted, LinkMakeable
<1>17. Makeable(TItems, S6)
  <2>1. \A p \in S6 : p.in # "order_items"
    BY <1>3, <1>5, Groups, OrdersUserParted DEF GroupOf
  <2>2. \A o \in TItems : \A n \in o.uses : \E p \in S6 \cup TItems : p.name = n
    BY GroupUses, GroupNames
  <2> QED
    BY <2>1, <2>2, GroupsGrouped, GroupMakeable
<1>18. \A p \in S7 : p.kind # "foreign_key"
  BY <1>3, <1>5, Groups, OrdersUserParted DEF GroupOf
<1>19. \A n \in {"users", "orders", "order_items", "products"} : \E p \in S7 : p.name = n
  <2>1. UsersBase \subseteq S7 /\ O \subseteq S7 /\ TItems \subseteq S7 /\ TProducts \subseteq S7
    OBVIOUS
  <2> HIDE DEF S7
  <2> QED
    BY <1>6, <2>1, GroupNames
<1> HIDE DEF S7
<1>20. Makeable({OrdersFK}, S7)
  BY <1>18, <1>19, OrdersFKParted, LinkMakeable
<1>21. Makeable({ItemsOrderFK}, S8)
  <2>1. \A p \in S8 : ~ (p.kind = "foreign_key" /\ p.name = ItemsOrderFK.name)
    BY <1>18, OrdersFKParted, ItemsOrderFKParted
  <2>2. \A n \in {"order_items", "orders"} : \E p \in S8 : p.name = n
    BY <1>19
  <2> QED
    BY <2>1, <2>2, ItemsOrderFKParted, LinkMakeable
<1>22. Makeable({ItemsProductFK}, S9)
  <2>1. \A p \in S9 : ~ (p.kind = "foreign_key" /\ p.name = ItemsProductFK.name)
    BY <1>18, OrdersFKParted, ItemsOrderFKParted, ItemsProductFKParted
  <2>2. \A n \in {"order_items", "products"} : \E p \in S9 : p.name = n
    BY <1>19
  <2> QED
    BY <2>1, <2>2, ItemsProductFKParted, LinkMakeable
<1>23. /\ Moves(Create(Roles), At({}, D), At(S1, D))
       /\ Moves(Create(UsersBase), At(S1, D), At(S2, D))
       /\ Moves(Create(TProducts), At(S2, D), At(S3, D))
       /\ Moves(Create(E), At(S3, D), At(S4, D))
       /\ Moves(Create(O), At(S4, D), At(S5, D))
       /\ Moves(Create({OrdersUser}), At(S5, D), At(S6, D))
  <2>1. {} \cup Roles = S1
    OBVIOUS
  <2> QED
    BY <2>1, <1>11, <1>12, <1>13, <1>14, <1>15, <1>16, CreateMoves
<1>24. /\ Moves(Create(TItems), At(S6, D), At(S7, D))
       /\ Moves(Create({OrdersFK}), At(S7, D), At(S8, D))
       /\ Moves(Create({ItemsOrderFK}), At(S8, D), At(S9, D))
       /\ Moves(Create({ItemsProductFK}), At(S9, D), At(S10, D))
  BY <1>17, <1>20, <1>21, <1>22, CreateMoves DEF S7
<1> HIDE DEF S1, S2, S3, S4, S5, S6, S7, S8, S9, S10, D
<1>25. Leads(Up1, At({}, D), At(S10, D))
  BY <1>2, <1>23, <1>24, TenLead
<1>26. Moves(Record(1), At(S10, 1..(1 - 1)), At(S10, 1..1)) /\ 1 - 1 = 0
  BY RowMoves
<1>27. Leads(Append(Up1, Record(1)), At({}, D), At(S10, 1..1))
  BY <1>25, <1>26, AppendLeads DEF D
<1> QED
  BY <1>1, <1>27, SchemaGrows DEF Stage, D

(* Which objects of the first migration name a table or a type *)
LEMMA FirstUses ==
    ASSUME NEW p \in First
    PROVE  /\ p.in \in {"users", "products", "orders", "order_items",
                        "users_role_enum", "orders_status_enum"}
           /\ "order_items" \notin p.uses
           /\ "orders" \in p.uses => p = ItemsOrderFK
           /\ "products" \in p.uses => p = ItemsProductFK
           /\ "users" \in p.uses => p = OrdersFK
           /\ "orders_status_enum" \in p.uses => p.in = "orders"
           /\ "users_role_enum" \in p.uses => p.in = "users"
<1>1. CASE p \in Roles \cup UsersBase \cup TProducts \cup OrdersBase \cup TItems
  <2>1. CASE p \in Roles
    BY <2>1, Groups, GroupUses DEF GroupOf
  <2>2. CASE p \in UsersBase
    BY <2>2, Groups, GroupUses DEF GroupOf
  <2>3. CASE p \in TProducts
    BY <2>3, Groups, GroupUses DEF GroupOf
  <2>4. CASE p \in OrdersBase
    BY <2>4, Groups, GroupUses DEF GroupOf
  <2>5. CASE p \in TItems
    BY <2>5, Groups, GroupUses DEF GroupOf
  <2> QED
    BY <1>1, <2>1, <2>2, <2>3, <2>4, <2>5
<1>2. CASE p \in Links
  BY <1>2, OrdersUserParted, OrdersFKParted, ItemsOrderFKParted, ItemsProductFKParted DEF Links
<1>3. CASE p = Status("orders_status_enum") \/ p = StatusDefault
  BY <1>3, StatusParted, StatusDefaultParted
<1>4. CASE p.in = "orders_status_enum" /\ p.uses = {}
  BY <1>4
<1> QED
  BY <1>1, <1>2, <1>3, <1>4, FirstMembers DEF Base

(* A table or a type that nothing else names goes with all that is in it. *)
LEMMA DropAllMoves ==
    ASSUME NEW o, NEW S, NEW D, o \in S, o.kind \in {"table", "type"}, o.in = o.name,
           \A p \in S : o.name \in p.uses => p.in = o.name
    PROVE  Moves(Drop(o), At(S, D), At({p \in S : p.in # o.name}, D))
<1>1. Parts(S, o) = {p \in S : p.in = o.name}
  BY DEF Parts
<1>2. ~ InUse(S, o)
  BY <1>1 DEF InUse
<1>3. S \ Parts(S, o) = {p \in S : p.in # o.name}
  BY <1>1
<1> QED
  BY <1>2, <1>3, DropMoves

LEMMA Down1Leads == Leads(Append(Down1, Forget(1)), Stage(1), Stage(0))
<1> DEFINE S0 == First
           S1 == S0 \ {ItemsProductFK}
           S2 == S1 \ {ItemsOrderFK}
           S3 == S2 \ {OrdersFK}
           S4 == {p \in S3 : p.in # "order_items"}
           S5 == S4 \ {OrdersUser}
           S6 == {p \in S5 : p.in # "orders"}
           S7 == {p \in S6 : p.in # "orders_status_enum"}
           S8 == {p \in S7 : p.in # "products"}
           S9 == {p \in S8 : p.in # "users"}
           S10 == {p \in S9 : p.in # "users_role_enum"}
           D == 1..1
<1>1. {ItemsProductFK, ItemsOrderFK, OrdersFK, OrdersUser, Table("order_items"), Table("orders"),
       Table("products"), Table("users"), Type("orders_status_enum"), Type("users_role_enum")} \subseteq First
  <2>1. {ItemsProductFK, ItemsOrderFK, OrdersFK, OrdersUser} \subseteq First
    BY DEF First, Base, Links
  <2>2. {Table("order_items"), Table("products")} \subseteq First
    BY DEF First, Base, TItems, TProducts
  <2> QED
    BY <2>1, <2>2, FirstHas
<1>2. /\ ItemsProductFK.kind = "foreign_key" /\ ItemsOrderFK.kind = "foreign_key"
      /\ OrdersFK.kind = "foreign_key" /\ OrdersUser.kind = "index"
      /\ ItemsProductFK.name # ItemsOrderFK.name /\ OrdersFK.name # ItemsProductFK.name
      /\ OrdersFK.name # ItemsOrderFK.name /\ OrdersUser.in = "orders"
  BY ItemsProductFKParted, ItemsOrderFKParted, OrdersFKParted, OrdersUserParted
<1>3. S10 = {}
  BY FirstUses
<1> HIDE DEF S0
<1>4. Moves(Drop(ItemsProductFK), At(S0, D), At(S1, D))
  BY <1>1, <1>2, DropOneMoves DEF S0
<1>5. Moves(Drop(ItemsOrderFK), At(S1, D), At(S2, D))
  BY <1>1, <1>2, DropOneMoves DEF S0
<1>6. Moves(Drop(OrdersFK), At(S2, D), At(S3, D))
  BY <1>1, <1>2, DropOneMoves DEF S0
<1>7. ASSUME NEW t, NEW S PROVE
        /\ Table(t) \in S /\ (\A p \in S : t \in p.uses => p.in = t)
             => Moves(Drop(Table(t)), At(S, D), At({p \in S : p.in # t}, D))
        /\ Type(t) \in S /\ (\A p \in S : t \in p.uses => p.in = t)
             => Moves(Drop(Type(t)), At(S, D), At({p \in S : p.in # t}, D))
  <2>1. /\ Table(t).kind = "table" /\ Table(t).in = t /\ Table(t).name = t
        /\ Type(t).kind = "type" /\ Type(t).in = t /\ Type(t).name = t
    BY TableParted, TypeParted
  <2> HIDE DEF D
  <2>2. ASSUME Table(t) \in S, \A p \in S : t \in p.uses => p.in = t
        PROVE  Moves(Drop(Table(t)), At(S, D), At({p \in S : p.in # t}, D))
    <3>1. PICK o : o = Table(t)
      OBVIOUS
    <3>2. o \in S /\ o.kind = "table" /\ o.in = o.name /\ o.name = t
      BY <2>1, <2>2, <3>1
    <3>3. Moves(Drop(o), At(S, D), At({p \in S : p.in # o.name}, D))
      BY <2>2, <3>2, DropAllMoves
    <3> QED
      BY <3>1, <3>2, <3>3
  <2>3. ASSUME Type(t) \in S, \A p \in S : t \in p.uses => p.in = t
        PROVE  Moves(Drop(Type(t)), At(S, D), At({p \in S : p.in # t}, D))
    <3>1. PICK o : o = Type(t)
      OBVIOUS
    <3>2. o \in S /\ o.kind = "type" /\ o.in = o.name /\ o.name = t
      BY <2>1, <2>3, <3>1
    <3>3. Moves(Drop(o), At(S, D), At({p \in S : p.in # o.name}, D))
      BY <2>3, <3>2, DropAllMoves
    <3> QED
      BY <3>1, <3>2, <3>3
  <2> QED
    BY <2>2, <2>3
<1> HIDE DEF D
<1>8. Moves(Drop(Table("order_items")), At(S3, D), At(S4, D))
  <2>1. Table("order_items") \in S3
    BY <1>1, <1>2, TableParted DEF S0
  <2>2. \A p \in S3 : "order_items" \notin p.uses
    BY FirstUses DEF S0
  <2> QED
    BY <1>7, <2>1, <2>2
<1>9. Moves(Drop(OrdersUser), At(S4, D), At(S5, D))
  <2>1. OrdersUser \in S4
    BY <1>1, <1>2 DEF S0
  <2> HIDE DEF S4
  <2> QED
    BY <1>2, <2>1, DropOneMoves
<1>10. Moves(Drop(Table("orders")), At(S5, D), At(S6, D))
  <2>1. Table("orders") \in S5
    BY <1>1, <1>2, TableParted DEF S0
  <2>2. \A p \in S5 : "orders" \notin p.uses
    BY FirstUses DEF S0
  <2> HIDE DEF S5
  <2> QED
    BY <1>7, <2>1, <2>2
<1>11. Moves(Drop(Type("orders_status_enum")), At(S6, D), At(S7, D))
  <2>1. Type("orders_status_enum") \in S6
    BY <1>1, <1>2, TypeParted DEF S0
  <2>2. \A p \in S6 : "orders_status_enum" \notin p.uses
    BY FirstUses DEF S0
  <2> HIDE DEF S6
  <2> QED
    BY <1>7, <2>1, <2>2
<1>12. Moves(Drop(Table("products")), At(S7, D), At(S8, D))
  <2>1. Table("products") \in S7
    BY <1>1, <1>2, TableParted DEF S0
  <2>2. \A p \in S7 : "products" \notin p.uses
    BY FirstUses DEF S0
  <2> HIDE DEF S7
  <2> QED
    BY <1>7, <2>1, <2>2
<1>13. Moves(Drop(Table("users")), At(S8, D), At(S9, D))
  <2>1. Table("users") \in S8
    BY <1>1, <1>2, TableParted DEF S0
  <2>2. \A p \in S8 : "users" \notin p.uses
    BY FirstUses DEF S0
  <2> HIDE DEF S8
  <2> QED
    BY <1>7, <2>1, <2>2
<1>14. Moves(Drop(Type("users_role_enum")), At(S9, D), At(S10, D))
  <2>1. Type("users_role_enum") \in S9
    BY <1>1, <1>2, TypeParted DEF S0
  <2>2. \A p \in S9 : "users_role_enum" \notin p.uses
    BY FirstUses DEF S0
  <2> HIDE DEF S9
  <2> QED
    BY <1>7, <2>1, <2>2
<1> HIDE DEF S1, S2, S3, S4, S5, S6, S7, S8, S9, S10
<1>15. Leads(Down1, At(S0, D), At(S10, D))
  BY <1>4, <1>5, <1>6, <1>8, <1>9, <1>10, <1>11, <1>12, <1>13, <1>14, TenLead DEF Down1
<1>16. Moves(Forget(1), At(S10, 1..1), At(S10, 1..(1 - 1))) /\ 1 - 1 = 0
  BY RowMoves
<1>17. Leads(Append(Down1, Forget(1)), At(S0, D), At(S10, 1..0))
  BY <1>15, <1>16, AppendLeads DEF D
<1> QED
  BY <1>3, <1>17, SchemaGrows DEF Stage, D, S0

(* An object that the change of the type of the status leaves alone *)
Aside(o) ==
    /\ IsObject(o)
    /\ o.name \notin StatusTypes \cup {Listing.name}
    /\ o.in \notin StatusTypes /\ o.uses \cap StatusTypes = {}
    /\ o.in = "orders" /\ o.name = "status" => o.kind = "not_null"

LEMMA KeptAside ==
    /\ \A o \in Kept4 \cup {Column("orders", "processed_at")} : Aside(o)
    /\ \A n \in {"orders", "user_id", "created_at"} : \E p \in Kept4 : p.name = n
<1>1. \A o \in Base : Aside(o)
  BY BasePlain DEF Plain, Looked, Aside
<1>2. ASSUME NEW c \in {"idempotency_key", "processed_at"}
      PROVE  Aside(Column("orders", c)) /\ Aside(NotNull("orders", c))
  <2>1. IsObject(Column("orders", c)) /\ IsObject(NotNull("orders", c))
    BY PartTypes
  <2> QED
    BY <2>1, ColumnParted, NotNullParted, ListingParted DEF Aside, StatusTypes
<1>3. Aside(OrdersKey)
  BY OrdersKeyParted, ListingParted, NamedObjects DEF Aside, StatusTypes
<1>4. \A o \in Added(2) : Aside(o)
  BY <1>2, <1>3, AddedMembers
<1>5. {Table("orders"), Column("orders", "user_id"), Column("orders", "created_at")} \subseteq Base
  BY DEF Base, OrdersBase, Required, Dates
<1>6. \A n \in {"orders", "user_id", "created_at"} : \E p \in Kept4 : p.name = n
  BY <1>5, TableParted, ColumnParted DEF Kept4
<1> QED
  BY <1>1, <1>2, <1>4, <1>6 DEF Kept4

(* What a rename makes of an object *)
NewName(name, a, b) == IF name = a THEN b ELSE name

LEMMA RenamedObject ==
    ASSUME NEW k, NEW n, NEW t, NEW u, NEW a, NEW b
    PROVE  Renamed(Object(k, n, t, u), a, b)
           = Object(k, NewName(n, a, b), NewName(t, a, b), {NewName(x, a, b) : x \in u})
<1> DEFINE o == Object(k, n, t, u)
           v == {NewName(x, a, b) : x \in u}
<1>1. Renamed(o, a, b) = [o EXCEPT !.name = NewName(n, a, b), !.in = NewName(t, a, b), !.uses = v]
  <2>1. o.name = n /\ o.in = t /\ o.uses = u
    BY ObjectParted
  <2>2. Renamed(o, a, b) = [o EXCEPT !.name = NewName(o.name, a, b), !.in = NewName(o.in, a, b),
                                     !.uses = {NewName(x, a, b) : x \in o.uses}]
    BY DEF Renamed, NewName, Object
  <2> HIDE DEF o
  <2> QED
    BY <2>1, <2>2
<1> HIDE DEF v
<1>2. Renamed(o, a, b) = Object(k, NewName(n, a, b), NewName(t, a, b), v)
  BY <1>1 DEF Object
<1> QED
  BY <1>2 DEF v

LEMMA RenamedAside ==
    ASSUME NEW o, IsObject(o), NEW a, NEW b, o.name # a, o.in # a, a \notin o.uses
    PROVE  Renamed(o, a, b) = o
<1>1. o = Object(o.kind, o.name, o.in, o.uses)
  <2>1. o \in [kind : Kinds, name : {o.name}, in : {o.in}, uses : {o.uses}]
    BY DEF IsObject
  <2> QED
    BY <2>1 DEF Object
<1>2. /\ {NewName(x, a, b) : x \in o.uses} = o.uses
      /\ NewName(o.name, a, b) = o.name /\ NewName(o.in, a, b) = o.in
  BY DEF NewName
<1>3. Renamed(Object(o.kind, o.name, o.in, o.uses), a, b) = Object(o.kind, o.name, o.in, o.uses)
  BY <1>2, RenamedObject
<1> QED
  BY <1>1, <1>3

LEMMA RenamedStatus ==
    ASSUME NEW Q, \A o \in Q : Aside(o), NEW a \in StatusTypes, NEW b \in StatusTypes,
           NEW ls, ls \cap StatusTypes = {}
    PROVE  AllRenamed(Q \cup {Status(a)} \cup Enum(a, ls) \cup {StatusDefault}, a, b)
           = Q \cup {Status(b)} \cup Enum(b, ls) \cup {StatusDefault}
<1>1. \A o \in Q : Renamed(o, a, b) = o
  <2>1. \A o \in Q : IsObject(o) /\ o.name # a /\ o.in # a /\ a \notin o.uses
    BY DEF Aside
  <2> QED
    BY <2>1, RenamedAside
<1>2. Renamed(Status(a), a, b) = Status(b)
  <2>1. "orders" # a /\ "status" # a
    BY DEF StatusTypes
  <2>2. /\ {NewName(x, a, b) : x \in {a}} = {b}
        /\ NewName("orders", a, b) = "orders" /\ NewName("status", a, b) = "status"
    BY <2>1 DEF NewName
  <2>3. Renamed(Object("column", "status", "orders", {a}), a, b)
        = Object("column", "status", "orders", {b})
    BY <2>2, RenamedObject
  <2> QED
    BY <2>3 DEF Status, EnumColumn
<1>3. Renamed(StatusDefault, a, b) = StatusDefault
  <2>1. StatusDefault.name # a /\ StatusDefault.in # a /\ a \notin StatusDefault.uses
    BY StatusDefaultParted DEF StatusTypes
  <2> QED
    BY <2>1, NamedObjects, RenamedAside
<1>4. {NewName(x, a, b) : x \in {}} = {} /\ NewName(a, a, b) = b
  BY DEF NewName
<1>5. Renamed(Type(a), a, b) = Type(b)
  BY <1>4, RenamedObject DEF Type
<1>6. ASSUME NEW l \in ls
      PROVE  Renamed(Object("label", l, a, {}), a, b) = Object("label", l, b, {})
  <2>1. NewName(l, a, b) = l
    BY DEF NewName
  <2> QED
    BY <1>4, <2>1, RenamedObject
<1>7. {Renamed(o, a, b) : o \in Enum(a, ls)} = Enum(b, ls)
  BY <1>5, <1>6 DEF Enum
<1>8. {Renamed(o, a, b) : o \in Q} = Q
  BY <1>1
<1> HIDE DEF Enum
<1> QED
  BY <1>2, <1>3, <1>7, <1>8 DEF AllRenamed

(* The type of the status from a to b: the default goes while it changes. *)
LEMMA ConvertMoves ==
    ASSUME NEW Q, \A o \in Q : Aside(o), \E p \in Q : p.name = "orders",
           NEW a \in StatusTypes, NEW b \in StatusTypes, a # b, NEW la, NEW lb,
           Statuses \ {"processed"} \subseteq lb, "processed" \in lb <=> b # "orders_status_enum_old",
           NEW D
    PROVE  LET A == Enum(a, la)
               B == Enum(b, lb)
           IN  /\ Moves(Drop(StatusDefault),
                        At(Q \cup {Status(a)} \cup A \cup {StatusDefault} \cup B, D),
                        At(Q \cup {Status(a)} \cup A \cup B, D))
               /\ Moves(Retype(Status(b)),
                        At(Q \cup {Status(a)} \cup A \cup B, D),
                        At(Q \cup {Status(b)} \cup A \cup B, D))
               /\ Moves(Create({StatusDefault}),
                        At(Q \cup {Status(b)} \cup A \cup B, D),
                        At(Q \cup {Status(b)} \cup A \cup B \cup {StatusDefault}, D))
               /\ Moves(Drop(Type(a)),
                        At(Q \cup {Status(b)} \cup A \cup B \cup {StatusDefault}, D),
                        At(Q \cup {Status(b)} \cup B \cup {StatusDefault}, D))
<1> DEFINE A == Enum(a, la)
           B == Enum(b, lb)
           S1 == Q \cup {Status(a)} \cup A \cup {StatusDefault} \cup B
           S2 == Q \cup {Status(a)} \cup A \cup B
           S3 == Q \cup {Status(b)} \cup A \cup B
           S4 == Q \cup {Status(b)} \cup A \cup B \cup {StatusDefault}
           S5 == Q \cup {Status(b)} \cup B \cup {StatusDefault}
<1>1. /\ \A p \in A : p.in = a /\ p.uses = {} /\ p.kind \in {"type", "label"}
      /\ \A p \in B : p.in = b /\ p.uses = {} /\ p.kind \in {"type", "label"}
      /\ Type(a) \in A
      /\ \A l \in lb : Object("label", l, b, {}) \in B
  <2>1. \A ty, ls : \A p \in Enum(ty, ls) : p.in = ty /\ p.uses = {} /\ p.kind \in {"type", "label"}
    BY EnumParted, TypeParted
  <2>2. Type(a) \in A /\ \A l \in lb : Object("label", l, b, {}) \in B
    BY DEF Enum
  <2> QED
    BY <2>1, <2>2
<1>2. /\ StatusDefault.kind = "default" /\ StatusDefault.in = "orders"
      /\ StatusDefault.name = "status" /\ StatusDefault.uses = {}
      /\ \A ty : /\ Status(ty).kind = "column" /\ Status(ty).in = "orders"
                 /\ Status(ty).name = "status" /\ Status(ty).uses = {ty}
  BY StatusDefaultParted, StatusParted
<1>3. a \notin {"orders", "status"} /\ b \notin {"orders", "status"}
  BY DEF StatusTypes
<1> HIDE DEF A, B
<1>4. StatusDefault \notin S2 /\ StatusDefault \notin S3
  BY <1>1, <1>2, <1>3 DEF Aside
<1>5. Moves(Drop(StatusDefault), At(S1, D), At(S2, D))
  <2>1. StatusDefault \in S1 /\ StatusDefault.kind \notin {"table", "type", "column"}
    BY <1>2
  <2>2. S1 \ {StatusDefault} = S2
    BY <1>4
  <2> HIDE DEF S1, S2
  <2> QED
    BY <2>1, <2>2, DropOneMoves
<1>6. Moves(Retype(Status(b)), At(S2, D), At(S3, D))
  <2>1. Labels(S2, b) = lb
    <3>1. \A l : Object("label", l, b, {}).kind = "label" /\ Object("label", l, b, {}).in = b
               /\ Object("label", l, b, {}).name = l
      BY ObjectParted
    <3>2. ASSUME NEW l \in lb PROVE l \in Labels(S2, b)
      <4>1. Object("label", l, b, {}) \in S2
        BY <1>1
      <4> QED
        BY <3>1, <4>1 DEF Labels
    <3>3. ASSUME NEW l \in Labels(S2, b) PROVE l \in lb
      <4>1. PICK p \in S2 : p.kind = "label" /\ p.in = b /\ p.name = l
        BY <3>3 DEF Labels
      <4>2. p \in B
        BY <1>1, <1>2, <4>1 DEF Aside
      <4>3. p = Type(b) \/ \E x \in lb : p = Object("label", x, b, {})
        BY <4>2 DEF B, Enum
      <4> QED
        BY <3>1, <4>1, <4>3, TypeParted
    <3> QED
      BY <3>2, <3>3
  <2>2. Named(S2, "column", "orders", "status") = {Status(a)}
    BY <1>1, <1>2, <1>3 DEF Named, Aside
  <2>3. {Status(b)} \cup (S2 \ {Status(a)}) = S3
    <3>1. Status(a) \notin Q \cup A \cup B
      BY <1>1, <1>2, <1>3 DEF Aside
    <3> QED
      BY <3>1
  <2> HIDE DEF S2, S3
  <2> QED
    BY <1>4, <2>1, <2>2, <2>3, RetypeMoves
<1>7. Moves(Create({StatusDefault}), At(S3, D), At(S4, D))
  <2>1. S3 \cup {StatusDefault} = S4
    OBVIOUS
  <2>2. Makeable({StatusDefault}, S3)
    <3>1. ASSUME NEW p \in S3 PROVE ~ (p.kind = "default" /\ p.in = "orders" /\ p.name = "status")
      BY <1>1, <1>2, <1>3, <3>1 DEF Aside
    <3>2. \E p \in S3 : p.name = "orders"
      OBVIOUS
    <3> HIDE DEF S3
    <3> QED
      BY <1>2, <3>1, <3>2 DEF Makeable
  <2> HIDE DEF S3, S4
  <2> QED
    BY <2>1, <2>2, CreateMoves
<1>8. Moves(Drop(Type(a)), At(S4, D), At(S5, D))
  <2>1. Type(a).kind = "type" /\ Type(a).in = a /\ Type(a).name = a
    BY TypeParted
  <2>2. Type(a) \in S4
    BY <1>1
  <2>3. \A p \in S4 : a \notin p.uses
    BY <1>1, <1>2 DEF Aside
  <2>4. {p \in S4 : p.in # a} = S5
    BY <1>1, <1>2, <1>3 DEF Aside
  <2> HIDE DEF S4, S5
  <2> QED
    BY <2>1, <2>2, <2>3, <2>4, DropAllMoves
<1> QED
  BY <1>5, <1>6, <1>7, <1>8 DEF A, B

(* The index goes, and comes back. *)
LEMMA ListingMoves ==
    ASSUME NEW S, \A p \in S : p.name # Listing.name, NEW D,
           \A n \in Listing.uses \cup {"orders"} : \E p \in S : p.name = n
    PROVE  /\ Moves(Drop(Listing), At(S \cup {Listing}, D), At(S, D))
           /\ Moves(Create({Listing}), At(S, D), At(S \cup {Listing}, D))
<1>1. Listing.kind = "index" /\ Listing.in = "orders"
  BY ListingParted
<1>2. Moves(Drop(Listing), At(S \cup {Listing}, D), At(S, D))
  <2>1. (S \cup {Listing}) \ {Listing} = S
    OBVIOUS
  <2> QED
    BY <1>1, <2>1, DropOneMoves
<1>3. Makeable({Listing}, S)
  BY <1>1, LinkMakeable
<1> QED
  BY <1>2, <1>3, CreateMoves

(* The labels of a type that is not there *)
LEMMA EnumMakeable ==
    ASSUME NEW ty, NEW ls, NEW S, \A p \in S : p.in # ty
    PROVE  Makeable(Enum(ty, ls), S)
<1>1. \A o \in Enum(ty, ls) : o.in = ty /\ o.uses = {}
  BY EnumParted
<1>2. \E p \in Enum(ty, ls) : p.name = ty
  <2>1. Type(ty) \in Enum(ty, ls)
    BY DEF Enum
  <2> QED
    BY <2>1, TypeParted
<1> QED
  BY <1>1, <1>2 DEF Makeable

(* The schema with and without what the fourth migration adds *)
LEMMA FourthSchemas ==
    LET e == "orders_status_enum"
        C == Column("orders", "processed_at")
    IN  /\ SchemaAfter(3) = Kept4 \cup {Status(e)} \cup Enum(e, FirstLabels) \cup {StatusDefault, Listing}
        /\ SchemaAfter(4) = Kept4 \cup {C, Status(e)} \cup Enum(e, Statuses) \cup {StatusDefault, Listing}
<1>1. /\ SchemaAfter(2) = First \cup Added(2)
      /\ SchemaAfter(3) = SchemaAfter(2) \cup Added(3)
      /\ SchemaAfter(4) = SchemaAfter(3) \cup Added(4)
  <2>1. 2 - 1 = 1 /\ 3 - 1 = 2 /\ 4 - 1 = 3 /\ {2, 3, 4} \subseteq 2..6
    OBVIOUS
  <2> QED
    BY <2>1, SchemaGrows
<1>2. Enum("orders_status_enum", Statuses) = Enum("orders_status_enum", FirstLabels) \cup {Processed}
  BY DEF Enum, Statuses, FirstLabels, Processed
<1> QED
  BY <1>1, <1>2, AddedMembers DEF First, Kept4, StatusParts

LEMMA Up4Leads == Leads(Append(Up4, Record(4)), Stage(3), Stage(4))
<1> DEFINE e == "orders_status_enum"
           old == "orders_status_enum_old"
           C == Column("orders", "processed_at")
           E == Enum(e, FirstLabels)
           F == Enum(old, FirstLabels)
           G == Enum(e, Statuses)
           SD == StatusDefault
           Q == Kept4 \cup {C}
           S0 == Kept4 \cup {Status(e)} \cup E \cup {SD, Listing}
           S1 == Q \cup {Status(e)} \cup E \cup {SD} \cup {Listing}
           S2 == Q \cup {Status(e)} \cup E \cup {SD}
           S3 == Q \cup {Status(old)} \cup F \cup {SD}
           S4 == Q \cup {Status(old)} \cup F \cup {SD} \cup G
           S5 == Q \cup {Status(old)} \cup F \cup G
           S6 == Q \cup {Status(e)} \cup F \cup G
           S7 == Q \cup {Status(e)} \cup F \cup G \cup {SD}
           S8 == Q \cup {Status(e)} \cup G \cup {SD}
           S9 == Q \cup {Status(e)} \cup G \cup {SD} \cup {Listing}
           D == 1..3
<1>1. SchemaAfter(3) = S0 /\ SchemaAfter(4) = S9
  BY FourthSchemas
<1>2. Up4 = <<Create({C}), Drop(Listing), Rename(e, old), Create(G), Drop(SD), Retype(Status(e)),
              Create({SD}), Drop(Type(old)), Create({Listing})>>
  BY DEF Up4, Statuses
<1>3. /\ e \in StatusTypes /\ old \in StatusTypes /\ e # old
      /\ FirstLabels \cap StatusTypes = {} /\ "processed" \in Statuses
      /\ C.in = "orders" /\ C.name = "processed_at" /\ C.uses = {} /\ C.kind = "column"
  BY ColumnParted DEF StatusTypes, FirstLabels, Statuses
<1>4. /\ \A p \in E : p.in = e
      /\ \A p \in F : p.in = old
      /\ \A ls \in {FirstLabels, Statuses} : \A p \in Enum(e, ls) : p.name \in {e} \cup ls
      /\ Type(e) \in E
  <2>1. Type(e) \in E
    BY DEF Enum
  <2> QED
    BY <2>1, EnumParted, TypeParted
<1>5. \A o \in Q : Aside(o)
  BY KeptAside
<1>6. \A n \in {"orders", "user_id", "created_at"} : \E p \in Q : p.name = n
  BY KeptAside
<1>7. /\ SD.in = "orders" /\ SD.name = "status"
      /\ \A ty : Status(ty).in = "orders" /\ Status(ty).name = "status"
      /\ Listing.in = "orders" /\ Listing.name = "IX_orders_user_id_status_created_at"
      /\ Listing.uses = {"user_id", "status", "created_at"}
  BY StatusDefaultParted, StatusParted, ListingParted
<1>8. C \notin SchemaAfter(3) /\ \A p \in SchemaAfter(3) : ~ (p.in = C.in /\ p.name = C.name)
  <2>1. C \in Added(4) /\ 4 - 1 = 3
    BY AddedMembers
  <2> QED
    BY <2>1, AddedNew
<1> HIDE DEF C, E, F, G, SD, Q
<1>9. Moves(Create({C}), At(S0, D), At(S1, D))
  <2>1. Makeable({C}, S0)
    <3>1. \E p \in S0 : p.name = "orders"
      <4>1. \E p \in Kept4 : p.name = "orders"
        BY KeptAside
      <4> QED
        BY <4>1
    <3> HIDE DEF S0
    <3> QED
      BY <1>1, <1>3, <1>8, <3>1 DEF Makeable
  <2>2. S0 \cup {C} = S1
    BY DEF Q
  <2> HIDE DEF S0, S1
  <2> QED
    BY <2>1, <2>2, CreateMoves
<1>10. Moves(Drop(Listing), At(S1, D), At(S2, D))
  <2>1. \A p \in S2 : p.name # Listing.name
    BY <1>4, <1>5, <1>7 DEF Aside, E, FirstLabels
  <2>2. \A n \in Listing.uses \cup {"orders"} : \E p \in S2 : p.name = n
    BY <1>6, <1>7
  <2> HIDE DEF S2
  <2> QED
    BY <2>1, <2>2, ListingMoves DEF S2
<1>11. Moves(Rename(e, old), At(S2, D), At(S3, D))
  <2>1. Type(e) \in S2
    BY <1>4
  <2>2. Type(old) \notin S2
    <3>1. Type(old).in = old
      BY TypeParted
    <3> QED
      BY <1>3, <1>4, <1>5, <1>7, <3>1 DEF Aside
  <2>3. AllRenamed(S2, e, old) = S3
    BY <1>3, <1>5, RenamedStatus DEF E, F, SD
  <2> HIDE DEF S2, S3
  <2> QED
    BY <2>1, <2>2, <2>3, RenameMoves
<1>12. Moves(Create(G), At(S3, D), At(S4, D))
  <2>1. \A p \in S3 : p.in # e
    BY <1>3, <1>4, <1>5, <1>7 DEF Aside
  <2> HIDE DEF S3
  <2> QED
    BY <2>1, EnumMakeable, CreateMoves DEF G, S3
<1>13. /\ Moves(Drop(SD), At(S4, D), At(S5, D))
       /\ Moves(Retype(Status(e)), At(S5, D), At(S6, D))
       /\ Moves(Create({SD}), At(S6, D), At(S7, D))
       /\ Moves(Drop(Type(old)), At(S7, D), At(S8, D))
  <2>1. \E p \in Q : p.name = "orders"
    BY <1>6
  <2>2. Statuses \ {"processed"} \subseteq Statuses
    OBVIOUS
  <2> HIDE DEF D
  <2> QED
    BY <1>3, <1>5, <2>1, <2>2, ConvertMoves DEF F, G, SD
<1>14. Moves(Create({Listing}), At(S8, D), At(S9, D))
  <2>1. \A p \in S8 : p.name # Listing.name
    BY <1>4, <1>5, <1>7 DEF Aside, G, Statuses
  <2>2. \A n \in Listing.uses \cup {"orders"} : \E p \in S8 : p.name = n
    BY <1>6, <1>7
  <2> HIDE DEF S8
  <2> QED
    BY <2>1, <2>2, ListingMoves DEF S8
<1> HIDE DEF S0, S1, S2, S3, S4, S5, S6, S7, S8, S9
<1>15. Leads(Up4, At(S0, D), At(S9, D))
  BY <1>2, <1>9, <1>10, <1>11, <1>12, <1>13, <1>14, NineLead
<1>16. Moves(Record(4), At(S9, 1..(4 - 1)), At(S9, 1..4)) /\ 4 - 1 = 3
  BY RowMoves
<1> QED
  BY <1>1, <1>15, <1>16, AppendLeads DEF Stage

LEMMA Down4Leads == Leads(Append(Down4, Forget(4)), Stage(4), Stage(3))
<1> DEFINE e == "orders_status_enum"
           old == "orders_status_enum_old"
           C == Column("orders", "processed_at")
           E == Enum(e, FirstLabels)
           F == Enum(old, FirstLabels)
           G == Enum(e, Statuses)
           SD == StatusDefault
           Q == Kept4 \cup {C}
           S0 == Q \cup {Status(e)} \cup G \cup {SD} \cup {Listing}
           S1 == Q \cup {Status(e)} \cup G \cup {SD}
           S2 == Q \cup {Status(e)} \cup G \cup {SD} \cup F
           S3 == Q \cup {Status(e)} \cup G \cup F
           S4 == Q \cup {Status(old)} \cup G \cup F
           S5 == Q \cup {Status(old)} \cup G \cup F \cup {SD}
           S6 == Q \cup {Status(old)} \cup F \cup {SD}
           S7 == Q \cup {Status(e)} \cup E \cup {SD}
           S8 == Q \cup {Status(e)} \cup E \cup {SD} \cup {Listing}
           S9 == Kept4 \cup {Status(e)} \cup E \cup {SD, Listing}
           D == 1..4
<1>1. SchemaAfter(4) = S0 /\ SchemaAfter(3) = S9
  BY FourthSchemas
<1>2. Down4 = <<Drop(Listing), Create(F), Drop(SD), Retype(Status(old)), Create({SD}),
                Drop(Type(e)), Rename(old, e), Create({Listing}), Drop(C)>>
  BY DEF Down4, FirstLabels
<1>3. /\ e \in StatusTypes /\ old \in StatusTypes /\ e # old
      /\ FirstLabels \cap StatusTypes = {} /\ Statuses \ {"processed"} \subseteq FirstLabels
      /\ C.in = "orders" /\ C.name = "processed_at" /\ C.kind = "column"
  BY ColumnParted DEF StatusTypes, FirstLabels, Statuses
<1>4. /\ \A p \in G : p.in = e
      /\ \A p \in F : p.in = old
      /\ \A ls \in {FirstLabels, Statuses} : \A p \in Enum(e, ls) : p.name \in {e} \cup ls
      /\ Type(old) \in F
  <2>1. Type(old) \in F
    BY DEF Enum
  <2> QED
    BY <2>1, EnumParted, TypeParted
<1>5. \A o \in Q : Aside(o)
  BY KeptAside
<1>6. \A n \in {"orders", "user_id", "created_at"} : \E p \in Q : p.name = n
  BY KeptAside
<1>7. /\ SD.in = "orders" /\ SD.name = "status"
      /\ \A ty : Status(ty).in = "orders" /\ Status(ty).name = "status"
      /\ Listing.in = "orders" /\ Listing.name = "IX_orders_user_id_status_created_at"
      /\ Listing.uses = {"user_id", "status", "created_at"}
  BY StatusDefaultParted, StatusParted, ListingParted
<1>8. ASSUME NEW p \in SchemaAfter(3)
      PROVE  p # C /\ ~ (p.in = C.in /\ p.name = C.name) /\ "processed_at" \notin p.uses
  <2>1. C \in Added(4) /\ 4 - 1 = 3 /\ 4 \in 2..6
    BY AddedMembers
  <2>2. p \in Entities
    BY <1>8, <2>1, SchemaGrows
  <2> QED
    BY <1>8, <2>1, <2>2, AddedNew, EntityUses
<1> HIDE DEF C, E, F, G, SD, Q
<1>9. Moves(Drop(Listing), At(S0, D), At(S1, D))
  <2>1. \A p \in S1 : p.name # Listing.name
    BY <1>4, <1>5, <1>7 DEF Aside, G, Statuses
  <2>2. \A n \in Listing.uses \cup {"orders"} : \E p \in S1 : p.name = n
    BY <1>6, <1>7
  <2> HIDE DEF S1
  <2> QED
    BY <2>1, <2>2, ListingMoves DEF S1
<1>10. Moves(Create(F), At(S1, D), At(S2, D))
  <2>1. \A p \in S1 : p.in # old
    BY <1>3, <1>4, <1>5, <1>7 DEF Aside
  <2> HIDE DEF S1
  <2> QED
    BY <2>1, EnumMakeable, CreateMoves DEF F, S1
<1>11. /\ Moves(Drop(SD), At(S2, D), At(S3, D))
       /\ Moves(Retype(Status(old)), At(S3, D), At(S4, D))
       /\ Moves(Create({SD}), At(S4, D), At(S5, D))
       /\ Moves(Drop(Type(e)), At(S5, D), At(S6, D))
  <2>1. \E p \in Q : p.name = "orders"
    BY <1>6
  <2>2. Statuses \ {"processed"} \subseteq FirstLabels /\ "processed" \notin FirstLabels
    BY DEF Statuses, FirstLabels
  <2> HIDE DEF D
  <2> QED
    BY <1>3, <1>5, <2>1, <2>2, ConvertMoves DEF F, G, SD
<1>12. Moves(Rename(old, e), At(S6, D), At(S7, D))
  <2>1. Type(old) \in S6
    BY <1>4
  <2>2. Type(e) \notin S6
    <3>1. Type(e).in = e
      BY TypeParted
    <3> QED
      BY <1>3, <1>4, <1>5, <1>7, <3>1 DEF Aside
  <2>3. AllRenamed(S6, old, e) = S7
    BY <1>3, <1>5, RenamedStatus DEF E, F, SD
  <2> HIDE DEF S6, S7
  <2> QED
    BY <2>1, <2>2, <2>3, RenameMoves
<1>13. Moves(Create({Listing}), At(S7, D), At(S8, D))
  <2>1. \A p \in S7 : p.name # Listing.name
    BY <1>4, <1>5, <1>7 DEF Aside, E, FirstLabels
  <2>2. \A n \in Listing.uses \cup {"orders"} : \E p \in S7 : p.name = n
    BY <1>6, <1>7
  <2> HIDE DEF S7
  <2> QED
    BY <2>1, <2>2, ListingMoves DEF S7
<1>14. Moves(Drop(C), At(S8, D), At(S9, D))
  <2>1. S8 = S9 \cup {C}
    BY DEF Q
  <2> HIDE DEF S8, S9
  <2>2. Parts(S8, C) = {C}
    BY <1>1, <1>3, <1>8, <2>1 DEF Parts
  <2>3. ~ InUse(S8, C)
    BY <1>3 DEF InUse
  <2>4. S8 \ {C} = S9 /\ C \in S8
    BY <1>1, <1>8, <2>1
  <2> QED
    BY <2>2, <2>3, <2>4, DropMoves
<1> HIDE DEF S0, S1, S2, S3, S4, S5, S6, S7, S8, S9
<1>15. Leads(Down4, At(S0, D), At(S9, D))
  BY <1>2, <1>9, <1>10, <1>11, <1>12, <1>13, <1>14, NineLead
<1>16. Moves(Forget(4), At(S9, 1..4), At(S9, 1..(4 - 1))) /\ 4 - 1 = 3
  BY RowMoves
<1> QED
  BY <1>1, <1>15, <1>16, AppendLeads DEF Stage

(* Each migration leads to the next schema, and its revert back. *)
LEMMA MigrationLeads ==
    ASSUME NEW n \in 1..6
    PROVE  /\ Leads(Append(Up[n], Record(n)), Stage(n - 1), Stage(n))
           /\ Leads(Append(Down[n], Forget(n)), Stage(n), Stage(n - 1))
<1>1. n = 1 \/ n = 2 \/ n = 3 \/ n = 4 \/ n = 5 \/ n = 6
  OBVIOUS
<1>2. /\ Up[1] = Up1 /\ Up[2] = Up2 /\ Up[3] = Up3
      /\ Up[4] = Up4 /\ Up[5] = Up5 /\ Up[6] = Up6
      /\ Down[1] = Down1 /\ Down[2] = Down2 /\ Down[3] = Down3
      /\ Down[4] = Down4 /\ Down[5] = Down5 /\ Down[6] = Down6
  BY DEF Up, Down
<1>3. 1 - 1 = 0 /\ 2 - 1 = 1 /\ 3 - 1 = 2 /\ 4 - 1 = 3 /\ 5 - 1 = 4 /\ 6 - 1 = 5
  OBVIOUS
<1> QED
  BY <1>1, <1>2, <1>3, Up1Leads, Up2Leads, Up3Leads, Up4Leads, Up5Leads, Up6Leads,
     Down1Leads, Down2Leads, Down3Leads, Down4Leads, Down5Leads, Down6Leads

(* A run of release r leads from the k-th schema to the r-th. *)
LEMMA PlanOfLeads ==
    ASSUME NEW k \in 0..6, NEW r \in 0..6, k < r
    PROVE  Leads(PlanOf(1..r \ 1..k), Stage(k), Stage(r))
<1> DEFINE pending == 1..r \ 1..k
           Of(n) == IF n \in pending THEN Append(Up[n], Record(n)) ELSE <<>>
           c(n) == IF n <= k THEN k ELSE IF n <= r THEN n ELSE r
<1>1. ASSUME NEW n \in 1..6 PROVE Leads(Of(n), Stage(c(n - 1)), Stage(c(n)))
  <2>1. CASE n \in pending
    <3>1. c(n - 1) = n - 1 /\ c(n) = n
      BY <2>1
    <3> QED
      BY <2>1, <3>1, MigrationLeads
  <2>2. CASE n \notin pending
    <3>1. c(n - 1) = c(n)
      BY <2>2
    <3> QED
      BY <2>2, <3>1, NoStatementLeads
  <2> QED
    BY <2>1, <2>2
<1>2. c(0) = k /\ c(6) = r
  OBVIOUS
<1>3. PlanOf(pending) = Of(1) \o Of(2) \o Of(3) \o Of(4) \o Of(5) \o Of(6)
  BY DEF PlanOf
<1>4. 1 - 1 = 0 /\ 2 - 1 = 1 /\ 3 - 1 = 2 /\ 4 - 1 = 3 /\ 5 - 1 = 4 /\ 6 - 1 = 5
  OBVIOUS
<1> HIDE DEF Of, c, pending
<1>5. /\ Leads(Of(1), Stage(c(0)), Stage(c(1))) /\ Leads(Of(2), Stage(c(1)), Stage(c(2)))
      /\ Leads(Of(3), Stage(c(2)), Stage(c(3))) /\ Leads(Of(4), Stage(c(3)), Stage(c(4)))
      /\ Leads(Of(5), Stage(c(4)), Stage(c(5))) /\ Leads(Of(6), Stage(c(5)), Stage(c(6)))
  BY <1>1, <1>4
<1>6. Leads(Of(1) \o Of(2), Stage(c(0)), Stage(c(2)))
  BY <1>5, LeadsOn
<1>7. Leads(Of(1) \o Of(2) \o Of(3), Stage(c(0)), Stage(c(3)))
  BY <1>5, <1>6, LeadsOn
<1>8. Leads(Of(1) \o Of(2) \o Of(3) \o Of(4), Stage(c(0)), Stage(c(4)))
  BY <1>5, <1>7, LeadsOn
<1>9. Leads(Of(1) \o Of(2) \o Of(3) \o Of(4) \o Of(5), Stage(c(0)), Stage(c(5)))
  BY <1>5, <1>8, LeadsOn
<1>10. Leads(Of(1) \o Of(2) \o Of(3) \o Of(4) \o Of(5) \o Of(6), Stage(c(0)), Stage(c(6)))
  BY <1>5, <1>9, LeadsOn
<1> QED
  BY <1>2, <1>3, <1>10 DEF pending

(* Plan p begins with statement s. *)
Opens(p, s) == IsPlan(p) /\ p # <<>> /\ Head(p) = s

LEMMA OpensOn ==
    /\ \A p, q, s : Opens(p, s) /\ IsPlan(q) => Opens(p \o q, s)
    /\ \A q : IsPlan(q) => <<>> \o q = q
<1>1. ASSUME NEW p, NEW q, NEW s, Opens(p, s), IsPlan(q) PROVE Opens(p \o q, s)
  <2>1. PICK S : p \in Seq(S)
    BY <1>1 DEF Opens, IsPlan
  <2>2. PICK T : q \in Seq(T)
    BY <1>1 DEF IsPlan
  <2>3. PICK U : U = S \cup T
    OBVIOUS
  <2>4. p \in Seq(U) /\ q \in Seq(U)
    BY <2>1, <2>2, <2>3, SeqMonotonic
  <2>5. /\ p \o q \in Seq(U) /\ Len(p \o q) = Len(p) + Len(q)
        /\ Len(p) \in Nat \ {0} /\ Len(q) \in Nat
    BY <1>1, <2>4 DEF Opens
  <2>6. (p \o q)[1] = p[1]
    BY <2>4, <2>5
  <2>7. p \o q # <<>> /\ Head(p \o q) = Head(p)
    BY <2>4, <2>5, <2>6
  <2> QED
    BY <1>1, <2>5, <2>7 DEF Opens, IsPlan
<1>2. ASSUME NEW q, IsPlan(q) PROVE <<>> \o q = q
  BY <1>2, ConcatEmptySeq DEF IsPlan
<1> QED
  BY <1>1, <1>2

LEMMA OpensAppend ==
    ASSUME NEW p, NEW s, NEW x, Opens(p, s)
    PROVE  Opens(Append(p, x), s)
<1>1. PICK S : p \in Seq(S)
  BY DEF Opens, IsPlan
<1>2. PICK U : U = S \cup {x}
  OBVIOUS
<1>3. p \in Seq(U) /\ x \in U
  BY <1>1, <1>2, SeqMonotonic
<1>4. Append(p, x) \in Seq(U) /\ Append(p, x) # <<>> /\ Head(Append(p, x)) = Head(p)
  BY <1>3 DEF Opens
<1> QED
  BY <1>4 DEF Opens, IsPlan

(* The objects that the first statement of a migration creates, and one that
   is in every schema from then on *)
FirstObjects(n) ==
    CASE n = 1 -> Enum("users_role_enum", {"user", "admin"})
      [] n = 2 -> {Column("orders", "idempotency_key")}
      [] n = 3 -> {Listing}
      [] n = 4 -> {Column("orders", "processed_at")}
      [] n = 5 -> TMessages
      [] n = 6 -> Required("users", {"password"})

LEMMA FirstStatements ==
    ASSUME NEW n \in 1..6
    PROVE  /\ Opens(Append(Up[n], Record(n)), Create(FirstObjects(n)))
           /\ \E o \in FirstObjects(n) : o \in SchemaAfter(n)
<1>1. n = 1 \/ n = 2 \/ n = 3 \/ n = 4 \/ n = 5 \/ n = 6
  OBVIOUS
<1>2. /\ FirstObjects(1) = Enum("users_role_enum", {"user", "admin"})
      /\ FirstObjects(2) = {Column("orders", "idempotency_key")}
      /\ FirstObjects(3) = {Listing}
      /\ FirstObjects(4) = {Column("orders", "processed_at")}
      /\ FirstObjects(5) = TMessages
      /\ FirstObjects(6) = Required("users", {"password"})
  BY DEF FirstObjects
<1>3. /\ Up[1] = Up1 /\ Up[2] = Up2 /\ Up[3] = Up3
      /\ Up[4] = Up4 /\ Up[5] = Up5 /\ Up[6] = Up6
  BY DEF Up
<1>4. \A m \in 1..6 : IsPlan(Up[m])
  <2>1. \A p : UpPlan(p) => IsPlan(p)
    BY DEF UpPlan, IsPlan
  <2>2. ASSUME NEW m \in 1..6 PROVE IsPlan(Up[m])
    <3>1. m = 1 \/ m = 2 \/ m = 3 \/ m = 4 \/ m = 5 \/ m = 6
      OBVIOUS
    <3> QED
      BY <1>3, <2>1, <3>1, Up1Plan, Up4Plan, OtherUpPlans
  <2> QED
    BY <2>2
<1>5. /\ \A a : <<a>> # <<>> /\ Head(<<a>>) = a
      /\ \A a, b, c, d : <<a, b, c, d>> # <<>> /\ Head(<<a, b, c, d>>) = a
      /\ \A a, b, c, d, e, f, g, h, i :
            <<a, b, c, d, e, f, g, h, i>> # <<>> /\ Head(<<a, b, c, d, e, f, g, h, i>>) = a
      /\ \A a, b, c, d, e, f, g, h, i, j :
            <<a, b, c, d, e, f, g, h, i, j>> # <<>> /\ Head(<<a, b, c, d, e, f, g, h, i, j>>) = a
  OBVIOUS
<1>6. Up[1] # <<>> /\ Head(Up[1]) = Create(FirstObjects(1))
  BY <1>2, <1>3, <1>5 DEF Up1
<1>7. Up[2] # <<>> /\ Head(Up[2]) = Create(FirstObjects(2))
  BY <1>2, <1>3, <1>5 DEF Up2
<1>8. Up[3] # <<>> /\ Head(Up[3]) = Create(FirstObjects(3))
  BY <1>2, <1>3, <1>5 DEF Up3
<1>9. Up[4] # <<>> /\ Head(Up[4]) = Create(FirstObjects(4))
  BY <1>2, <1>3, <1>5 DEF Up4
<1>10. Up[5] # <<>> /\ Head(Up[5]) = Create(FirstObjects(5))
  BY <1>2, <1>3, <1>5 DEF Up5
<1>11. Up[6] # <<>> /\ Head(Up[6]) = Create(FirstObjects(6))
  BY <1>2, <1>3, <1>5 DEF Up6
<1>12. Opens(Up[n], Create(FirstObjects(n)))
  <2>1. Up[n] # <<>> /\ Head(Up[n]) = Create(FirstObjects(n))
    BY <1>1, <1>6, <1>7, <1>8, <1>9, <1>10, <1>11
  <2> QED
    BY <1>4, <2>1 DEF Opens
<1>13. \E o \in FirstObjects(n) : o \in SchemaAfter(n)
  <2>1. Type("users_role_enum") \in FirstObjects(1) /\ Type("users_role_enum") \in SchemaAfter(1)
    BY <1>2, FirstHas, SchemaGrows DEF Enum
  <2>2. /\ Column("orders", "idempotency_key") \in Added(2) \cap FirstObjects(2)
        /\ Listing \in Added(3) \cap FirstObjects(3)
        /\ Column("orders", "processed_at") \in Added(4) \cap FirstObjects(4)
        /\ Table("processed_messages") \in Added(5) \cap FirstObjects(5)
        /\ Column("users", "password") \in Added(6) \cap FirstObjects(6)
    BY <1>2, AddedMembers DEF TMessages, Required
  <2>3. \A m \in 2..6 : Added(m) \subseteq SchemaAfter(m)
    BY SchemaGrows
  <2>4. /\ Added(2) \subseteq SchemaAfter(2) /\ Added(3) \subseteq SchemaAfter(3)
        /\ Added(4) \subseteq SchemaAfter(4) /\ Added(5) \subseteq SchemaAfter(5)
        /\ Added(6) \subseteq SchemaAfter(6)
    BY <2>3
  <2> QED
    BY <1>1, <2>1, <2>2, <2>4
<1> QED
  BY <1>12, <1>13, OpensAppend

(* The plan of a run begins with the first migration it found pending. *)
LEMMA PlanOfOpens ==
    ASSUME NEW k \in 0..6, NEW r \in 0..6, k < r
    PROVE  Opens(PlanOf(1..r \ 1..k), Create(FirstObjects(k + 1)))
<1> DEFINE pending == 1..r \ 1..k
           Of(n) == IF n \in pending THEN Append(Up[n], Record(n)) ELSE <<>>
           s == Create(FirstObjects(k + 1))
           Begun(n, p) == (n <= k => p = <<>>) /\ (n > k => Opens(p, s))
<1>1. IsPlan(<<>>)
  BY NoStatementLeads DEF Leads
<1>2. ASSUME NEW n \in 1..6
      PROVE  /\ IsPlan(Of(n))
             /\ n <= k => Of(n) = <<>>
             /\ n = k + 1 => Opens(Of(n), s)
  <2>1. IsPlan(Of(n))
    BY <1>1, MigrationLeads DEF Leads
  <2>2. n <= k => Of(n) = <<>>
    OBVIOUS
  <2>3. n = k + 1 => n \in pending
    OBVIOUS
  <2> QED
    BY <2>1, <2>2, <2>3, FirstStatements
<1> HIDE DEF Of, pending, s
<1>3. ASSUME NEW n \in 1..5, NEW p, Begun(n, p) PROVE Begun(n + 1, p \o Of(n + 1))
  <2>1. IsPlan(Of(n + 1)) /\ (n + 1 <= k => Of(n + 1) = <<>>) /\ (n + 1 = k + 1 => Opens(Of(n + 1), s))
    BY <1>2
  <2>2. CASE n <= k
    <3>1. p = <<>> /\ p \o Of(n + 1) = Of(n + 1)
      BY <1>3, <2>1, <2>2, OpensOn
    <3>2. n + 1 > k <=> n + 1 = k + 1
      BY <2>2
    <3> QED
      BY <2>1, <3>1, <3>2
  <2>3. CASE n > k
    BY <1>3, <2>1, <2>3, OpensOn
  <2> QED
    BY <2>2, <2>3
<1>4. Begun(1, Of(1))
  <2>1. 1 <= k \/ 1 = k + 1
    OBVIOUS
  <2> QED
    BY <1>2, <2>1
<1> HIDE DEF Begun
<1>5. 1 + 1 = 2 /\ 2 + 1 = 3 /\ 3 + 1 = 4 /\ 4 + 1 = 5 /\ 5 + 1 = 6
  OBVIOUS
<1>6. Begun(2, Of(1) \o Of(2))
  BY <1>3, <1>4, <1>5
<1>7. Begun(3, Of(1) \o Of(2) \o Of(3))
  BY <1>3, <1>5, <1>6
<1>8. Begun(4, Of(1) \o Of(2) \o Of(3) \o Of(4))
  BY <1>3, <1>5, <1>7
<1>9. Begun(5, Of(1) \o Of(2) \o Of(3) \o Of(4) \o Of(5))
  BY <1>3, <1>5, <1>8
<1>10. Begun(6, Of(1) \o Of(2) \o Of(3) \o Of(4) \o Of(5) \o Of(6))
  BY <1>3, <1>5, <1>9
<1>11. PlanOf(pending) = Of(1) \o Of(2) \o Of(3) \o Of(4) \o Of(5) \o Of(6)
  BY DEF PlanOf, Of
<1>12. 6 > k
  OBVIOUS
<1>13. Opens(PlanOf(pending), s)
  BY <1>10, <1>11, <1>12 DEF Begun
<1> QED
  BY <1>13 DEF pending, s

(* A run that another run has overtaken is refused at its first statement:
   what that creates is there already. *)
LEMMA OvertakenRefused ==
    ASSUME NEW k \in 0..6, NEW r \in 0..6, k < r, NEW m \in 0..6, k < m,
           NEW d, d.schema = SchemaAfter(m)
    PROVE  LET p == PlanOf(1..r \ 1..k)
           IN  p # <<>> /\ Refused(Head(p), d)
<1> DEFINE p == PlanOf(1..r \ 1..k)
           s == Create(FirstObjects(k + 1))
<1>1. p # <<>> /\ Head(p) = s
  BY PlanOfOpens DEF Opens
<1>2. k + 1 \in 1..6 /\ k + 1 <= m
  OBVIOUS
<1>3. PICK o \in FirstObjects(k + 1) : o \in SchemaAfter(k + 1)
  BY <1>2, FirstStatements
<1>4. o \in d.schema
  BY <1>2, <1>3, SchemaMonotonic
<1>5. Named(d.schema, o.kind, o.in, o.name) # {}
  BY <1>4 DEF Named
<1>6. s.op = "create" /\ s.what = FirstObjects(k + 1)
  BY DEF Create
<1> HIDE DEF p, s
<1>7. Refused(s, d)
  BY <1>3, <1>5, <1>6 DEF Refused
<1> QED
  BY <1>1, <1>7 DEF p

-----------------------------------------------------------------------------
(* The invariant of the history: a job has loaded the migrations that are
   pending, or the last one to revert, and the rest of its plan leads from
   what it sees to the schema of a release; but a run that another has
   overtaken has done nothing and is about to be refused. *)

Now(d) == At(d.schema, d.done)

RunOf(b) ==
    /\ b.kind = "run"
    /\ \E k, r \in 0..6 : k < r /\ b.from = 1..k /\ b.plan = PlanOf(1..r \ 1..k)

RevertOf(b) ==
    /\ b.kind = "revert"
    /\ \E n \in 1..6 : b.from = 1..n /\ b.plan = Append(Down[n], Forget(n))

Active(b) == b.step \in {"loaded", "running"}

(* Jobs beside one another are runs. *)
Exclusive ==
    \A i, j \in Jobs : i # j /\ Active(job[i]) /\ Active(job[j]) => job[i].kind = "run" /\ job[j].kind = "run"

Loaded ==
    \A j \in Jobs : job[j].step = "loaded" =>
        \/ RunOf(job[j]) /\ job[j].from \subseteq db.done
        \/ RevertOf(job[j]) /\ job[j].from = db.done

(* A job that sees w while d is committed *)
Overtaken(b, d, w) ==
    /\ RunOf(b) /\ b.from \subseteq d.done /\ b.from # d.done
    /\ Now(w) = Now(d)

(* The release a job is bound for *)
Bound(b, m) ==
    /\ b.kind = "run" => b.from \subseteq 1..m
    /\ b.kind = "revert" => b.from = 1..(m + 1)

UpToDate(b, d, w) ==
    /\ b.from = d.done
    /\ \E m \in 0..6 : Leads(b.plan, Now(w), Stage(m)) /\ Bound(b, m)

OnItsWay == \A j \in Jobs : job[j].step = "running" => Overtaken(job[j], db, work) \/ UpToDate(job[j], db, work)

HInv == SchemaFitsHistory /\ Exclusive /\ Loaded /\ OnItsWay

LEMMA NowIs ==
    ASSUME NEW d, NEW k
    PROVE  Now(d) = Stage(k) <=> d.schema = SchemaAfter(k) /\ d.done = 1..k
BY DEF Now, Stage, At

LEMMA SameHistory == \A k, m \in 0..6 : (1..k = 1..m => k = m) /\ (1..k \subseteq 1..m => k <= m)
<1>1. ASSUME NEW k \in 0..6, NEW m \in 0..6, 1..k \subseteq 1..m PROVE k <= m
  <2>1. k = 0 \/ k \in 1..k
    OBVIOUS
  <2> QED
    BY <1>1, <2>1
<1> QED
  BY <1>1

LEMMA OvertakenJob ==
    ASSUME SchemaFitsHistory, NEW b, Overtaken(b, db, work)
    PROVE  b.plan # <<>> /\ Refused(Head(b.plan), work)
<1>1. PICK k \in 0..6, r \in 0..6 : k < r /\ b.from = 1..k /\ b.plan = PlanOf(1..r \ 1..k)
  BY DEF Overtaken, RunOf
<1>2. PICK m \in 0..6 : db.done = 1..m /\ db.schema = SchemaAfter(m)
  BY DEF SchemaFitsHistory
<1>3. k < m
  BY <1>1, <1>2, SameHistory DEF Overtaken
<1>4. work.schema = SchemaAfter(m)
  BY <1>2 DEF Overtaken, Now, At
<1> QED
  BY <1>1, <1>3, <1>4, OvertakenRefused

(* No job becomes active. *)
LEMMA ExclusiveKept ==
    ASSUME Exclusive,
           \A i \in Jobs : Active(job'[i]) => Active(job[i]) /\ job'[i].kind = job[i].kind
    PROVE  Exclusive'
BY DEF Exclusive

LEMMA InitHInv == Init => HInv
<1> SUFFICES ASSUME Init PROVE HInv
  OBVIOUS
<1>1. SchemaFitsHistory
  <2>1. db.done = 1..0 /\ db.schema = SchemaAfter(0)
    BY DEF Init, Empty, SchemaAfter
  <2> QED
    BY <2>1 DEF SchemaFitsHistory
<1>2. \A j \in Jobs : job[j].step = "none"
  BY DEF Init, NoJob
<1> QED
  BY <1>1, <1>2 DEF HInv, Exclusive, Loaded, OnItsWay, Active

(* Only the rows are written, or nothing is. *)
LEMMA WrittenHInv ==
    ASSUME HInv, db'.schema = db.schema, db'.done = db.done,
           work'.schema = work.schema, work'.done = work.done, job' = job
    PROVE  HInv'
<1>1. SchemaFitsHistory' /\ Exclusive' /\ Loaded'
  BY DEF HInv, SchemaFitsHistory, Exclusive, Loaded
<1>2. Now(db') = Now(db) /\ Now(work') = Now(work)
  BY DEF Now
<1>3. OnItsWay'
  BY <1>2 DEF HInv, OnItsWay, Overtaken, UpToDate
<1> QED
  BY <1>1, <1>3 DEF HInv

(* A job is refused or dies. *)
LEMMA RolledBackHInv ==
    ASSUME IInv, HInv, NEW j \in Jobs, NEW step \in Ended, job[j].step = "running",
           job' = [job EXCEPT ![j] = [NoJob EXCEPT !.step = step]], db' = db
    PROVE  HInv'
<1>1. [NoJob EXCEPT !.step = step].step = step /\ step \notin {"loaded", "running"}
  BY DEF NoJob, Ended
<1>2. job'[j].step = step /\ \A i \in Jobs \ {j} : job'[i] = job[i]
  BY <1>1 DEF IInv, Typed
<1>3. \A i \in Jobs : job'[i].step # "running"
  BY <1>1, <1>2 DEF IInv, Alone
<1>4. SchemaFitsHistory'
  BY DEF HInv, SchemaFitsHistory
<1>5. Exclusive'
  <2>1. \A i \in Jobs : Active(job'[i]) => job'[i] = job[i]
    BY <1>1, <1>2 DEF Active
  <2> QED
    BY <2>1, ExclusiveKept DEF HInv
<1>6. Loaded'
  BY <1>1, <1>2 DEF HInv, Loaded
<1>7. OnItsWay'
  BY <1>3 DEF OnItsWay
<1> QED
  BY <1>4, <1>5, <1>6, <1>7 DEF HInv

LEMMA StartHInv ==
    ASSUME IInv, HInv, NEW j \in Jobs, NEW kind, NEW plan, Start(j, kind, plan),
           LET b == [step |-> "loaded", kind |-> kind, plan |-> plan, from |-> db.done]
           IN  RunOf(b) \/ RevertOf(b)
    PROVE  HInv'
<1> DEFINE b == [step |-> "loaded", kind |-> kind, plan |-> plan, from |-> db.done]
<1>1. b.step = "loaded" /\ b.from = db.done /\ b.kind = kind /\ (RunOf(b) \/ RevertOf(b))
  OBVIOUS
<1>2. /\ job'[j] = b /\ \A i \in Jobs \ {j} : job'[i] = job[i]
      /\ job[j].step \in Ended /\ db' = db /\ work' = work
      /\ \A i \in Jobs : job[i].step \notin Ended => job[i].kind = "run" /\ kind = "run"
  BY DEF IInv, Typed, Start
<1> HIDE DEF b
<1>3. "loaded" \notin Ended /\ "running" \notin Ended
  BY DEF Ended
<1>4. SchemaFitsHistory'
  BY <1>2 DEF HInv, SchemaFitsHistory
<1>5. Exclusive'
  <2> SUFFICES ASSUME NEW h \in Jobs, NEW i \in Jobs, h # i, Active(job'[h]), Active(job'[i])
               PROVE  job'[h].kind = "run"
    BY DEF Exclusive
  <2>1. ASSUME NEW m \in Jobs \ {j}, Active(job'[m]) PROVE job'[m] = job[m] /\ job[m].step \notin Ended
    BY <1>2, <1>3, <2>1 DEF Active
  <2>2. CASE h = j
    <3>1. i # j /\ job[i].step \notin Ended
      BY <2>1, <2>2
    <3> QED
      BY <1>1, <1>2, <2>2, <3>1
  <2>3. CASE h # j
    <3>1. h \in Jobs \ {j}
      BY <2>3
    <3>2. job'[h] = job[h] /\ job[h].step \notin Ended
      BY <2>1, <3>1
    <3>3. CASE i = j
      BY <1>2, <3>2
    <3>4. CASE i # j
      <4>1. job'[i] = job[i]
        BY <2>1, <3>4
      <4> QED
        BY <3>2, <4>1 DEF HInv, Exclusive
    <3> QED
      BY <3>3, <3>4
  <2> QED
    BY <2>2, <2>3
<1>6. Loaded'
  BY <1>1, <1>2 DEF HInv, Loaded
<1>7. OnItsWay'
  <2>1. \A i \in Jobs : job'[i].step = "running" => job'[i] = job[i]
    BY <1>1, <1>2
  <2>2. Now(db') = Now(db) /\ Now(work') = Now(work)
    BY <1>2 DEF Now
  <2> QED
    BY <1>2, <2>1, <2>2 DEF HInv, OnItsWay, Overtaken, UpToDate
<1> QED
  BY <1>4, <1>5, <1>6, <1>7 DEF HInv

LEMMA LoadHInv ==
    ASSUME IInv, HInv, NEW j \in Jobs, (\E r \in Releases : LoadRun(j, r)) \/ LoadRevert(j)
    PROVE  HInv'
<1>1. PICK k \in 0..6 : db.done = 1..k
  BY DEF HInv, SchemaFitsHistory
<1>2. ASSUME NEW r \in Releases, LoadRun(j, r) PROVE HInv'
  <2>1. r \in 0..6
    BY MigrationsAssumption
  <2>2. 1..r \ 1..k # {} /\ Start(j, "run", PlanOf(1..r \ 1..k))
    BY <1>1, <1>2 DEF LoadRun
  <2>3. k < r
    BY <2>1, <2>2
  <2>4. RunOf([step |-> "loaded", kind |-> "run", plan |-> PlanOf(1..r \ 1..k), from |-> db.done])
    BY <1>1, <2>1, <2>3 DEF RunOf
  <2> QED
    BY <2>2, <2>4, StartHInv
<1>3. ASSUME LoadRevert(j) PROVE HInv'
  <2>1. PICK n \in db.done : (\A m \in db.done : m <= n) /\ Start(j, "revert", Append(Down[n], Forget(n)))
    BY <1>3 DEF LoadRevert
  <2>2. n = k /\ n \in 1..6
    <3>1. n \in 1..k /\ k \in 1..k
      BY <1>1, <2>1
    <3>2. k <= n
      BY <1>1, <2>1, <3>1
    <3> QED
      BY <3>1, <3>2
  <2>3. RevertOf([step |-> "loaded", kind |-> "revert", plan |-> Append(Down[n], Forget(n)), from |-> db.done])
    BY <1>1, <2>2 DEF RevertOf
  <2> QED
    BY <2>1, <2>3, StartHInv
<1> QED
  BY <1>2, <1>3

LEMMA BeginHInv == ASSUME IInv, HInv, NEW j \in Jobs, Begin(j) PROVE HInv'
<1> DEFINE b == job[j]
           c == job'[j]
<1>1. /\ b.step = "loaded" /\ work = db
      /\ db' = db /\ work' = work
      /\ c = [b EXCEPT !.step = "running"]
      /\ \A i \in Jobs \ {j} : job'[i] = job[i]
      /\ \A i \in Jobs : job[i].step # "running"
  BY DEF Begin, Running, IInv, Typed, Alone
<1>2. c.step = "running" /\ c.kind = b.kind /\ c.plan = b.plan /\ c.from = b.from
  <2>1. IsJob(b)
    BY DEF IInv, Typed
  <2> QED
    BY <1>1, <2>1 DEF IsJob
<1>3. PICK k \in 0..6 : db.done = 1..k /\ db.schema = SchemaAfter(k)
  BY DEF HInv, SchemaFitsHistory
<1>4. Now(work) = Stage(k) /\ Now(db) = Now(work)
  BY <1>1, <1>3, NowIs DEF Now
<1>5. Now(db') = Now(db) /\ Now(work') = Now(work)
  BY <1>1 DEF Now
<1>6. \/ RunOf(b) /\ b.from \subseteq db.done
      \/ RevertOf(b) /\ b.from = db.done
  BY <1>1 DEF HInv, Loaded
<1> HIDE DEF b, c
<1>7. SchemaFitsHistory'
  BY <1>1 DEF HInv, SchemaFitsHistory
<1>8. Exclusive'
  <2>1. \A i \in Jobs : (Active(job'[i]) <=> Active(job[i])) /\ job'[i].kind = job[i].kind
    BY <1>1, <1>2 DEF Active, b, c
  <2> QED
    BY <2>1, ExclusiveKept DEF HInv
<1>9. Loaded'
  BY <1>1, <1>2 DEF HInv, Loaded, b, c
<1>10. Overtaken(c, db', work') \/ UpToDate(c, db', work')
  <2>1. CASE RunOf(b) /\ b.from \subseteq db.done /\ b.from # db.done
    <3>1. RunOf(c)
      BY <1>2, <2>1 DEF RunOf
    <3> QED
      BY <1>1, <1>2, <1>4, <1>5, <2>1, <3>1 DEF Overtaken, RunOf, c
  <2>2. CASE RunOf(b) /\ b.from = db.done
    <3>1. PICK i \in 0..6, r \in 0..6 : i < r /\ b.from = 1..i /\ b.plan = PlanOf(1..r \ 1..i)
      BY <2>2 DEF RunOf
    <3>2. i = k
      BY <1>3, <2>2, <3>1, SameHistory
    <3>3. Leads(b.plan, Now(work), Stage(r))
      <4>1. Leads(PlanOf(1..r \ 1..i), Stage(i), Stage(r))
        BY <3>1, PlanOfLeads
      <4> QED
        BY <1>4, <3>1, <3>2, <4>1
    <3>4. Bound(c, r)
      BY <1>2, <2>2, <3>1 DEF Bound, RunOf, c
    <3> QED
      BY <1>1, <1>2, <1>5, <2>2, <3>3, <3>4 DEF UpToDate, c
  <2>3. CASE RevertOf(b) /\ b.from = db.done
    <3>1. PICK n \in 1..6 : b.from = 1..n /\ b.plan = Append(Down[n], Forget(n))
      BY <2>3 DEF RevertOf
    <3>2. n = k
      BY <1>3, <2>3, <3>1, SameHistory
    <3>3. Leads(b.plan, Now(work), Stage(n - 1)) /\ n - 1 \in 0..6
      BY <1>4, <3>1, <3>2, MigrationLeads
    <3>4. Bound(c, n - 1)
      BY <1>2, <2>3, <3>1 DEF Bound, RevertOf, c
    <3> QED
      BY <1>1, <1>2, <1>5, <2>3, <3>3, <3>4 DEF UpToDate, c
  <2> QED
    BY <1>6, <2>1, <2>2, <2>3
<1>11. OnItsWay'
  <2>1. \A i \in Jobs : job'[i].step = "running" => i = j
    BY <1>1
  <2> QED
    BY <1>10, <2>1 DEF OnItsWay, c
<1> QED
  BY <1>7, <1>8, <1>9, <1>11 DEF HInv

LEMMA ExecuteHInv == ASSUME IInv, HInv, NEW j \in Jobs, Execute(j) PROVE HInv'
<1> DEFINE b == job[j]
           c == job'[j]
           s == Statement(j)
<1>1. /\ b.step = "running" /\ b.plan # <<>> /\ s = Head(b.plan)
      /\ ~ Refused(s, work) /\ work' = Executed(s, work) /\ db' = db
      /\ c = [b EXCEPT !.plan = Tail(@)]
      /\ \A i \in Jobs \ {j} : job'[i] = job[i]
      /\ \A i \in Jobs \ {j} : job[i].step # "running"
  BY DEF Execute, Statement, IInv, Typed, Alone
<1>2. IsJob(b) /\ IsDatabase(work)
  BY DEF IInv, Typed
<1>3. c.step = "running" /\ c.kind = b.kind /\ c.plan = Tail(b.plan) /\ c.from = b.from
  BY <1>1, <1>2 DEF IsJob
<1>4. UpStep(s) \/ DownStep(s)
  BY <1>1, <1>2, PlanSteps DEF IsJob
<1>5. Overtaken(b, db, work) \/ UpToDate(b, db, work)
  BY <1>1 DEF HInv, OnItsWay
<1> HIDE DEF b, c, s
<1>6. SchemaFitsHistory'
  BY <1>1 DEF HInv, SchemaFitsHistory
<1>7. Exclusive'
  <2>1. \A i \in Jobs : (Active(job'[i]) <=> Active(job[i])) /\ job'[i].kind = job[i].kind
    BY <1>1, <1>3 DEF Active, b, c
  <2> QED
    BY <2>1, ExclusiveKept DEF HInv
<1>8. Loaded'
  BY <1>1, <1>3 DEF HInv, Loaded, b, c
<1>9. UpToDate(b, db, work)
  BY <1>1, <1>5, OvertakenJob DEF HInv
<1>10. UpToDate(c, db', work')
  <2>1. PICK m \in 0..6 : Leads(b.plan, Now(work), Stage(m)) /\ Bound(b, m)
    BY <1>9 DEF UpToDate
  <2>2. PICK z : Moves(s, Now(work), z) /\ Leads(Tail(b.plan), z, Stage(m))
    BY <1>1, <2>1, LeadsByHead
  <2>3. z = At(After(s, work.schema), DoneAfter(s, work.done))
    BY <2>2 DEF Moves, Now, At
  <2>4. Now(work') = z
    BY <1>1, <1>2, <1>4, <2>3, ExecutedStage DEF Now
  <2>5. Bound(c, m)
    BY <1>3, <2>1 DEF Bound, c
  <2> QED
    BY <1>1, <1>3, <1>9, <2>2, <2>4, <2>5 DEF UpToDate, c
<1>11. OnItsWay'
  <2>1. \A i \in Jobs : job'[i].step = "running" => i = j
    BY <1>1
  <2> QED
    BY <1>10, <2>1 DEF OnItsWay, c
<1> QED
  BY <1>6, <1>7, <1>8, <1>11 DEF HInv

LEMMA CommitHInv == ASSUME IInv, HInv, NEW j \in Jobs, Commit(j) PROVE HInv'
<1> DEFINE b == job[j]
<1>1. /\ b.step = "running" /\ b.plan = <<>> /\ db' = work /\ work' = work
      /\ job'[j] = [NoJob EXCEPT !.step = "committed"]
      /\ \A i \in Jobs \ {j} : job'[i] = job[i]
      /\ \A i \in Jobs \ {j} : job[i].step # "running"
  BY DEF Commit, IInv, Typed, Alone
<1>2. [NoJob EXCEPT !.step = "committed"].step = "committed"
  BY DEF NoJob
<1>3. Overtaken(b, db, work) \/ UpToDate(b, db, work)
  BY <1>1 DEF HInv, OnItsWay
<1> HIDE DEF b
<1>4. UpToDate(b, db, work)
  BY <1>1, <1>3, OvertakenJob DEF HInv
<1>5. PICK m \in 0..6 : Leads(b.plan, Now(work), Stage(m)) /\ Bound(b, m)
  BY <1>4 DEF UpToDate
<1>6. Now(work) = Stage(m)
  BY <1>1, <1>5, NoStatementLeads
<1>7. db'.done = 1..m /\ db'.schema = SchemaAfter(m)
  BY <1>1, <1>6, NowIs
<1>8. SchemaFitsHistory'
  BY <1>7 DEF SchemaFitsHistory
<1>9. Exclusive'
  <2>1. \A i \in Jobs : Active(job'[i]) => job'[i] = job[i]
    BY <1>1, <1>2 DEF Active
  <2> QED
    BY <2>1, ExclusiveKept DEF HInv
<1>10. Loaded'
  <2> SUFFICES ASSUME NEW i \in Jobs, job'[i].step = "loaded"
               PROVE  RunOf(job'[i]) /\ job'[i].from \subseteq db'.done
    BY DEF Loaded
  <2>1. i # j /\ job'[i] = job[i]
    BY <1>1, <1>2
  <2>2. job[i].kind = "run" /\ b.kind = "run"
    BY <1>1, <2>1 DEF HInv, Exclusive, Active, b
  <2>3. RunOf(job[i]) /\ job[i].from \subseteq db.done
    BY <2>1, <2>2 DEF HInv, Loaded, RevertOf
  <2> QED
    BY <1>4, <1>5, <1>7, <2>1, <2>2, <2>3 DEF UpToDate, Bound
<1>11. OnItsWay'
  BY <1>1, <1>2 DEF OnItsWay
<1> QED
  BY <1>8, <1>9, <1>10, <1>11 DEF HInv

(* The API writes rows only. *)
LEMMA WritesRows ==
    ASSUME NEW d, IsDatabase(d)
    PROVE  /\ \A u : WithUser(d, u).schema = d.schema /\ WithUser(d, u).done = d.done
           /\ \A o : WithOrder(d, o).schema = d.schema /\ WithOrder(d, o).done = d.done
           /\ \A o, label : WithStatus(d, o, label).schema = d.schema /\ WithStatus(d, o, label).done = d.done
<1>1. d \in [schema : {d.schema}, users : {d.users}, passwords : {d.passwords},
             status : {d.status}, keys : {d.keys}, done : {d.done}]
  BY DEF IsDatabase
<1>2. ASSUME NEW u PROVE WithUser(d, u).schema = d.schema /\ WithUser(d, u).done = d.done
  <2>1. PICK users, passwords : WithUser(d, u) = [d EXCEPT !.users = users, !.passwords = passwords]
    BY <1>1 DEF WithUser
  <2> QED
    BY <1>1, <2>1
<1>3. ASSUME NEW o PROVE WithOrder(d, o).schema = d.schema /\ WithOrder(d, o).done = d.done
  <2>1. PICK status, keys : WithOrder(d, o) = [d EXCEPT !.status = status, !.keys = keys]
    BY <1>1 DEF WithOrder
  <2> QED
    BY <1>1, <2>1
<1>4. ASSUME NEW o, NEW label PROVE WithStatus(d, o, label).schema = d.schema /\ WithStatus(d, o, label).done = d.done
  <2>1. PICK status : WithStatus(d, o, label) = [d EXCEPT !.status = status]
    BY <1>1 DEF WithStatus
  <2> QED
    BY <1>1, <2>1
<1> QED
  BY <1>2, <1>3, <1>4

LEMMA NextHInv == IInv /\ HInv /\ [Next]_vars => HInv'
<1> SUFFICES ASSUME IInv, HInv, [Next]_vars PROVE HInv'
  OBVIOUS
<1>1. ASSUME NEW j \in Jobs, (\E r \in Releases : LoadRun(j, r)) \/ LoadRevert(j) PROVE HInv'
  BY <1>1, LoadHInv
<1>2. ASSUME NEW j \in Jobs, Begin(j) PROVE HInv'
  BY <1>2, BeginHInv
<1>3. ASSUME NEW j \in Jobs, Execute(j) PROVE HInv'
  BY <1>3, ExecuteHInv
<1>4. ASSUME NEW j \in Jobs, Refuse(j) PROVE HInv'
  <2>1. /\ job[j].step = "running" /\ "refused" \in Ended /\ db' = db
        /\ job' = [job EXCEPT ![j] = [NoJob EXCEPT !.step = "refused"]]
    BY <1>4 DEF Refuse, Rollback, Ended
  <2> QED
    BY <2>1, RolledBackHInv
<1>5. ASSUME NEW j \in Jobs, Commit(j) PROVE HInv'
  BY <1>5, CommitHInv
<1>6. ASSUME NEW j \in Jobs, Die(j) PROVE HInv'
  <2>1. /\ job[j].step = "running" /\ "died" \in Ended /\ db' = db
        /\ job' = [job EXCEPT ![j] = [NoJob EXCEPT !.step = "died"]]
    BY <1>6 DEF Die, Rollback, Ended
  <2> QED
    BY <2>1, RolledBackHInv
<1>7. IsDatabase(db) /\ IsDatabase(work)
  BY DEF IInv, Typed
<1>8. ASSUME NEW u \in Users, SignUp(u) PROVE HInv'
  <2>1. db' = WithUser(db, u) /\ work' = WithUser(work, u) /\ job' = job
    BY <1>8 DEF SignUp, Writable
  <2> QED
    BY <1>7, <2>1, WritesRows, WrittenHInv
<1>9. ASSUME NEW o \in Orders, PlaceOrder(o) PROVE HInv'
  <2>1. db' = WithOrder(db, o) /\ work' = WithOrder(work, o) /\ job' = job
    BY <1>9 DEF PlaceOrder, Writable
  <2> QED
    BY <1>7, <2>1, WritesRows, WrittenHInv
<1>10. ASSUME NEW o \in Orders, ProcessOrder(o) \/ PayOrder(o) PROVE HInv'
  <2>1. PICK label : Settle(o, label)
    BY <1>10 DEF ProcessOrder, PayOrder
  <2>2. db' = WithStatus(db, o, label) /\ work' = WithStatus(work, o, label) /\ job' = job
    BY <2>1 DEF Settle, Writable
  <2> QED
    BY <1>7, <2>2, WritesRows, WrittenHInv
<1>11. CASE Quiet \/ UNCHANGED vars
  <2>1. db' = db /\ work' = work /\ job' = job
    BY <1>11 DEF Quiet, vars
  <2> QED
    BY <2>1, WrittenHInv
<1> QED
  BY <1>1, <1>2, <1>3, <1>4, <1>5, <1>6, <1>8, <1>9, <1>10, <1>11 DEF Next

(* Whatever jobs ran, failed, died or were reverted, in whatever order, the
   executed migrations are the first k and the schema is the one the entities
   expect less what the later ones add: each up leads from a schema to the
   next and each down back, and a run that another has overtaken is refused
   at its first statement (the up and down methods of the six migration
   files, run by TypeORM in one transaction). *)
THEOREM MigrationsFitHistory == Spec => []SchemaFitsHistory
<1>1. HInv => SchemaFitsHistory
  BY DEF HInv
<1> QED
  BY <1>1, MigrationsInvariant, InitHInv, NextHInv, PTL DEF Spec

-----------------------------------------------------------------------------
(* The rows: what was written under an earlier schema fits the later ones. *)

Password == NotNull("users", "password")
Key == NotNull("orders", "idempotency_key")

(* The columns and labels that the API writes, by the number of migrations *)
LEMMA WrittenObjects ==
    ASSUME NEW k \in 0..6
    PROVE  /\ Password \in SchemaAfter(k) <=> k = 6
           /\ Stands(SchemaAfter(k), "passwords") <=> k = 6
           /\ Key \in SchemaAfter(k) <=> k >= 2
           /\ Stands(SchemaAfter(k), "keys") <=> k >= 2
           /\ Stands(SchemaAfter(k), "status") => k >= 1
           /\ k >= 1 => /\ Status("orders_status_enum") \in SchemaAfter(k)
                        /\ FirstLabels \subseteq Labels(SchemaAfter(k), "orders_status_enum")
           /\ "processed" \in Labels(SchemaAfter(k), "orders_status_enum") <=> k >= 4
<1> DEFINE S == SchemaAfter(k)
<1>1. S = {o \in Entities : Era(o) <= k}
  BY SchemaEras
<1>2. /\ {Password, Column("users", "password")} \subseteq Entities
      /\ {Key, Column("orders", "idempotency_key"), Processed} \subseteq Entities
  BY EntitiesMade, AddedMembers DEF Password, Key
<1>3. OrdersKey.name = "UQ_orders_user_id_idempotency_key" /\ Listing.name = "IX_orders_user_id_status_created_at"
  BY OrdersKeyParted, ListingParted
<1>4. ASSUME NEW o, o.in = "users", o.name = "password" PROVE Era(o) = 6
  BY <1>4 DEF Era
<1>5. ASSUME NEW o, o.in = "orders", o.name = "idempotency_key" PROVE Era(o) = 2
  BY <1>3, <1>5 DEF Era
<1>6. ASSUME NEW o, o.in = "orders_status_enum", o.name = "processed" PROVE Era(o) = 4
  BY <1>6 DEF Era
<1>7. /\ Password.in = "users" /\ Password.name = "password" /\ Password.kind = "not_null"
      /\ Key.in = "orders" /\ Key.name = "idempotency_key" /\ Key.kind = "not_null"
  BY NotNullParted DEF Password, Key
<1>8. \A t, c : Column(t, c).in = t /\ Column(t, c).name = c /\ Column(t, c).kind = "column"
  BY ColumnParted
<1>9. Processed.in = "orders_status_enum" /\ Processed.name = "processed" /\ Processed.kind = "label"
  BY ObjectParted DEF Processed
<1>10. S # {} => k >= 1
  BY SchemaGrows
<1>11. k >= 1 => First \subseteq S
  BY SchemaGrows, SchemaMonotonic
<1>12. Status("orders_status_enum") \in First
  BY FirstHas
<1>13. ASSUME NEW l \in FirstLabels
       PROVE  /\ Object("label", l, "orders_status_enum", {}) \in First
              /\ Object("label", l, "orders_status_enum", {}).kind = "label"
              /\ Object("label", l, "orders_status_enum", {}).in = "orders_status_enum"
              /\ Object("label", l, "orders_status_enum", {}).name = l
  BY ObjectParted DEF First, StatusParts, Enum
<1> HIDE DEF S
<1>14. Password \in S <=> k = 6
  BY <1>1, <1>2, <1>4, <1>7
<1>15. Stands(S, "passwords") <=> k = 6
  <2>1. Column("users", "password") \in S <=> k = 6
    BY <1>1, <1>2, <1>4, <1>8
  <2>2. \A o \in S : o.in = "users" /\ o.name = "password" => k = 6
    BY <1>1, <1>4
  <2> QED
    BY <2>1, <2>2, <1>8 DEF Stands, Holds
<1>16. Key \in S <=> k >= 2
  BY <1>1, <1>2, <1>5, <1>7
<1>17. Stands(S, "keys") <=> k >= 2
  <2>1. Column("orders", "idempotency_key") \in S <=> k >= 2
    BY <1>1, <1>2, <1>5, <1>8
  <2>2. \A o \in S : o.in = "orders" /\ o.name = "idempotency_key" => k >= 2
    BY <1>1, <1>5
  <2> QED
    BY <2>1, <2>2, <1>8 DEF Stands, Holds
<1>18. Stands(S, "status") => k >= 1
  BY <1>10 DEF Stands
<1>19. k >= 1 => /\ Status("orders_status_enum") \in S
                 /\ FirstLabels \subseteq Labels(S, "orders_status_enum")
  BY <1>11, <1>12, <1>13 DEF Labels
<1>20. "processed" \in Labels(S, "orders_status_enum") <=> k >= 4
  <2>1. Processed \in S <=> k >= 4
    BY <1>1, <1>2, <1>6, <1>9
  <2>2. \A o \in S : o.in = "orders_status_enum" /\ o.name = "processed" => k >= 4
    BY <1>1, <1>6
  <2> QED
    BY <2>1, <2>2, <1>9 DEF Labels
<1> QED
  BY <1>14, <1>15, <1>16, <1>17, <1>18, <1>19, <1>20 DEF S

(* A statement of an up requires a value only where it finds one in every row. *)
LEMMA RequiredAfter ==
    ASSUME NEW d, IsDatabase(d), NEW s, UpStep(s), NEW t \in TableNames, NEW c, c \notin StatusTypes,
           NotNull(t, c) \in After(s, d.schema)
    PROVE  NotNull(t, c) \in d.schema \/ (s.op = "create" /\ NotNull(t, c) \in s.what)
<1> DEFINE n == NotNull(t, c)
<1>1. n.kind = "not_null" /\ n.in = t /\ n.name = c
  BY NotNullParted
<1> HIDE DEF n
<1>2. CASE s.op = "rename"
  <2>1. PICK ty \in StatusTypes : s.what = {Type(ty)} /\ s.to \in StatusTypes
    BY <1>2 DEF UpStep, CreateStep, DropStep, RenameStep, RetypeStep, FillStep, RowStep
  <2>2. The(s.what).name = ty
    BY <2>1, TypeParted DEF The
  <2>3. PICK o \in d.schema : n = Renamed(o, ty, s.to)
    BY <1>2, <2>2 DEF After, n
  <2>4. IsObject(o)
    BY DEF IsDatabase
  <2>5. o = Object(o.kind, o.name, o.in, o.uses)
    BY <2>4 DEF IsObject, Object
  <2>6. n = Object(o.kind, NewName(o.name, ty, s.to), NewName(o.in, ty, s.to), {NewName(x, ty, s.to) : x \in o.uses})
    BY <2>3, <2>5, RenamedObject
  <2>7. o.kind = "not_null" /\ NewName(o.name, ty, s.to) = c /\ NewName(o.in, ty, s.to) = t
    BY <1>1, <2>6, ObjectParted
  <2>8. t \notin StatusTypes
    BY DEF TableNames, StatusTypes
  <2>9. o.name = c /\ o.in = t
    BY <2>1, <2>7, <2>8 DEF NewName
  <2>10. o.uses = {}
    BY <2>4, <2>7 DEF IsObject
  <2>11. o = n
    BY <2>5, <2>7, <2>9, <2>10 DEF n, NotNull
  <2> QED
    BY <2>11 DEF n
<1>3. CASE s.op = "retype"
  <2>1. PICK ty \in StatusTypes : s.what = {Status(ty)}
    BY <1>3 DEF UpStep, CreateStep, DropStep, RenameStep, RetypeStep, FillStep, RowStep
  <2>2. n # Status(ty)
    BY <1>1, StatusParted
  <2> QED
    BY <1>3, <2>1, <2>2 DEF After, n
<1>4. CASE s.op \notin {"rename", "retype"}
  BY <1>4 DEF After
<1> QED
  BY <1>2, <1>3, <1>4

(* The tables and columns are named in their locks. *)
LEMMA LocksTable ==
    ASSUME NEW s, NEW o \in s.what, o.in \in TableNames
    PROVE  o.in \in Locks(s)
<1>1. o.in \in {o.in} \cup o.uses
  OBVIOUS
<1> QED
  BY <1>1 DEF Locks

(* A job sees only rows that are committed, with their statuses. *)
Within(d, w) ==
    /\ w.users \subseteq d.users
    /\ \A o \in DOMAIN w.status : o \in DOMAIN d.status /\ w.status[o] = d.status[o]

(* Each row has the values that the schema requires. *)
Filled(d) ==
    /\ Password \in d.schema => d.users \subseteq d.passwords
    /\ Key \in d.schema => DOMAIN d.status \subseteq d.keys

(* What a run requires of a row and the API does not know yet is locked. *)
Secured(d, w, L) ==
    /\ Password \in w.schema => Password \in d.schema \/ "users" \in L
    /\ Key \in w.schema => Key \in d.schema \/ "orders" \in L

Unprocessed(d) == \A o \in DOMAIN d.status : d.status[o] # "processed"

(* The statement that the earlier labels are too few for *)
Narrow == Retype(Status("orders_status_enum_old"))
Coming(p) == \E i \in 1..Len(p) : p[i] = Narrow

(* The job that reverts the fourth migration has that statement before it, or
   has found no processed order and lets no order be processed. *)
Narrowed(b, w, L) ==
    b.kind = "revert" /\ b.from = 1..4 => Coming(b.plan) \/ (Unprocessed(w) /\ "orders" \in L)

Requiring == ~ Reverting => Filled(work) /\ Secured(db, work, locked)
Labelled == 4 \notin db.done => Unprocessed(db)
Narrowing == \A j \in Jobs : job[j].step = "running" => Narrowed(job[j], work, locked)

RInv == Within(db, work) /\ Filled(db) /\ Requiring /\ Labelled /\ Narrowing

LEMMA InitRInv == Init => RInv
<1> SUFFICES ASSUME Init PROVE RInv
  OBVIOUS
<1>1. Within(Empty, Empty) /\ Filled(Empty) /\ Unprocessed(Empty)
  BY DEF Within, Filled, Unprocessed, Empty
<1>2. db = Empty /\ work = Empty /\ \A j \in Jobs : job[j].step = "none"
  BY DEF Init, NoJob
<1>3. Secured(db, work, locked)
  BY <1>2 DEF Secured, Empty
<1> QED
  BY <1>1, <1>2, <1>3 DEF RInv, Requiring, Labelled, Narrowing

(* A job ends: the others see what is committed. *)
LEMMA EndedRInv ==
    ASSUME work' = db', \A j \in Jobs : job'[j].step # "running",
           Filled(db'), 4 \notin db'.done => Unprocessed(db')
    PROVE  RInv'
<1>1. Within(db', work')
  BY DEF Within
<1>2. Secured(db', work', locked')
  BY DEF Secured
<1> QED
  BY <1>1, <1>2 DEF RInv, Requiring, Labelled, Narrowing

LEMMA RolledBackRInv ==
    ASSUME IInv, RInv, NEW j \in Jobs, NEW step \in Ended, job[j].step = "running",
           job' = [job EXCEPT ![j] = [NoJob EXCEPT !.step = step]], db' = db, work' = db
    PROVE  RInv'
<1>1. [NoJob EXCEPT !.step = step].step = step /\ step # "running"
  BY DEF NoJob, Ended
<1>2. \A i \in Jobs : job'[i].step # "running"
  BY <1>1 DEF IInv, Typed, Alone
<1>3. Filled(db') /\ (4 \notin db'.done => Unprocessed(db'))
  BY DEF RInv, Labelled
<1> QED
  BY <1>2, <1>3, EndedRInv

LEMMA StartRInv ==
    ASSUME IInv, RInv, NEW j \in Jobs, NEW kind, NEW plan, Start(j, kind, plan)
    PROVE  RInv'
<1>1. \A i \in Jobs : \/ job'[i] = job[i]
                      \/ i = j /\ job'[i].step = "loaded" /\ job[i].step # "running"
  BY DEF IInv, Typed, Start, Ended
<1>2. db' = db /\ work' = work /\ locked' = locked
  BY DEF Start
<1>3. Reverting' <=> Reverting
  BY <1>1 DEF Reverting
<1> QED
  BY <1>1, <1>2, <1>3 DEF RInv, Requiring, Labelled, Narrowing

LEMMA BeginRInv == ASSUME IInv, HInv, RInv, NEW j \in Jobs, Begin(j) PROVE RInv'
<1> DEFINE b == job[j]
           c == job'[j]
<1>1. /\ b.step = "loaded" /\ work = db /\ db' = db /\ work' = work /\ locked' = locked
      /\ c = [b EXCEPT !.step = "running"]
      /\ \A i \in Jobs \ {j} : job'[i] = job[i]
      /\ \A i \in Jobs : job[i].step # "running"
  BY DEF Begin, Running, IInv, Typed, Alone
<1>2. c.kind = b.kind /\ c.plan = b.plan /\ c.from = b.from
  <2>1. IsJob(b)
    BY DEF IInv, Typed
  <2> QED
    BY <1>1, <2>1 DEF IsJob
<1>3. RunOf(b) \/ RevertOf(b)
  BY <1>1 DEF HInv, Loaded
<1> HIDE DEF b, c
<1>4. Within(db', work') /\ Filled(db') /\ Filled(work') /\ Secured(db', work', locked')
  BY <1>1 DEF RInv, Within, Secured
<1>5. Narrowed(c, work', locked')
  <2> SUFFICES ASSUME c.kind = "revert", c.from = 1..4 PROVE Coming(c.plan)
    BY DEF Narrowed
  <2>1. b.from = 1..4 /\ b.plan = Append(Down[4], Forget(4))
    <3>1. PICK n \in 1..6 : b.from = 1..n /\ b.plan = Append(Down[n], Forget(n))
      BY <1>2, <1>3 DEF RunOf, RevertOf
    <3>2. n = 4
      <4>1. 1..n = 1..4
        BY <1>2, <3>1
      <4>2. n \in 0..6 /\ 4 \in 0..6
        BY <3>1
      <4> QED
        BY <4>1, <4>2, SameHistory
    <3> QED
      BY <3>1, <3>2
  <2>2. Len(c.plan) = 10 /\ c.plan[4] = Narrow
    BY <1>2, <2>1 DEF Down, Down4, Narrow
  <2> QED
    BY <2>2 DEF Coming
<1>6. \A i \in Jobs : job'[i].step = "running" => job'[i] = c
  BY <1>1 DEF c
<1>7. Labelled'
  BY <1>1 DEF RInv, Labelled
<1> QED
  BY <1>4, <1>5, <1>6, <1>7 DEF RInv, Requiring, Narrowing

(* No statement makes rows or changes a status. *)
LEMMA ExecutedRows ==
    ASSUME NEW d, IsDatabase(d), Owned(d), NEW s, UpStep(s) \/ DownStep(s), ~ Refused(s, d)
    PROVE  Within(d, Executed(s, d))
<1> DEFINE e == Executed(s, d)
<1>1. CASE UpStep(s)
  <2>1. Grown(d, e)
    BY <1>1, UpExecuted
  <2> QED
    BY <2>1 DEF Grown, Within
<1>2. CASE DownStep(s)
  <2>1. Keeps(d, e) /\ Owned(e)
    BY <1>2, DownExecuted DEF Shrunk
  <2> HIDE DEF e
  <2>2. e.users \subseteq d.users
    BY <2>1 DEF Keeps, Owned
  <2>3. e.status = d.status \/ DOMAIN e.status = {}
    BY <2>1 DEF Keeps, Owned
  <2> QED
    BY <2>2, <2>3 DEF Within, e
<1> QED
  BY <1>1, <1>2

(* The earlier labels are too few for a processed order. *)
LEMMA NarrowExecuted ==
    ASSUME NEW d, IsDatabase(d), Clear(Narrow, d.schema), ~ Refused(Narrow, d)
    PROVE  Unprocessed(d) /\ "orders" \in Locks(Narrow)
<1> DEFINE o == Status("orders_status_enum_old")
<1>1. Narrow.op = "retype" /\ Narrow.what = {o}
  BY DEF Narrow, Retype
<1>2. "processed" \notin UNION {Labels(d.schema, ty) : ty \in o.uses}
  BY <1>1 DEF Clear
<1>3. \A r \in DOMAIN d.status : d.status[r] \in UNION {Labels(d.schema, ty) : ty \in o.uses}
  BY <1>1 DEF Refused
<1>4. o.in = "orders" /\ "orders" \in TableNames
  BY StatusParted DEF TableNames
<1> HIDE DEF o
<1>5. "orders" \in Locks(Narrow)
  BY <1>1, <1>4, LocksTable
<1> QED
  BY <1>2, <1>3, <1>5 DEF Unprocessed

(* A run requires of the rows only what they have. *)
LEMMA UpExecutedFilled ==
    ASSUME NEW d, NEW w, IsDatabase(w), Owned(w), NEW L, Filled(w), Secured(d, w, L),
           NEW s, UpStep(s), ~ Refused(s, w)
    PROVE  Filled(Executed(s, w)) /\ Secured(d, Executed(s, w), L \cup Locks(s))
<1> DEFINE e == Executed(s, w)
<1>1. e.schema = After(s, w.schema)
  BY ExecutedStage
<1>2. /\ e.users = w.users /\ e.passwords = w.passwords /\ e.status = w.status
      /\ e.keys = w.keys \/ e.keys = DOMAIN w.status
  BY UpExecuted DEF Grown
<1> HIDE DEF e
<1>3. /\ "users" \in TableNames /\ "orders" \in TableNames
      /\ "password" \notin StatusTypes /\ "idempotency_key" \notin StatusTypes
  BY DEF TableNames, StatusTypes
<1>4. /\ Password.in = "users" /\ Password.name = "password" /\ Password.kind = "not_null"
      /\ Key.in = "orders" /\ Key.name = "idempotency_key" /\ Key.kind = "not_null"
  BY NotNullParted DEF Password, Key
<1>5. \A o \in s.what : s.op = "create" /\ o.kind = "not_null" => NullRows(w, o) = {}
  BY DEF Refused
<1>6. ASSUME Password \in e.schema
      PROVE  e.users \subseteq e.passwords /\ (Password \in d.schema \/ "users" \in L \cup Locks(s))
  <2>1. CASE Password \in w.schema
    BY <1>2, <2>1 DEF Filled, Secured
  <2>2. CASE s.op = "create" /\ Password \in s.what
    <3>1. NullRows(w, Password) = {} /\ "users" \in Locks(s)
      BY <1>3, <1>4, <1>5, <2>2, LocksTable
    <3>2. w.users \ w.passwords = {}
      BY <1>4, <3>1 DEF NullRows
    <3> QED
      BY <1>2, <3>1, <3>2
  <2> QED
    BY <1>1, <1>3, <1>6, <2>1, <2>2, RequiredAfter DEF Password
<1>7. ASSUME Key \in e.schema
      PROVE  DOMAIN e.status \subseteq e.keys /\ (Key \in d.schema \/ "orders" \in L \cup Locks(s))
  <2>1. CASE Key \in w.schema
    BY <1>2, <2>1 DEF Filled, Secured
  <2>2. CASE s.op = "create" /\ Key \in s.what
    <3>1. NullRows(w, Key) = {} /\ "orders" \in Locks(s)
      BY <1>3, <1>4, <1>5, <2>2, LocksTable
    <3>2. DOMAIN w.status \ w.keys = {}
      BY <1>4, <3>1 DEF NullRows
    <3> QED
      BY <1>2, <3>1, <3>2
  <2> QED
    BY <1>1, <1>3, <1>7, <2>1, <2>2, RequiredAfter DEF Key
<1> QED
  BY <1>6, <1>7 DEF Filled, Secured, e

LEMMA ExecuteRInv == ASSUME IInv, HInv, RInv, NEW j \in Jobs, Execute(j) PROVE RInv'
<1> DEFINE b == job[j]
           c == job'[j]
           s == Statement(j)
<1>1. /\ b.step = "running" /\ b.plan # <<>> /\ s = Head(b.plan)
      /\ ~ Refused(s, work) /\ work' = Executed(s, work) /\ db' = db
      /\ locked' = locked \cup Locks(s)
      /\ c = [b EXCEPT !.plan = Tail(@)]
      /\ \A i \in Jobs \ {j} : job'[i] = job[i]
      /\ \A i \in Jobs \ {j} : job[i].step # "running"
  BY DEF Execute, Statement, IInv, Typed, Alone
<1>2. IsJob(b) /\ IsDatabase(work) /\ Owned(work)
  BY DEF IInv, Typed
<1>3. c.step = "running" /\ c.kind = b.kind /\ c.plan = Tail(b.plan) /\ c.from = b.from
  BY <1>1, <1>2 DEF IsJob
<1>4. \/ b.kind = "run" /\ UpPlan(b.plan)
      \/ b.kind = "revert" /\ DownPlan(b.plan)
  BY <1>1, <1>2 DEF IsJob
<1>5. Overtaken(b, db, work) \/ UpToDate(b, db, work)
  BY <1>1 DEF HInv, OnItsWay
<1>6. Narrowed(b, work, locked) /\ Within(db, work)
  BY <1>1 DEF RInv, Narrowing
<1> HIDE DEF b, c, s
<1>7. UpToDate(b, db, work)
  BY <1>1, <1>5, OvertakenJob DEF HInv
<1>8. Clear(s, work.schema)
  <2>1. PICK m \in 0..6 : Leads(b.plan, Now(work), Stage(m))
    BY <1>7 DEF UpToDate
  <2>2. PICK z : Moves(s, Now(work), z)
    BY <1>1, <2>1, LeadsByHead
  <2> QED
    BY <2>2 DEF Moves, Now, At
<1>9. /\ b.kind = "run" => UpStep(s)
      /\ UpStep(s) \/ DownStep(s)
  BY <1>1, <1>4, PlanSteps
<1>10. Within(work, work')
  BY <1>1, <1>2, <1>9, ExecutedRows
<1>11. Within(db', work')
  BY <1>1, <1>6, <1>10 DEF Within
<1>12. Requiring'
  <2> SUFFICES ASSUME ~ Reverting' PROVE Filled(work') /\ Secured(db', work', locked')
    BY DEF Requiring
  <2>1. b.kind = "run"
    BY <1>3, <1>4 DEF Reverting, c
  <2>2. ~ Reverting
    BY <1>1, <2>1 DEF Reverting, b
  <2>3. Filled(work) /\ Secured(db, work, locked)
    BY <2>2 DEF RInv, Requiring
  <2> QED
    BY <1>1, <1>2, <1>9, <2>1, <2>3, UpExecutedFilled
<1>13. Narrowed(c, work', locked')
  <2> SUFFICES ASSUME c.kind = "revert", c.from = 1..4
               PROVE  Coming(c.plan) \/ (Unprocessed(work') /\ "orders" \in locked')
    BY DEF Narrowed
  <2>1. Coming(b.plan) \/ (Unprocessed(work) /\ "orders" \in locked)
    BY <1>3, <1>6 DEF Narrowed
  <2>2. ASSUME Unprocessed(work) PROVE Unprocessed(work')
    BY <1>10, <2>2 DEF Within, Unprocessed
  <2>3. CASE Coming(b.plan)
    <3>1. PICK S : b.plan \in Seq(S)
      BY <1>4 DEF UpPlan, DownPlan
    <3>2. PICK i \in 1..Len(b.plan) : b.plan[i] = Narrow
      BY <2>3 DEF Coming
    <3>3. CASE i = 1
      <4>1. s = Narrow
        BY <1>1, <3>1, <3>2, <3>3
      <4>2. Unprocessed(work) /\ "orders" \in Locks(s)
        BY <1>1, <1>2, <1>8, <4>1, NarrowExecuted
      <4> QED
        BY <1>1, <2>2, <4>2
    <3>4. CASE i # 1
      <4>1. i - 1 \in 1..Len(Tail(b.plan)) /\ Tail(b.plan)[i - 1] = Narrow
        BY <1>1, <3>1, <3>2, <3>4
      <4> QED
        BY <1>3, <4>1 DEF Coming
    <3> QED
      BY <3>3, <3>4
  <2> QED
    BY <1>1, <2>1, <2>2, <2>3
<1>14. Narrowing'
  <2>1. \A i \in Jobs : job'[i].step = "running" => job'[i] = c
    BY <1>1 DEF c
  <2> QED
    BY <1>13, <2>1 DEF Narrowing
<1>15. Filled(db') /\ Labelled'
  BY <1>1 DEF RInv, Labelled
<1> QED
  BY <1>11, <1>12, <1>14, <1>15 DEF RInv

LEMMA CommitRInv == ASSUME IInv, HInv, RInv, NEW j \in Jobs, Commit(j) PROVE RInv'
<1> DEFINE b == job[j]
<1>1. /\ b.step = "running" /\ b.plan = <<>> /\ db' = work /\ work' = work
      /\ job'[j] = [NoJob EXCEPT !.step = "committed"]
      /\ \A i \in Jobs \ {j} : job'[i] = job[i]
      /\ \A i \in Jobs \ {j} : job[i].step # "running"
  BY DEF Commit, IInv, Typed, Alone
<1>2. [NoJob EXCEPT !.step = "committed"].step = "committed"
  BY DEF NoJob
<1>3. Overtaken(b, db, work) \/ UpToDate(b, db, work)
  BY <1>1 DEF HInv, OnItsWay
<1>4. b.kind \in {"run", "revert"}
  BY <1>1 DEF IInv, Typed, IsJob
<1>5. /\ Narrowed(b, work, locked) /\ Within(db, work) /\ Filled(db) /\ Carries(db, work)
      /\ 4 \notin db.done => Unprocessed(db)
  BY <1>1 DEF RInv, IInv, Narrowing, Labelled
<1>6. b.kind = "run" => Filled(work)
  BY <1>1 DEF RInv, Requiring, Reverting
<1> HIDE DEF b
<1>7. UpToDate(b, db, work)
  BY <1>1, <1>3, OvertakenJob DEF HInv
<1>8. PICK m \in 0..6 : Leads(b.plan, Now(work), Stage(m)) /\ Bound(b, m)
  BY <1>7 DEF UpToDate
<1>9. Now(work) = Stage(m)
  BY <1>1, <1>8, NoStatementLeads
<1>10. work.done = 1..m /\ work.schema = SchemaAfter(m)
  BY <1>9, NowIs
<1>11. PICK k \in 0..6 : db.done = 1..k /\ db.schema = SchemaAfter(k)
  BY DEF HInv, SchemaFitsHistory
<1>12. b.from = 1..k
  BY <1>7, <1>11 DEF UpToDate
<1>13. b.kind = "run" => k <= m
  <2>1. b.kind = "run" => 1..k \subseteq 1..m
    BY <1>8, <1>12 DEF Bound
  <2> QED
    BY <2>1, SameHistory
<1>14. b.kind = "revert" => k = m + 1
  <2>1. b.kind = "revert" => 1..k = 1..(m + 1)
    BY <1>8, <1>12 DEF Bound
  <2>2. CASE m = 6
    <3>1. b.kind = "revert" => 7 \in 1..k
      BY <2>1, <2>2
    <3> QED
      BY <3>1
  <2>3. CASE m # 6
    <3>1. m + 1 \in 0..6
      BY <2>3
    <3> QED
      BY <2>1, <3>1, SameHistory
  <2> QED
    BY <2>2, <2>3
<1>15. Unprocessed(db) => Unprocessed(work)
  BY <1>5 DEF Within, Unprocessed
<1>16. ASSUME m < 4 PROVE Unprocessed(work)
  <2>1. CASE k < 4
    BY <1>5, <1>11, <1>15, <2>1
  <2>2. CASE ~ (k < 4)
    <3>1. b.kind = "revert" /\ k = 4
      BY <1>4, <1>13, <1>14, <1>16, <2>2
    <3>2. ~ Coming(b.plan)
      BY <1>1 DEF Coming
    <3> QED
      BY <1>5, <1>12, <3>1, <3>2 DEF Narrowed
  <2> QED
    BY <2>1, <2>2
<1>17. ASSUME b.kind = "revert" PROVE Filled(work)
  <2>1. k = m + 1
    BY <1>14, <1>17
  <2>2. Password \notin work.schema
    BY <1>10, <2>1, WrittenObjects
  <2>3. ASSUME Key \in work.schema PROVE DOMAIN work.status \subseteq work.keys
    <3>1. m >= 2
      BY <1>10, <2>3, WrittenObjects
    <3>2. Key \in db.schema /\ Stands(work.schema, "keys")
      BY <1>10, <1>11, <2>1, <3>1, WrittenObjects
    <3>3. DOMAIN db.status \subseteq db.keys /\ db.keys \subseteq work.keys
      BY <1>5, <3>2 DEF Filled, Carries
    <3> QED
      BY <1>5, <3>3 DEF Within
  <2> QED
    BY <2>2, <2>3 DEF Filled
<1>18. Filled(work)
  BY <1>4, <1>6, <1>17
<1>19. 4 \notin work.done => Unprocessed(work)
  BY <1>10, <1>16
<1>20. \A i \in Jobs : job'[i].step # "running"
  BY <1>1, <1>2
<1> QED
  BY <1>1, <1>18, <1>19, <1>20, EndedRInv

(* The API writes a row with all the schema requires of it. *)
LEMMA SignUpRInv == ASSUME IInv, HInv, RInv, NEW u \in Users, SignUp(u) PROVE RInv'
<1> DEFINE new == IF HasColumn(db, "users", "password") THEN {u} ELSE {}
<1>1. /\ db' = WithUser(db, u) /\ work' = WithUser(work, u) /\ IsDatabase(db) /\ IsDatabase(work)
      /\ job' = job /\ locked' = locked /\ "users" \notin locked
  BY DEF SignUp, Writable, IInv, Typed
<1>2. /\ db'.schema = db.schema /\ db'.done = db.done /\ db'.users = db.users \cup {u}
      /\ db'.passwords = db.passwords \cup new
      /\ db'.status = db.status /\ db'.keys = db.keys
  BY <1>1, UserWritten, WritesRows
<1>3. /\ work'.schema = work.schema /\ work'.users = work.users \cup {u}
      /\ work'.passwords = work.passwords \cup new
      /\ work'.status = work.status /\ work'.keys = work.keys
  BY <1>1, UserWritten
<1>4. Password \in db.schema => new = {u}
  <2>1. PICK k \in 0..6 : db.done = 1..k /\ db.schema = SchemaAfter(k)
    BY DEF HInv, SchemaFitsHistory
  <2>2. Password \in db.schema => Stands(db.schema, "passwords")
    BY <2>1, WrittenObjects
  <2> QED
    BY <2>2, StandsIsHas
<1> HIDE DEF new
<1>5. Within(db', work')
  BY <1>2, <1>3 DEF RInv, Within
<1>6. Filled(db')
  BY <1>2, <1>4 DEF RInv, Filled
<1>7. Requiring'
  <2> SUFFICES ASSUME ~ Reverting' PROVE Filled(work') /\ Secured(db', work', locked')
    BY DEF Requiring
  <2>1. Filled(work) /\ Secured(db, work, locked)
    BY <1>1 DEF RInv, Requiring, Reverting
  <2>2. Secured(db', work', locked')
    BY <1>1, <1>2, <1>3, <2>1 DEF Secured
  <2>3. Password \in work.schema => new = {u}
    BY <1>1, <1>4, <2>1 DEF Secured
  <2> QED
    BY <1>3, <2>1, <2>2, <2>3 DEF Filled
<1>8. Labelled'
  BY <1>2 DEF RInv, Labelled, Unprocessed
<1>9. Narrowing'
  BY <1>1, <1>3 DEF RInv, Narrowing, Narrowed, Unprocessed
<1> QED
  BY <1>5, <1>6, <1>7, <1>8, <1>9 DEF RInv

LEMMA PlaceOrderRInv == ASSUME IInv, HInv, RInv, NEW o \in Orders, PlaceOrder(o) PROVE RInv'
<1> DEFINE new == IF HasColumn(db, "orders", "idempotency_key") THEN {o} ELSE {}
<1>1. /\ db' = WithOrder(db, o) /\ work' = WithOrder(work, o) /\ IsDatabase(db) /\ IsDatabase(work)
      /\ job' = job /\ locked' = locked /\ "orders" \notin locked
  BY DEF PlaceOrder, Writable, IInv, Typed
<1>2. /\ db'.schema = db.schema /\ db'.done = db.done
      /\ db'.users = db.users /\ db'.passwords = db.passwords
      /\ DOMAIN db'.status = DOMAIN db.status \cup {o} /\ db'.status[o] = "created"
      /\ \A x \in DOMAIN db.status \ {o} : db'.status[x] = db.status[x]
      /\ db'.keys = db.keys \cup new
  BY <1>1, OrderWritten, WritesRows
<1>3. /\ work'.schema = work.schema
      /\ work'.users = work.users /\ work'.passwords = work.passwords
      /\ DOMAIN work'.status = DOMAIN work.status \cup {o} /\ work'.status[o] = "created"
      /\ \A x \in DOMAIN work.status \ {o} : work'.status[x] = work.status[x]
      /\ work'.keys = work.keys \cup new
  BY <1>1, OrderWritten
<1>4. Key \in db.schema => new = {o}
  <2>1. PICK k \in 0..6 : db.done = 1..k /\ db.schema = SchemaAfter(k)
    BY DEF HInv, SchemaFitsHistory
  <2>2. Key \in db.schema => Stands(db.schema, "keys")
    BY <2>1, WrittenObjects
  <2> QED
    BY <2>2, StandsIsHas
<1> HIDE DEF new
<1>5. Within(db', work')
  <2>1. ASSUME NEW x \in DOMAIN work'.status
        PROVE  x \in DOMAIN db'.status /\ work'.status[x] = db'.status[x]
    <3>1. CASE x = o
      BY <1>2, <1>3, <3>1
    <3>2. CASE x # o
      <4>1. x \in DOMAIN work.status \ {o}
        BY <1>3, <2>1, <3>2
      <4>2. x \in DOMAIN db.status \ {o} /\ work.status[x] = db.status[x]
        BY <4>1 DEF RInv, Within
      <4> QED
        BY <1>2, <1>3, <4>1, <4>2
    <3> QED
      BY <3>1, <3>2
  <2> QED
    BY <1>2, <1>3, <2>1 DEF RInv, Within
<1>6. Filled(db')
  BY <1>2, <1>4 DEF RInv, Filled
<1>7. Requiring'
  <2> SUFFICES ASSUME ~ Reverting' PROVE Filled(work') /\ Secured(db', work', locked')
    BY DEF Requiring
  <2>1. Filled(work) /\ Secured(db, work, locked)
    BY <1>1 DEF RInv, Requiring, Reverting
  <2>2. Secured(db', work', locked')
    BY <1>1, <1>2, <1>3, <2>1 DEF Secured
  <2>3. Key \in work.schema => new = {o}
    BY <1>1, <1>4, <2>1 DEF Secured
  <2> QED
    BY <1>3, <2>1, <2>2, <2>3 DEF Filled
<1>8. Labelled'
  <2>1. Unprocessed(db) => Unprocessed(db')
    BY <1>2 DEF Unprocessed
  <2> QED
    BY <1>2, <2>1 DEF RInv, Labelled
<1>9. Narrowing'
  BY <1>1, <1>3 DEF RInv, Narrowing, Narrowed
<1> QED
  BY <1>5, <1>6, <1>7, <1>8, <1>9 DEF RInv

LEMMA SettleRInv ==
    ASSUME IInv, HInv, RInv, NEW o \in Orders, NEW label \in {"processed", "paid"}, Settle(o, label)
    PROVE  RInv'
<1>1. /\ db' = WithStatus(db, o, label) /\ work' = WithStatus(work, o, label)
      /\ IsDatabase(db) /\ IsDatabase(work) /\ label \in Statuses
      /\ job' = job /\ locked' = locked /\ "orders" \notin locked
      /\ o \in DOMAIN db.status /\ label \in Labels(db.schema, "orders_status_enum")
  BY DEF Settle, Writable, IInv, Typed, Statuses
<1>2. o \in DOMAIN work.status
  <2>1. Writable({"orders"})
    BY DEF Settle
  <2>2. Stands(work.schema, "status")
    BY <2>1, WritableStands
  <2> QED
    BY <1>1, <2>2 DEF IInv, Carries
<1>3. /\ db'.schema = db.schema /\ db'.done = db.done
      /\ db'.users = db.users /\ db'.passwords = db.passwords /\ db'.keys = db.keys
      /\ DOMAIN db'.status = DOMAIN db.status /\ db'.status[o] = label
      /\ \A x \in DOMAIN db.status \ {o} : db'.status[x] = db.status[x]
  BY <1>1, StatusWritten, WritesRows
<1>4. /\ work'.schema = work.schema
      /\ work'.users = work.users /\ work'.passwords = work.passwords /\ work'.keys = work.keys
      /\ DOMAIN work'.status = DOMAIN work.status /\ work'.status[o] = label
      /\ \A x \in DOMAIN work.status \ {o} : work'.status[x] = work.status[x]
  BY <1>1, <1>2, StatusWritten
<1>5. Within(db', work')
  BY <1>3, <1>4 DEF RInv, Within
<1>6. Filled(db')
  BY <1>3 DEF RInv, Filled
<1>7. Requiring'
  BY <1>1, <1>3, <1>4 DEF RInv, Requiring, Reverting, Filled, Secured
<1>8. Labelled'
  <2>1. PICK k \in 0..6 : db.done = 1..k /\ db.schema = SchemaAfter(k)
    BY DEF HInv, SchemaFitsHistory
  <2>2. label = "processed" => 4 \in db.done
    BY <1>1, <2>1, WrittenObjects
  <2>3. label # "processed" /\ Unprocessed(db) => Unprocessed(db')
    BY <1>3 DEF Unprocessed
  <2> QED
    BY <1>3, <2>2, <2>3 DEF RInv, Labelled
<1>9. Narrowing'
  BY <1>1 DEF RInv, Narrowing, Narrowed
<1> QED
  BY <1>5, <1>6, <1>7, <1>8, <1>9 DEF RInv

LEMMA NextRInv == IInv /\ HInv /\ RInv /\ [Next]_vars => RInv'
<1> SUFFICES ASSUME IInv, HInv, RInv, [Next]_vars PROVE RInv'
  OBVIOUS
<1>1. ASSUME NEW j \in Jobs, (\E r \in Releases : LoadRun(j, r)) \/ LoadRevert(j) PROVE RInv'
  <2>1. PICK kind, plan : Start(j, kind, plan)
    BY <1>1 DEF LoadRun, LoadRevert
  <2> QED
    BY <2>1, StartRInv
<1>2. ASSUME NEW j \in Jobs, Begin(j) PROVE RInv'
  BY <1>2, BeginRInv
<1>3. ASSUME NEW j \in Jobs, Execute(j) PROVE RInv'
  BY <1>3, ExecuteRInv
<1>4. ASSUME NEW j \in Jobs, Refuse(j) PROVE RInv'
  <2>1. /\ job[j].step = "running" /\ "refused" \in Ended /\ db' = db /\ work' = db
        /\ job' = [job EXCEPT ![j] = [NoJob EXCEPT !.step = "refused"]]
    BY <1>4 DEF Refuse, Rollback, Ended
  <2> QED
    BY <2>1, RolledBackRInv
<1>5. ASSUME NEW j \in Jobs, Commit(j) PROVE RInv'
  BY <1>5, CommitRInv
<1>6. ASSUME NEW j \in Jobs, Die(j) PROVE RInv'
  <2>1. /\ job[j].step = "running" /\ "died" \in Ended /\ db' = db /\ work' = db
        /\ job' = [job EXCEPT ![j] = [NoJob EXCEPT !.step = "died"]]
    BY <1>6 DEF Die, Rollback, Ended
  <2> QED
    BY <2>1, RolledBackRInv
<1>7. ASSUME NEW u \in Users, SignUp(u) PROVE RInv'
  BY <1>7, SignUpRInv
<1>8. ASSUME NEW o \in Orders, PlaceOrder(o) PROVE RInv'
  BY <1>8, PlaceOrderRInv
<1>9. ASSUME NEW o \in Orders, ProcessOrder(o) \/ PayOrder(o) PROVE RInv'
  BY <1>9, SettleRInv DEF ProcessOrder, PayOrder
<1>10. CASE Quiet \/ UNCHANGED vars
  <2>1. db' = db /\ work' = work /\ job' = job /\ locked' = locked
    BY <1>10 DEF Quiet, vars
  <2> QED
    BY <2>1 DEF RInv, Requiring, Reverting, Labelled, Narrowing
<1> QED
  BY <1>1, <1>2, <1>3, <1>4, <1>5, <1>6, <1>7, <1>8, <1>9, <1>10 DEF Next

(* The committed rows have what the committed schema requires of them. *)
LEMMA CommittedRows == IInv /\ HInv /\ RInv => RowsFitSchema
<1> SUFFICES ASSUME IInv, HInv, RInv PROVE RowsFitSchema
  OBVIOUS
<1>1. PICK k \in 0..6 : db.done = 1..k /\ db.schema = SchemaAfter(k)
  BY DEF HInv, SchemaFitsHistory
<1>2. ASSUME NEW o \in Entities, o.kind = "not_null", HasColumn(db, o.in, o.name)
      PROVE  NullRows(db, o) = {}
  <2>1. CASE o.in = "users" /\ o.name = "password"
    <3>1. Password \in db.schema
      BY <1>1, <1>2, <2>1, StandsIsHas, WrittenObjects
    <3> QED
      BY <2>1, <3>1 DEF RInv, Filled, NullRows
  <2>2. CASE o.in = "orders" /\ o.name = "idempotency_key"
    <3>1. Key \in db.schema
      BY <1>1, <1>2, <2>2, StandsIsHas, WrittenObjects
    <3> QED
      BY <2>2, <3>1 DEF RInv, Filled, NullRows
  <2> QED
    BY <2>1, <2>2 DEF NullRows
<1>3. ASSUME NEW o \in DOMAIN db.status
      PROVE  \E p \in db.schema :
                /\ p.kind = "column" /\ p.in = "orders" /\ p.name = "status"
                /\ db.status[o] \in UNION {Labels(db.schema, ty) : ty \in p.uses}
  <2> DEFINE p == Status("orders_status_enum")
             labels == Labels(db.schema, "orders_status_enum")
  <2>1. k >= 1
    BY <1>1, <1>3, WrittenObjects DEF IInv, Owned
  <2>2. p \in db.schema /\ FirstLabels \subseteq labels /\ ("processed" \in labels <=> k >= 4)
    BY <1>1, <2>1, WrittenObjects
  <2>3. db.status[o] \in FirstLabels \cup {"processed"}
    BY <1>3 DEF IInv, Typed, IsDatabase, Rows, Statuses, FirstLabels
  <2>4. db.status[o] = "processed" => k >= 4
    <3>1. db.status[o] = "processed" => 4 \in db.done
      BY <1>3 DEF RInv, Labelled, Unprocessed
    <3> QED
      BY <1>1, <3>1
  <2>5. /\ p.kind = "column" /\ p.in = "orders" /\ p.name = "status"
        /\ p.uses = {"orders_status_enum"}
    BY StatusParted
  <2> HIDE DEF p
  <2>6. UNION {Labels(db.schema, ty) : ty \in p.uses} = labels
    BY <2>5
  <2> QED
    BY <2>2, <2>3, <2>4, <2>5, <2>6
<1> QED
  BY <1>2, <1>3 DEF RowsFitSchema

(* A user has a password, an order a key and every status a label, wherever
   the schema requires them, though the rows were written under an earlier
   one or beside a migration: the second up fills the keys before it requires
   them, a run requires nothing of a table it has not locked, and the revert
   of the fourth is refused while an order is processed. *)
THEOREM MigrationsFitRows == Spec => []RowsFitSchema
<1> QED
  BY MigrationsInvariant, InitHInv, NextHInv, InitRInv, NextRInv, CommittedRows, PTL DEF Spec

-----------------------------------------------------------------------------
(* What a job is refused for. *)

MakesKey(s) == s.op = "create" /\ Key \in s.what

(* A plan gives every order a key before it requires one. *)
FillsFirst(p) ==
    /\ IsPlan(p)
    /\ \A i \in 1..Len(p) : MakesKey(p[i]) => \E h \in 1..(i - 1) : p[h] = FillKeys

LEMMA FillsFirstOn ==
    ASSUME NEW p, NEW q, FillsFirst(p), FillsFirst(q)
    PROVE  FillsFirst(p \o q)
<1>1. PICK S : p \in Seq(S)
  BY DEF FillsFirst, IsPlan
<1>2. PICK T : q \in Seq(T)
  BY DEF FillsFirst, IsPlan
<1>3. PICK U : U = S \cup T
  OBVIOUS
<1>4. p \in Seq(U) /\ q \in Seq(U)
  BY <1>1, <1>2, <1>3, SeqMonotonic
<1> DEFINE m == Len(p)
           n == Len(q)
           r == p \o q
<1>5. /\ m \in Nat /\ n \in Nat /\ r \in Seq(U) /\ Len(r) = m + n
      /\ \A i \in 1..(m + n) : r[i] = IF i <= m THEN p[i] ELSE q[i - m]
  BY <1>4, ConcatProperties, LenProperties
<1>6. /\ \A i \in 1..m : MakesKey(p[i]) => \E h \in 1..(i - 1) : p[h] = FillKeys
      /\ \A i \in 1..n : MakesKey(q[i]) => \E h \in 1..(i - 1) : q[h] = FillKeys
  BY DEF FillsFirst
<1> HIDE DEF m, n, r
<1>7. ASSUME NEW i \in 1..(m + n), MakesKey(r[i])
      PROVE  \E h \in 1..(i - 1) : r[h] = FillKeys
  <2>1. CASE i <= m
    <3>1. i \in 1..m /\ r[i] = p[i]
      BY <1>5, <2>1
    <3>2. PICK h \in 1..(i - 1) : p[h] = FillKeys
      BY <1>6, <1>7, <3>1
    <3>3. h \in 1..(m + n) /\ h <= m
      BY <1>5, <3>1, <3>2
    <3> QED
      BY <1>5, <3>2, <3>3
  <2>2. CASE ~ (i <= m)
    <3>1. i - m \in 1..n /\ r[i] = q[i - m]
      BY <1>5, <2>2
    <3>2. PICK h \in 1..(i - m - 1) : q[h] = FillKeys
      BY <1>6, <1>7, <3>1
    <3>3. m + h \in 1..(i - 1) /\ m + h \in 1..(m + n) /\ ~ (m + h <= m) /\ m + h - m = h
      BY <1>5, <3>1, <3>2
    <3>4. r[m + h] = q[h]
      BY <1>5, <3>3
    <3> QED
      BY <3>2, <3>3, <3>4
  <2> QED
    BY <2>1, <2>2
<1> QED
  BY <1>5, <1>7 DEF FillsFirst, IsPlan, r

(* Plans that make no key *)
Keyless(p) == \E S : p \in Seq(S) /\ \A s \in S : ~ MakesKey(s)

LEMMA KeylessFills == ASSUME NEW p, Keyless(p) PROVE FillsFirst(p)
<1>1. PICK S : p \in Seq(S) /\ \A s \in S : ~ MakesKey(s)
  BY DEF Keyless
<1>2. \A i \in 1..Len(p) : ~ MakesKey(p[i])
  BY <1>1
<1> QED
  BY <1>1, <1>2 DEF FillsFirst, IsPlan

LEMMA RowKeyless == \A n : Keyless(<<Record(n)>>)
<1> SUFFICES ASSUME NEW n PROVE Keyless(<<Record(n)>>)
  OBVIOUS
<1>1. ~ MakesKey(Record(n))
  BY DEF MakesKey, Record
<1>2. PICK s : s = Record(n)
  OBVIOUS
<1>3. PICK S : S = {s}
  OBVIOUS
<1>4. <<s>> \in Seq(S)
  BY <1>3
<1> QED
  BY <1>1, <1>2, <1>3, <1>4 DEF Keyless

LEMMA CreateKeyless == ASSUME NEW X, Key \notin X PROVE ~ MakesKey(Create(X))
BY DEF MakesKey, Create

LEMMA Up1Keyless == Keyless(Up1)
<1> DEFINE a == Create(Enum("users_role_enum", {"user", "admin"}))
           b == Create({Table("users"), UsersEmail, Unique("PK_users_id", "users", {"id"})}
                       \cup Required("users", {"id", "email"} \cup Dates) \cup Role)
           c == Create(TProducts)
           d == Create(Enum("orders_status_enum", {"created", "canceled", "paid"}))
           O == {Table("orders"), Unique("PK_orders_id", "orders", {"id"}),
                 Status("orders_status_enum"), NotNull("orders", "status"), StatusDefault}
                \cup Required("orders", {"id", "user_id"} \cup Dates)
           e == Create(O)
           f == Create({OrdersUser})
           g == Create(TItems)
           h == Create({OrdersFK})
           i == Create({ItemsOrderFK})
           j == Create({ItemsProductFK})
<1>1. Key \notin First
  <2>1. Key \in Added(2) /\ 2 \in 2..6
    BY AddedMembers DEF Key
  <2> QED
    BY <2>1, AddedEras
<1>2. Key \notin Base /\ Key \notin StatusParts(FirstLabels)
  BY <1>1 DEF First
<1>3. ~ MakesKey(a) /\ ~ MakesKey(b) /\ ~ MakesKey(c)
  BY <1>2, CreateKeyless DEF Base, Roles, UsersBase
<1>4. ~ MakesKey(d)
  BY <1>2, CreateKeyless DEF StatusParts, FirstLabels
<1>5. ~ MakesKey(e)
  <2>1. O \subseteq OrdersBase \cup StatusParts(FirstLabels)
    BY DEF OrdersBase, StatusParts
  <2> HIDE DEF O
  <2>2. Key \notin O
    BY <1>2, <2>1 DEF Base
  <2> QED
    BY <2>2, CreateKeyless
<1>6. ~ MakesKey(f) /\ ~ MakesKey(g) /\ ~ MakesKey(h) /\ ~ MakesKey(i) /\ ~ MakesKey(j)
  <2>1. /\ Key \notin {OrdersUser} /\ Key \notin TItems /\ Key \notin {OrdersFK}
        /\ Key \notin {ItemsOrderFK} /\ Key \notin {ItemsProductFK}
    BY <1>2 DEF Base, Links
  <2> QED
    BY <2>1, CreateKeyless
<1>7. Up1 = <<a, b, c, d, e, f, g, h, i, j>>
  BY DEF Up1
<1> HIDE DEF a, b, c, d, e, f, g, h, i, j
<1>8. Up1 \in Seq({a, b, c, d, e, f, g, h, i, j})
  BY <1>7, Tuples
<1>9. \A s \in {a, b, c, d, e, f, g, h, i, j} : ~ MakesKey(s)
  BY <1>3, <1>4, <1>5, <1>6
<1> QED
  BY <1>8, <1>9 DEF Keyless

LEMMA Up4Keyless == Keyless(Up4)
<1> DEFINE a == Create({Column("orders", "processed_at")})
           b == Drop(Listing)
           c == Rename("orders_status_enum", "orders_status_enum_old")
           E == Enum("orders_status_enum", {"created", "canceled", "processed", "paid"})
           d == Create(E)
           e == Drop(StatusDefault)
           f == Retype(Status("orders_status_enum"))
           g == Create({StatusDefault})
           h == Drop(Type("orders_status_enum_old"))
           i == Create({Listing})
<1>1. Key.kind = "not_null" /\ Key.in = "orders"
  BY NotNullParted DEF Key
<1>2. ~ MakesKey(a)
  <2>1. Key # Column("orders", "processed_at")
    BY <1>1, ColumnParted
  <2> QED
    BY <2>1, CreateKeyless
<1>3. ~ MakesKey(b) /\ ~ MakesKey(c) /\ ~ MakesKey(e) /\ ~ MakesKey(f) /\ ~ MakesKey(h)
  BY DEF MakesKey, Drop, Rename, Retype
<1>4. ~ MakesKey(d)
  <2>1. \A o \in E : o.in = "orders_status_enum"
    BY EnumParted, TypeParted
  <2>2. Key \notin E
    BY <1>1, <2>1
  <2> QED
    BY <2>2, CreateKeyless
<1>5. ~ MakesKey(g) /\ ~ MakesKey(i)
  <2>1. Key # StatusDefault /\ Key # Listing
    BY <1>1, StatusDefaultParted, ListingParted
  <2> QED
    BY <2>1, CreateKeyless
<1>6. Up4 = <<a, b, c, d, e, f, g, h, i>>
  BY DEF Up4
<1> HIDE DEF a, b, c, d, e, f, g, h, i
<1>7. Up4 \in Seq({a, b, c, d, e, f, g, h, i})
  BY <1>6, Tuples
<1>8. \A s \in {a, b, c, d, e, f, g, h, i} : ~ MakesKey(s)
  BY <1>2, <1>3, <1>4, <1>5
<1> QED
  BY <1>7, <1>8 DEF Keyless

LEMMA OneKeyless == ASSUME NEW X, Key \notin X PROVE Keyless(<<Create(X)>>)
<1>1. PICK s : s = Create(X)
  OBVIOUS
<1>2. PICK S : S = {s}
  OBVIOUS
<1>3. <<s>> \in Seq(S) /\ ~ MakesKey(s)
  BY <1>1, <1>2, CreateKeyless
<1> QED
  BY <1>1, <1>2, <1>3 DEF Keyless

LEMMA Up2Fills == FillsFirst(Up2)
<1> DEFINE a == Create({Column("orders", "idempotency_key")})
           c == Create({NotNull("orders", "idempotency_key")})
           d == Create({OrdersKey})
<1>1. Key.kind = "not_null"
  BY NotNullParted DEF Key
<1>2. ~ MakesKey(a) /\ ~ MakesKey(d)
  <2>1. Key # Column("orders", "idempotency_key") /\ Key # OrdersKey
    BY <1>1, ColumnParted, OrdersKeyParted
  <2> QED
    BY <2>1, CreateKeyless
<1>3. ~ MakesKey(FillKeys)
  BY DEF MakesKey, FillKeys
<1>4. Up2 = <<a, FillKeys, c, d>>
  BY DEF Up2
<1> HIDE DEF a, c, d
<1>5. Up2 \in Seq({a, FillKeys, c, d})
  BY <1>4, Tuples
<1>6. Len(Up2) = 4 /\ Up2[1] = a /\ Up2[2] = FillKeys /\ Up2[3] = c /\ Up2[4] = d
  BY <1>4
<1>7. ASSUME NEW i \in 1..4, MakesKey(Up2[i]) PROVE \E h \in 1..(i - 1) : Up2[h] = FillKeys
  <2>1. i = 3
    BY <1>2, <1>3, <1>6, <1>7
  <2>2. 2 \in 1..(i - 1)
    BY <2>1
  <2> QED
    BY <1>6, <2>2
<1> QED
  BY <1>5, <1>6, <1>7 DEF FillsFirst, IsPlan

LEMMA UpFills == ASSUME NEW n \in 1..6 PROVE FillsFirst(Append(Up[n], Record(n)))
<1>1. n = 1 \/ n = 2 \/ n = 3 \/ n = 4 \/ n = 5 \/ n = 6
  OBVIOUS
<1>2. /\ Up[1] = Up1 /\ Up[2] = Up2 /\ Up[3] = Up3
      /\ Up[4] = Up4 /\ Up[5] = Up5 /\ Up[6] = Up6
  BY DEF Up
<1>3. Key.kind = "not_null" /\ Key.in = "orders"
  BY NotNullParted DEF Key
<1>4. Keyless(Up3)
  BY <1>3, ListingParted, OneKeyless DEF Up3
<1>5. Keyless(Up5)
  <2>1. Key \notin TMessages
    BY <1>3, Groups DEF GroupOf
  <2> QED
    BY <2>1, OneKeyless DEF Up5
<1>6. Keyless(Up6)
  <2>1. Key \notin Required("users", {"password"})
    BY <1>3, RequiredParted
  <2> QED
    BY <2>1, OneKeyless DEF Up6
<1>7. FillsFirst(Up[n])
  BY <1>1, <1>2, <1>4, <1>5, <1>6, Up1Keyless, Up2Fills, Up4Keyless, KeylessFills
<1>8. Append(Up[n], Record(n)) = Up[n] \o <<Record(n)>>
  <2>1. PICK S : Up[n] \in Seq(S)
    BY <1>7 DEF FillsFirst, IsPlan
  <2>2. PICK U : U = S \cup {Record(n)}
    OBVIOUS
  <2>3. Up[n] \in Seq(U) /\ Record(n) \in U
    BY <2>1, <2>2, SeqMonotonic
  <2> QED
    BY <2>3, AppendIsConcat
<1> QED
  BY <1>7, <1>8, RowKeyless, KeylessFills, FillsFirstOn

LEMMA PlanOfFills == ASSUME NEW pending PROVE FillsFirst(PlanOf(pending))
<1> DEFINE Of(n) == IF n \in pending THEN Append(Up[n], Record(n)) ELSE <<>>
<1>1. FillsFirst(<<>>)
  <2>1. PICK S : S = {}
    OBVIOUS
  <2>2. <<>> \in Seq(S) /\ \A s \in S : ~ MakesKey(s)
    BY <2>1
  <2>3. Keyless(<<>>)
    BY <2>2 DEF Keyless
  <2> QED
    BY <2>3, KeylessFills
<1>2. \A n \in 1..6 : FillsFirst(Of(n))
  BY <1>1, UpFills
<1>3. PlanOf(pending) = Of(1) \o Of(2) \o Of(3) \o Of(4) \o Of(5) \o Of(6)
  BY DEF PlanOf
<1> HIDE DEF Of
<1>4. /\ FillsFirst(Of(1)) /\ FillsFirst(Of(2)) /\ FillsFirst(Of(3))
      /\ FillsFirst(Of(4)) /\ FillsFirst(Of(5)) /\ FillsFirst(Of(6))
  BY <1>2
<1>5. FillsFirst(Of(1) \o Of(2))
  BY <1>4, FillsFirstOn
<1>6. FillsFirst(Of(1) \o Of(2) \o Of(3))
  BY <1>4, <1>5, FillsFirstOn
<1>7. FillsFirst(Of(1) \o Of(2) \o Of(3) \o Of(4))
  BY <1>4, <1>6, FillsFirstOn
<1>8. FillsFirst(Of(1) \o Of(2) \o Of(3) \o Of(4) \o Of(5))
  BY <1>4, <1>7, FillsFirstOn
<1> QED
  BY <1>3, <1>4, <1>8, FillsFirstOn

(* A job that sees w with L locked has the keys before it, or has filled them
   in a table that nobody else writes to. *)
Prepared(p, w, L) ==
    FillsFirst(p) \/ ("orders" \in L /\ DOMAIN w.status \subseteq w.keys)

FInv == \A j \in Jobs : job[j].step = "running" /\ job[j].kind = "run" => Prepared(job[j].plan, work, locked)

LEMMA InitFInv == Init => FInv
BY DEF Init, NoJob, FInv

(* No job begins, goes on or sees another row of an order. *)
LEMMA KeptFInv ==
    ASSUME FInv, \A j \in Jobs : job'[j].step = "running" => job'[j] = job[j],
           locked' = locked, "orders" \in locked => work'.status = work.status /\ work'.keys = work.keys
    PROVE  FInv'
<1>1. \A p : Prepared(p, work, locked) => Prepared(p, work', locked')
  BY DEF Prepared
<1> QED
  BY <1>1 DEF FInv

LEMMA EndedFInv ==
    ASSUME \A j \in Jobs : job'[j].step # "running"
    PROVE  FInv'
BY DEF FInv

LEMMA BeginFInv == ASSUME IInv, HInv, FInv, NEW j \in Jobs, Begin(j) PROVE FInv'
<1> DEFINE b == job[j]
           c == job'[j]
<1>1. /\ b.step = "loaded" /\ c = [b EXCEPT !.step = "running"]
      /\ \A i \in Jobs \ {j} : job'[i] = job[i]
      /\ \A i \in Jobs : job[i].step # "running"
  BY DEF Begin, Running, IInv, Typed
<1>2. c.kind = b.kind /\ c.plan = b.plan
  <2>1. IsJob(b)
    BY DEF IInv, Typed
  <2> QED
    BY <1>1, <2>1 DEF IsJob
<1>3. RunOf(b) \/ RevertOf(b)
  BY <1>1 DEF HInv, Loaded
<1> HIDE DEF b, c
<1>4. ASSUME c.kind = "run" PROVE FillsFirst(c.plan)
  <2>1. PICK k, r \in 0..6 : b.plan = PlanOf(1..r \ 1..k)
    BY <1>2, <1>3, <1>4 DEF RunOf, RevertOf
  <2> QED
    BY <1>2, <2>1, PlanOfFills
<1>5. \A i \in Jobs : job'[i].step = "running" => job'[i] = c
  BY <1>1 DEF c
<1> QED
  BY <1>4, <1>5 DEF FInv, Prepared

LEMMA ExecuteFInv == ASSUME IInv, FInv, NEW j \in Jobs, Execute(j) PROVE FInv'
<1> DEFINE b == job[j]
           c == job'[j]
           s == Statement(j)
<1>1. /\ b.step = "running" /\ b.plan # <<>> /\ s = Head(b.plan)
      /\ ~ Refused(s, work) /\ work' = Executed(s, work)
      /\ locked' = locked \cup Locks(s)
      /\ c = [b EXCEPT !.plan = Tail(@)]
      /\ \A i \in Jobs \ {j} : job'[i] = job[i]
      /\ \A i \in Jobs \ {j} : job[i].step # "running"
  BY DEF Execute, Statement, IInv, Typed, Alone
<1>2. IsJob(b) /\ IsDatabase(work) /\ Owned(work)
  BY DEF IInv, Typed
<1>3. c.kind = b.kind /\ c.plan = Tail(b.plan)
  BY <1>1, <1>2 DEF IsJob
<1>4. b.kind = "run" => UpStep(s) /\ Prepared(b.plan, work, locked)
  <2>1. b.kind = "run" => UpPlan(b.plan)
    BY <1>1, <1>2 DEF IsJob
  <2> QED
    BY <1>1, <2>1, PlanSteps DEF FInv
<1> HIDE DEF b, c, s
<1>5. ASSUME c.kind = "run" PROVE Prepared(c.plan, work', locked')
  <2>1. Grown(work, work')
    BY <1>1, <1>2, <1>3, <1>4, <1>5, UpExecuted
  <2>2. work'.status = work.status /\ (work'.keys = work.keys \/ work'.keys = DOMAIN work.status)
    BY <2>1 DEF Grown
  <2>3. CASE "orders" \in locked /\ DOMAIN work.status \subseteq work.keys
    BY <1>1, <2>2, <2>3 DEF Prepared
  <2>4. CASE FillsFirst(b.plan) /\ s = FillKeys
    <3>1. s.op = "fill" /\ s.what = {Column("orders", "idempotency_key")}
      BY <2>4 DEF FillKeys
    <3>2. work'.keys = DOMAIN work.status
      BY <1>1, <1>2, <3>1 DEF Executed, IsDatabase
    <3>3. "orders" \in Locks(s)
      <4>1. PICK o \in s.what : o.in = "orders"
        BY <3>1, ColumnParted
      <4>2. "orders" \in TableNames
        BY DEF TableNames
      <4> QED
        BY <4>1, <4>2, LocksTable
    <3> QED
      BY <1>1, <2>2, <3>2, <3>3 DEF Prepared
  <2>5. CASE FillsFirst(b.plan) /\ s # FillKeys
    <3> DEFINE p == b.plan
               q == Tail(b.plan)
    <3>1. PICK S : p \in Seq(S)
      BY <2>5 DEF FillsFirst, IsPlan
    <3>2. /\ Len(p) \in Nat /\ q \in Seq(S) /\ Len(q) = Len(p) - 1 /\ p[1] = s
          /\ \A i \in 1..Len(q) : q[i] = p[i + 1]
      BY <1>1, <3>1
    <3>3. \A i \in 1..Len(p) : MakesKey(p[i]) => \E h \in 1..(i - 1) : p[h] = FillKeys
      BY <2>5 DEF FillsFirst
    <3> HIDE DEF p, q
    <3>4. ASSUME NEW i \in 1..Len(q), MakesKey(q[i]) PROVE \E h \in 1..(i - 1) : q[h] = FillKeys
      <4>1. i + 1 \in 1..Len(p) /\ q[i] = p[i + 1] /\ i + 1 - 1 = i
        BY <3>2
      <4>2. PICK h \in 1..i : p[h] = FillKeys
        BY <3>3, <3>4, <4>1
      <4>3. h # 1
        BY <2>5, <3>2, <4>2
      <4>4. h - 1 \in 1..(i - 1) /\ h - 1 \in 1..Len(q) /\ h - 1 + 1 = h
        BY <3>2, <4>2, <4>3
      <4>5. q[h - 1] = p[h]
        BY <3>2, <4>4
      <4> QED
        BY <4>2, <4>4, <4>5
    <3>5. FillsFirst(q)
      BY <3>2, <3>4 DEF FillsFirst, IsPlan
    <3> QED
      BY <1>3, <3>5 DEF Prepared, q
  <2> QED
    BY <1>3, <1>4, <1>5, <2>3, <2>4, <2>5 DEF Prepared
<1>6. \A i \in Jobs : job'[i].step = "running" => job'[i] = c
  BY <1>1 DEF c
<1> QED
  BY <1>5, <1>6 DEF FInv

LEMMA NextFInv == IInv /\ HInv /\ FInv /\ [Next]_vars => FInv'
<1> SUFFICES ASSUME IInv, HInv, FInv, [Next]_vars PROVE FInv'
  OBVIOUS
<1>1. ASSUME NEW j \in Jobs, NEW kind, NEW plan, Start(j, kind, plan) PROVE FInv'
  <2>1. /\ \A i \in Jobs : job'[i] = job[i] \/ job'[i].step = "loaded"
        /\ work' = work /\ locked' = locked
    BY <1>1 DEF IInv, Typed, Start
  <2> QED
    BY <2>1, KeptFInv
<1>2. ASSUME NEW j \in Jobs, (\E r \in Releases : LoadRun(j, r)) \/ LoadRevert(j) PROVE FInv'
  BY <1>1, <1>2 DEF LoadRun, LoadRevert
<1>3. ASSUME NEW j \in Jobs, Begin(j) PROVE FInv'
  BY <1>3, BeginFInv
<1>4. ASSUME NEW j \in Jobs, Execute(j) PROVE FInv'
  BY <1>4, ExecuteFInv
<1>5. ASSUME NEW j \in Jobs, Refuse(j) \/ Commit(j) \/ Die(j) PROVE FInv'
  <2>1. PICK step \in {"refused", "committed", "died"} :
           job[j].step = "running" /\ job' = [job EXCEPT ![j] = [NoJob EXCEPT !.step = step]]
    BY <1>5 DEF Refuse, Commit, Die, Rollback
  <2>2. [NoJob EXCEPT !.step = step].step = step
    BY DEF NoJob
  <2>3. \A i \in Jobs : job'[i].step # "running"
    BY <2>1, <2>2 DEF IInv, Typed, Alone
  <2> QED
    BY <2>3, EndedFInv
<1>6. IsDatabase(work)
  BY DEF IInv, Typed
<1>7. ASSUME NEW u \in Users, SignUp(u) PROVE FInv'
  <2>1. work' = WithUser(work, u) /\ job' = job /\ locked' = locked
    BY <1>7 DEF SignUp, Writable
  <2>2. work'.status = work.status /\ work'.keys = work.keys
    BY <1>6, <2>1, UserWritten
  <2> QED
    BY <2>1, <2>2, KeptFInv
<1>8. ASSUME NEW o \in Orders, PlaceOrder(o) \/ ProcessOrder(o) \/ PayOrder(o) PROVE FInv'
  <2>1. "orders" \notin locked /\ job' = job /\ locked' = locked
    BY <1>8 DEF PlaceOrder, ProcessOrder, PayOrder, Settle, Writable
  <2> QED
    BY <2>1, KeptFInv
<1>9. CASE Quiet \/ UNCHANGED vars
  <2>1. work' = work /\ job' = job /\ locked' = locked
    BY <1>9 DEF Quiet, vars
  <2> QED
    BY <2>1, KeptFInv
<1> QED
  BY <1>2, <1>3, <1>4, <1>5, <1>7, <1>8, <1>9 DEF Next

(* The job that ends refused is the one that PostgreSQL refuses a statement. *)
LEMMA RefuseEnds ==
    ASSUME IInv, [Next]_vars, NEW j \in Jobs, job[j].step = "running", job'[j].step = "refused"
    PROVE  Refuse(j)
<1>1. IsJob(job[j]) /\ job[j].step # job'[j].step /\ DOMAIN job = Jobs
  BY DEF IInv, Typed
<1>2. ASSUME NEW i \in Jobs, (\E r \in Releases : LoadRun(i, r)) \/ LoadRevert(i) PROVE FALSE
  <2>1. PICK kind, plan : Start(i, kind, plan)
    BY <1>2 DEF LoadRun, LoadRevert
  <2> QED
    BY <1>1, <2>1 DEF Start
<1>3. ASSUME NEW i \in Jobs, Begin(i) PROVE FALSE
  BY <1>1, <1>3 DEF Begin
<1>4. ASSUME NEW i \in Jobs, Execute(i) PROVE FALSE
  BY <1>1, <1>4 DEF Execute, IsJob
<1>5. ASSUME NEW i \in Jobs, Refuse(i) PROVE i = j
  BY <1>1, <1>5 DEF Refuse, Rollback
<1>6. ASSUME NEW i \in Jobs, Commit(i) \/ Die(i) PROVE FALSE
  BY <1>1, <1>6 DEF Commit, Die, Rollback, NoJob
<1>7. ASSUME NEW u \in Users, SignUp(u) PROVE FALSE
  BY <1>1, <1>7 DEF SignUp, Writable
<1>8. ASSUME NEW o \in Orders, PlaceOrder(o) \/ ProcessOrder(o) \/ PayOrder(o) PROVE FALSE
  BY <1>1, <1>8 DEF PlaceOrder, ProcessOrder, PayOrder, Settle, Writable
<1>9. CASE Quiet \/ UNCHANGED vars
  BY <1>1, <1>9 DEF Quiet, vars
<1> QED
  BY <1>2, <1>3, <1>4, <1>5, <1>6, <1>7, <1>8, <1>9 DEF Next

(* A job that has read the executed migrations as they are, and is refused *)
LEMMA RefusedForRows ==
    ASSUME IInv, HInv, FInv, NEW j \in Jobs, Refuse(j), job[j].from = db.done
    PROVE  \/ Password \in Statement(j).what /\ work.users # {}
           \/ /\ Status("orders_status_enum_old") \in Statement(j).what
              /\ \E o \in DOMAIN work.status : work.status[o] = "processed"
<1> DEFINE b == job[j]
           s == Statement(j)
<1>1. /\ b.step = "running" /\ b.plan # <<>> /\ s = Head(b.plan) /\ Refused(s, work)
      /\ b.from = db.done
  BY DEF Refuse, Statement
<1>2. IsJob(b) /\ IsDatabase(work)
  BY DEF IInv, Typed
<1>3. /\ Overtaken(b, db, work) \/ UpToDate(b, db, work)
      /\ b.kind = "run" => Prepared(b.plan, work, locked)
  BY <1>1 DEF HInv, OnItsWay, FInv
<1>4. \/ b.kind = "run" /\ UpPlan(b.plan)
      \/ b.kind = "revert" /\ DownPlan(b.plan)
  BY <1>1, <1>2 DEF IsJob
<1> HIDE DEF b, s
<1>5. Clear(s, work.schema)
  <2>1. UpToDate(b, db, work)
    BY <1>1, <1>3 DEF Overtaken
  <2>2. PICK m \in 0..6 : Leads(b.plan, Now(work), Stage(m))
    BY <2>1 DEF UpToDate
  <2>3. PICK z : Moves(s, Now(work), z)
    BY <1>1, <2>2, LeadsByHead
  <2> QED
    BY <2>3 DEF Moves, Now, At
<1>6. ASSUME s.op = "create", NEW o \in s.what, o.kind = "not_null", NullRows(work, o) # {}
      PROVE  Password \in s.what /\ work.users # {}
  <2>1. UpStep(s) \/ DownStep(s)
    BY <1>1, <1>4, PlanSteps
  <2>2. IsObject(o)
    BY <1>6, <2>1 DEF UpStep, DownStep, CreateStep, DropStep, RenameStep, RetypeStep, FillStep, RowStep
  <2>3. o = NotNull(o.in, o.name)
    BY <1>6, <2>2 DEF IsObject, NotNull, Object
  <2>4. o # Key
    <3> SUFFICES ASSUME o = Key PROVE FALSE
      OBVIOUS
    <3>1. ~ DownStep(s)
      BY <1>6 DEF DownStep, CreateStep, DropStep, RenameStep, RetypeStep, RowStep
    <3>2. b.kind = "run"
      BY <1>1, <1>4, <3>1, PlanSteps
    <3>3. Prepared(b.plan, work, locked)
      BY <1>3, <3>2
    <3>4. CASE DOMAIN work.status \subseteq work.keys
      BY <1>6, <3>4, NotNullParted DEF NullRows, Key
    <3>5. CASE FillsFirst(b.plan)
      <4>1. PICK S : b.plan \in Seq(S)
        BY <3>5 DEF FillsFirst, IsPlan
      <4>2. 1 \in 1..Len(b.plan) /\ b.plan[1] = s /\ MakesKey(s)
        BY <1>1, <1>6, <4>1 DEF MakesKey
      <4>3. \E h \in 1..(1 - 1) : b.plan[h] = FillKeys
        BY <3>5, <4>2 DEF FillsFirst
      <4> QED
        BY <4>3
    <3> QED
      BY <3>3, <3>4, <3>5 DEF Prepared
  <2>5. o.in = "users" /\ o.name = "password"
    BY <1>6, <2>3, <2>4 DEF NullRows, Key
  <2>6. work.users # {}
    BY <1>6, <2>5 DEF NullRows
  <2> QED
    BY <2>3, <2>5, <2>6 DEF Password
<1>7. \/ s.op = "create" /\ \E o \in s.what : o.kind = "not_null" /\ NullRows(work, o) # {}
      \/ /\ Status("orders_status_enum_old") \in s.what
         /\ \E o \in DOMAIN work.status : work.status[o] = "processed"
  BY <1>1, <1>2, <1>5, ClearRefused
<1> QED
  BY <1>6, <1>7 DEF s

(* PostgreSQL refuses a job that has read the executed migrations as they are
   for two reasons only: there are users without a password when the sixth up
   requires one, or a processed order when the fourth down takes its label
   away.  The statements of every up and down suit the schema they find, and
   the second up has filled each key by the time it requires them. *)
THEOREM MigrationsRefusedForRows == Spec => RefusedForRowsOnly
<1> DEFINE J == IInv /\ HInv /\ FInv
           Reason(j) ==
               \/ NotNull("users", "password") \in Statement(j).what /\ work.users # {}
               \/ /\ Status("orders_status_enum_old") \in Statement(j).what
                  /\ \E o \in DOMAIN work.status : work.status[o] = "processed"
           A == \A j \in Jobs :
                   job[j].step = "running" /\ job'[j].step = "refused" /\ job[j].from = db.done => Reason(j)
<1>1. J /\ [Next]_vars => A
  <2> SUFFICES ASSUME J, [Next]_vars, NEW j \in Jobs,
                      job[j].step = "running", job'[j].step = "refused", job[j].from = db.done
               PROVE  Reason(j)
    OBVIOUS
  <2>1. Refuse(j)
    BY RefuseEnds
  <2> QED
    BY <2>1, RefusedForRows DEF Password
<1>2. RefusedForRowsOnly <=> [][A]_vars
  BY DEF RefusedForRowsOnly
<1> HIDE DEF A
<1> QED
  BY <1>1, <1>2, MigrationsInvariant, InitHInv, NextHInv, InitFInv, NextFInv, PTL DEF Spec
=============================================================================
