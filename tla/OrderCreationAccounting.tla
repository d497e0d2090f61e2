---------------------- MODULE OrderCreationAccounting ----------------------
(***************************************************************************)
(* What OrderCreation counts: the stock that the orders took, the          *)
(* connections of the pool and the messages it published.  The sums of     *)
(* StockConserved are folds over the set of orders, so the facts about     *)
(* such sums that the proof needs come first.                              *)
(***************************************************************************)
EXTENDS OrderCreationProofs

-----------------------------------------------------------------------------
(* Sums over a finite set: MapThenSumSet without its operator arguments. *)

First(s) == CHOOSE x \in s : TRUE

IsSum(g, S, f) ==
    g = [s \in SUBSET S |->
            IF s = {} THEN 0 ELSE f[First(s)] + g[s \ {First(s)}]]

SumFcn(S, f) == CHOOSE g : IsSum(g, S, f)

SumOf(S, f) == SumFcn(S, f)[S]

(* The element that a fold takes out of a set is one of its elements. *)
LEMMA FirstMember == ASSUME NEW s, s # {} PROVE First(s) \in s
BY DEF First

(* A collection of subsets of a finite set has a smallest member: induction on
   finite sets, as a fact about sets. *)
LEMMA SmallestSubset ==
    ASSUME NEW S, IsFiniteSet(S), NEW B \in SUBSET SUBSET S, B # {}
    PROVE  \E s \in B : \A t \in SUBSET s : t \in B => t = s
<1>1. FiniteSubsetsOf(S) = SUBSET S
  BY FS_FiniteSubsetsOfFinite
<1>2. IsWellFoundedOn(StrictSubsetOrdering(S), SUBSET S)
  BY <1>1, FS_StrictSubsetOrderingWellFounded
<1>3. PICK s \in B : \A t \in B : <<t, s>> \notin StrictSubsetOrdering(S)
  BY <1>2, WFMin
<1> QED
  BY <1>3 DEF StrictSubsetOrdering

(* The partial sums of a set and of one of its subsets agree, when what they
   add agrees. *)
LEMMA SumUnique ==
    ASSUME NEW S, IsFiniteSet(S), NEW T \in SUBSET S,
           NEW f, NEW e, \A x \in T : f[x] = e[x],
           NEW g, IsSum(g, S, f), NEW h, IsSum(h, T, e)
    PROVE  g[T] = h[T]
<1> DEFINE B == {s \in SUBSET T : g[s] # h[s]}
<1>1. IsFiniteSet(T) /\ B \in SUBSET SUBSET T
  BY FS_Subset
<1>2. SUFFICES ASSUME B # {} PROVE FALSE
  OBVIOUS
<1>3. \E s \in B : \A t \in SUBSET s : t \in B => t = s
  <2> HIDE DEF B
  <2> QED
    BY <1>1, <1>2, SmallestSubset
<1>4. PICK s \in B : \A t \in SUBSET s : t \in B => t = s
  BY <1>3
<1>5. s # {}
  BY DEF IsSum
<1>6. First(s) \in s
  BY <1>5, FirstMember
<1>7. g[s \ {First(s)}] = h[s \ {First(s)}]
  BY <1>4, <1>6
<1>8. g[s] = f[First(s)] + g[s \ {First(s)}]
  BY <1>5 DEF IsSum
<1>9. h[s] = e[First(s)] + h[s \ {First(s)}]
  BY <1>5 DEF IsSum
<1> QED
  BY <1>6, <1>7, <1>8, <1>9

(* The recursion of a fold has a solution over every finite set. *)
LEMMA SumExists ==
    ASSUME NEW S, IsFiniteSet(S), NEW f
    PROVE  \E g : IsSum(g, S, f)
<1> DEFINE B == {T \in SUBSET S : ~ \E g : IsSum(g, T, f)}
<1>1. SUFFICES ASSUME B # {} PROVE FALSE
  OBVIOUS
<1>2. \E T \in B : \A t \in SUBSET T : t \in B => t = T
  <2>1. B \in SUBSET SUBSET S
    OBVIOUS
  <2> HIDE DEF B
  <2> QED
    BY <1>1, <2>1, SmallestSubset
<1>3. PICK T \in B : \A t \in SUBSET T : t \in B => t = T
  BY <1>2
<1> DEFINE h == [s \in SUBSET T |->
                   IF s = {} THEN 0
                   ELSE f[First(s)] + SumFcn(s \ {First(s)}, f)[s \ {First(s)}]]
<1>4. \A s \in SUBSET T : IsFiniteSet(s)
  BY <1>3, FS_Subset
<1>5. ASSUME NEW s \in SUBSET T, s # T
      PROVE  IsSum(SumFcn(s, f), s, f)
  <2>1. \E g : IsSum(g, s, f)
    BY <1>3, <1>5
  <2> QED
    BY <2>1 DEF SumFcn
<1>6. ASSUME NEW u \in SUBSET T, u # T
      PROVE  h[u] = SumFcn(u, f)[u]
  <2>1. CASE u = {}
    BY <1>5, <1>6, <2>1 DEF IsSum
  <2>2. CASE u # {}
    <3> DEFINE v == u \ {First(u)}
    <3>1. v \in SUBSET u /\ v \in SUBSET T /\ v # T
      BY <2>2, FirstMember
    <3>2. IsSum(SumFcn(u, f), u, f) /\ IsSum(SumFcn(v, f), v, f)
      BY <1>5, <1>6, <3>1
    <3>3. SumFcn(u, f)[u] = f[First(u)] + SumFcn(u, f)[v]
      BY <2>2, <3>2 DEF IsSum
    <3>4. SumFcn(u, f)[v] = SumFcn(v, f)[v]
      <4> HIDE DEF v
      <4> QED
        BY <1>4, <3>1, <3>2, SumUnique
    <3> QED
      BY <2>2, <3>3, <3>4
  <2> QED
    BY <2>1, <2>2
<1>7. \A s \in SUBSET T : s # {} => s \ {First(s)} \in SUBSET T /\ s \ {First(s)} # T
  BY FirstMember
<1>8. IsSum(h, T, f)
  <2> QED
    BY <1>6, <1>7 DEF IsSum
<1> QED
  BY <1>3, <1>8

(* A solution gives the sum of every subset. *)
LEMMA SumRestrict ==
    ASSUME NEW S, IsFiniteSet(S), NEW f, NEW g, IsSum(g, S, f), NEW T \in SUBSET S
    PROVE  g[T] = SumOf(T, f)
<1>1. IsFiniteSet(T)
  BY FS_Subset
<1>2. IsSum(SumFcn(T, f), T, f)
  BY <1>1, SumExists DEF SumFcn
<1> QED
  BY <1>2, SumUnique DEF SumOf

(* A sum of naturals is a natural, and that of nothing is zero. *)
LEMMA SumType ==
    ASSUME NEW S, IsFiniteSet(S), NEW f, \A x \in S : f[x] \in Nat
    PROVE  /\ SumOf(S, f) \in Nat
           /\ SumOf({}, f) = 0
<1>1. PICK g : IsSum(g, S, f)
  BY SumExists
<1> DEFINE B == {s \in SUBSET S : g[s] \notin Nat}
<1>2. B = {}
  <2>1. SUFFICES ASSUME B # {} PROVE FALSE
    OBVIOUS
  <2>2. \E s \in B : \A t \in SUBSET s : t \in B => t = s
    <3>1. B \in SUBSET SUBSET S
      OBVIOUS
    <3> HIDE DEF B
    <3> QED
      BY <2>1, <3>1, SmallestSubset
  <2>3. PICK s \in B : \A t \in SUBSET s : t \in B => t = s
    BY <2>2
  <2>4. s # {}
    BY <1>1 DEF IsSum
  <2>5. First(s) \in s
    BY <2>4, FirstMember
  <2>6. g[s \ {First(s)}] \in Nat /\ f[First(s)] \in Nat
    BY <2>3, <2>5
  <2>7. g[s] = f[First(s)] + g[s \ {First(s)}]
    BY <1>1, <2>4 DEF IsSum
  <2> QED
    BY <2>6, <2>7
<1>3. g[S] \in Nat
  BY <1>2
<1>4. g[{}] = 0
  BY <1>1 DEF IsSum
<1> QED
  BY <1>1, <1>3, <1>4, SumRestrict

(* Any element may be taken out of a sum, not only the one that the fold
   takes first. *)
LEMMA SumRemove ==
    ASSUME NEW S, IsFiniteSet(S), NEW f, \A x \in S : f[x] \in Nat, NEW x \in S
    PROVE  SumOf(S, f) = f[x] + SumOf(S \ {x}, f)
<1>1. PICK g : IsSum(g, S, f)
  BY SumExists
<1> DEFINE B == {s \in SUBSET S : \E y \in s : g[s] # f[y] + g[s \ {y}]}
<1>2. \A s \in SUBSET S : g[s] \in Nat
  <2>1. \A s \in SUBSET S : IsFiniteSet(s) /\ g[s] = SumOf(s, f)
    BY <1>1, SumRestrict, FS_Subset
  <2> QED
    BY <2>1, SumType
<1>3. B = {}
  <2>1. SUFFICES ASSUME B # {} PROVE FALSE
    OBVIOUS
  <2>2. \E s \in B : \A t \in SUBSET s : t \in B => t = s
    <3>1. B \in SUBSET SUBSET S
      OBVIOUS
    <3> HIDE DEF B
    <3> QED
      BY <2>1, <3>1, SmallestSubset
  <2>3. PICK s \in B : \A t \in SUBSET s : t \in B => t = s
    BY <2>2
  <2>4. PICK y \in s : g[s] # f[y] + g[s \ {y}]
    BY <2>3
  <2> DEFINE c == First(s)
  <2>5. c \in s /\ g[s] = f[c] + g[s \ {c}]
    BY <1>1, FirstMember DEF IsSum
  <2>6. c # y
    BY <2>4, <2>5
  <2>7. s \ {c} \notin B /\ s \ {y} \notin B
    BY <2>3, <2>5
  <2>8. g[s \ {c}] = f[y] + g[(s \ {c}) \ {y}]
    BY <2>6, <2>7
  <2>9. g[s \ {y}] = f[c] + g[(s \ {y}) \ {c}]
    BY <2>5, <2>6, <2>7
  <2>10. PICK w : w = (s \ {c}) \ {y} /\ w = (s \ {y}) \ {c}
    OBVIOUS
  <2>11. f[c] \in Nat /\ f[y] \in Nat /\ g[w] \in Nat
    BY <1>2, <2>5, <2>10
  <2>12. g[s \ {c}] = f[y] + g[w] /\ g[s \ {y}] = f[c] + g[w]
    BY <2>8, <2>9, <2>10
  <2>13. g[s] = f[c] + (f[y] + g[w]) /\ g[s] # f[y] + (f[c] + g[w])
    BY <2>4, <2>5, <2>12
  <2> QED
    BY <2>11, <2>13
<1>4. g[S] = f[x] + g[S \ {x}]
  BY <1>3
<1> QED
  BY <1>1, <1>4, SumRestrict

(* Adding an element adds what it is worth. *)
LEMMA SumAdd ==
    ASSUME NEW S, IsFiniteSet(S), NEW x, x \notin S,
           NEW f, \A y \in S \cup {x} : f[y] \in Nat
    PROVE  SumOf(S \cup {x}, f) = f[x] + SumOf(S, f)
<1>1. IsFiniteSet(S \cup {x}) /\ (S \cup {x}) \ {x} = S
  BY FS_AddElement
<1> QED
  BY <1>1, SumRemove

(* A sum depends on the elements of the set only. *)
LEMMA SumSame ==
    ASSUME NEW S, IsFiniteSet(S), NEW f, NEW e, \A x \in S : f[x] = e[x]
    PROVE  SumOf(S, f) = SumOf(S, e)
<1>1. IsSum(SumFcn(S, f), S, f) /\ IsSum(SumFcn(S, e), S, e)
  BY SumExists DEF SumFcn
<1> QED
  BY <1>1, SumUnique DEF SumOf

-----------------------------------------------------------------------------
(* Stock. *)

(* How much of a product each request asks for. *)
Taken(p) == [o \in Requests |-> LinesOf(ask[o].cart)[p]]

(* The stock adds up, and only carts whose every item was found are orders:
   what such a cart asks for is a number of each product. *)
StockInv ==
    /\ \A o \in orders : AllFound(o)
    /\ \A p \in Products : InitialStock[p] = stock[p] + SumOf(orders, Taken(p))

(* The fold of StockConserved is the sum of StockInv. *)
LEMMA FoldIsSum ==
    ASSUME orders \subseteq Requests, NEW p \in Products
    PROVE  MapThenSumSet(LAMBDA o : LinesOf(ask[o].cart)[p], orders) = SumOf(orders, Taken(p))
<1> DEFINE IsFold(g) ==
             g = [s \in SUBSET orders |->
                     IF s = {} THEN 0
                     ELSE LinesOf(ask[First(s)].cart)[p] + g[s \ {First(s)}]]
<1>1. MapThenSumSet(LAMBDA o : LinesOf(ask[o].cart)[p], orders)
        = (CHOOSE g : IsFold(g))[orders]
  BY DEF MapThenSumSet, MapThenFoldSet, First
<1>2. \A s \in SUBSET orders : s # {} => Taken(p)[First(s)] = LinesOf(ask[First(s)].cart)[p]
  BY FirstMember DEF Taken
<1>3. \A g : IsFold(g) <=> IsSum(g, orders, Taken(p))
  BY <1>2 DEF IsSum
<1>4. (CHOOSE g : IsFold(g)) = SumFcn(orders, Taken(p))
  <2> HIDE DEF IsFold
  <2> QED
    BY <1>3 DEF SumFcn
<1> QED
  BY <1>1, <1>4 DEF SumOf

(* At the start there are no orders and all the stock. *)
LEMMA StockInit == Init => StockInv
<1> SUFFICES ASSUME Init PROVE StockInv
  OBVIOUS
<1>1. \A p \in Products : SumOf(orders, Taken(p)) = 0
  BY FS_EmptySet, SumType DEF Init
<1> QED
  BY <1>1, CreationAssumption DEF Init, StockInv

(* What a commit takes out of the stock is what its order asks for. *)
LEMMA InstallStock ==
    ASSUME IInv, StockInv, NEW r \in Requests, pc[r] = "commit", Install(r), ask' = ask
    PROVE  StockInv'
<1> TypeOK /\ TxInv /\ LockInv /\ CommitInv
  BY DEF IInv
<1>1. tx[r] = "inserted" /\ r \notin orders /\ orders \subseteq Requests
  BY DEF TxInv, TypeOK
<1>2. IsFiniteSet(orders) /\ orders' = orders \cup {r}
  BY <1>1, CreationAssumption, FS_Subset DEF Install
<1>3. Reservable(r)
  BY DEF CommitInv
<1>4. \A o \in orders' : o \in Requests /\ AllFound(o)
  BY <1>1, <1>2, <1>3 DEF StockInv, Reservable
<1>5. \A o \in orders' : AllFound(o)'
  BY <1>4 DEF AllFound, Rows
<1>6. ASSUME NEW p \in Products
      PROVE  (InitialStock[p] = stock[p] + SumOf(orders, Taken(p)))'
  <2>1. \A o \in orders \cup {r} : Taken(p)[o] \in Nat
    <3>1. \A o \in orders' : LinesOf(ask[o].cart) \in [Products -> Nat]
      BY <1>4, AskServiceable
    <3> QED
      BY <1>2, <1>4, <3>1 DEF Taken
  <2>2. SumOf(orders \cup {r}, Taken(p)) = Taken(p)[r] + SumOf(orders, Taken(p))
    BY <1>1, <1>2, <2>1, SumAdd
  <2>3. SumOf(orders, Taken(p)) \in Nat /\ Taken(p)[r] \in Nat
    BY <1>2, <2>1, SumType
  <2>4. stock[p] \in Nat /\ InitialStock[p] = stock[p] + SumOf(orders, Taken(p))
    BY DEF TypeOK, StockInv
  <2>5. stock'[p] = stock[p] - Taken(p)[r]
    <3>1. CASE p \in Rows(r)
      <4>1. lock[p] = r
        BY <1>3, <3>1 DEF Reservable, Locked
      <4>2. seen[r][p] = stock[p]
        BY <4>1, CreationAssumption DEF LockInv
      <4> QED
        BY <3>1, <4>2 DEF Install, Taken
    <3>2. CASE p \notin Rows(r)
      <4>1. LinesOf(ask[r].cart)[p] = 0
        BY <3>2 DEF Rows, LinesOf
      <4> QED
        BY <3>2, <4>1, <2>4 DEF Install, Taken
    <3> QED
      BY <3>1, <3>2
  <2>6. Taken(p)' = Taken(p)
    BY DEF Taken
  <2>7. (SumOf(orders, Taken(p)))' = SumOf(orders', Taken(p)')
    BY DEF SumOf, SumFcn, IsSum, First
  <2> QED
    BY <1>2, <2>2, <2>3, <2>4, <2>5, <2>6, <2>7
<1> QED
  BY <1>5, <1>6 DEF StockInv

(* Every step keeps the account of the stock. *)
LEMMA StockStep ==
    ASSUME IInv, StockInv, [Next]_vars
    PROVE  StockInv'
<1> TypeOK /\ TxInv
  BY DEF IInv
<1>1. \/ UNCHANGED <<orders, stock, ask>>
      \/ \E r \in Requests : Submit(r)
      \/ \E r \in Requests : pc[r] = "commit" /\ Install(r) /\ ask' = ask
  <2> USE DEF tables
  <2>1. ASSUME NEW r \in Requests, Advance(r)
        PROVE  \/ UNCHANGED <<orders, stock, ask>>
               \/ pc[r] = "commit" /\ Install(r) /\ ask' = ask
    BY <2>1 DEF Advance, BeginTx, InsertOrder, InsertDuplicate, Lookup, LockRow, WaitRow,
         DeadlockAbort, SelectNothing, MissingProducts, OutOfStock, ReserveStock, Commit,
         Dispose, Publish, PublishFails
  <2>2. ASSUME NEW r \in Requests, Fail(r)
        PROVE  \/ UNCHANGED <<orders, stock, ask>>
               \/ pc[r] = "commit" /\ Install(r) /\ ask' = ask
    BY <2>2 DEF Fail, ConnectFails, CommitUnknown, StatementFails, DisposeFails
  <2>3. ASSUME NEW r \in Requests, SubmitWithoutKey(r) \/ BackendCleanup(r)
        PROVE  UNCHANGED <<orders, stock, ask>>
    BY <2>3 DEF SubmitWithoutKey, BackendCleanup
  <2>4. CASE Flush \/ ChannelClose \/ Crash \/ Quiescent \/ UNCHANGED vars
    BY <2>4 DEF Flush, ChannelClose, Crash, Quiescent, vars
  <2> QED
    BY <2>1, <2>2, <2>3, <2>4 DEF Next
<1>2. IsFiniteSet(orders) /\ orders \subseteq Requests
  BY CreationAssumption, FS_Subset DEF TypeOK
<1>3. ASSUME orders' = orders, stock' = stock, \A o \in orders : ask'[o] = ask[o]
      PROVE  StockInv'
  <2>1. \A o \in orders' : AllFound(o)'
    BY <1>3 DEF StockInv, AllFound, Rows
  <2>2. ASSUME NEW p \in Products
        PROVE  (InitialStock[p] = stock[p] + SumOf(orders, Taken(p)))'
    <3>1. \A o \in orders : Taken(p)[o] = Taken(p)'[o]
      BY <1>2, <1>3 DEF Taken
    <3>2. SumOf(orders, Taken(p)) = SumOf(orders, Taken(p)')
      BY <1>2, <3>1, SumSame
    <3>3. (SumOf(orders, Taken(p)))' = SumOf(orders', Taken(p)')
      BY DEF SumOf, SumFcn, IsSum, First
    <3> QED
      BY <1>3, <3>2, <3>3 DEF StockInv
  <2> QED
    BY <2>1, <2>2 DEF StockInv
<1>4. ASSUME NEW r \in Requests, Submit(r)
      PROVE  StockInv'
  <2>1. orders' = orders /\ stock' = stock
    BY <1>4 DEF Submit, tables
  <2>2. \A o \in orders : ask'[o] = ask[o]
    BY <1>4 DEF Submit, TxInv, TypeOK
  <2> QED
    BY <1>3, <2>1, <2>2
<1> QED
  BY <1>1, <1>3, <1>4, InstallStock

(* The stock of a product and what the orders took of it always add up to what
   there was, whatever requests, retries, failures and crashes come. *)
THEOREM StockIsConserved == Spec => []StockConserved
<1>1. Init => StockInv
  BY StockInit
<1>2. IInv /\ StockInv /\ [Next]_vars => StockInv'
  BY StockStep
<1>3. IInv /\ StockInv => StockConserved
  <2> SUFFICES ASSUME IInv, StockInv PROVE StockConserved
    OBVIOUS
  <2>1. orders \subseteq Requests
    BY DEF IInv, TypeOK
  <2> QED
    BY <2>1, FoldIsSum DEF StockInv, StockConserved
<1> QED
  BY <1>1, <1>2, <1>3, CreationInvariant, PTL DEF Spec

-----------------------------------------------------------------------------
(* Connections. *)

(* The requests that hold a connection of the pool. *)
Users == {r \in Requests : pc[r] \in UsesConnection}

(* At the start every connection is free. *)
LEMMA PoolInit == Init => PoolAccounted
<1> SUFFICES ASSUME Init PROVE PoolAccounted
  OBVIOUS
<1>1. Users = {}
  BY DEF Init, Users, UsesConnection
<1>2. Cardinality(Users) = 0
  BY <1>1, FS_EmptySet
<1>3. idle = PoolSize /\ PoolSize \in Nat
  BY CreationAssumption DEF Init
<1> QED
  BY <1>2, <1>3 DEF PoolAccounted, Users

(* A connection is taken by a request that had none, given back by one that
   had one, and all of them come back when the process dies. *)
LEMMA PoolMoves ==
    ASSUME TypeOK, [Next]_vars
    PROVE  \/ idle' = idle /\ Users' = Users
           \/ \E r \in Requests \ Users : idle > 0 /\ idle' = idle - 1 /\ Users' = Users \cup {r}
           \/ \E r \in Users : idle' = idle + 1 /\ Users' = Users \ {r}
           \/ idle' = PoolSize /\ Users' = {}
<1> USE DEF TypeOK, Users, UsesConnection, Goto, Answer
<1>1. ASSUME NEW r \in Requests, SubmitWithoutKey(r) \/ Submit(r) \/ ConnectFails(r)
      PROVE  idle' = idle /\ Users' = Users
  BY <1>1 DEF SubmitWithoutKey, Submit, ConnectFails
<1>2. ASSUME NEW r \in Requests, BeginTx(r)
      PROVE  /\ r \in Requests \ Users
             /\ idle > 0 /\ idle' = idle - 1
             /\ Users' = Users \cup {r}
  BY <1>2 DEF BeginTx
<1>3. ASSUME NEW r \in Requests, InsertOrder(r) \/ InsertDuplicate(r) \/ Lookup(r)
      PROVE  idle' = idle /\ Users' = Users
  BY <1>3 DEF InsertOrder, InsertDuplicate, Lookup
<1>4. ASSUME NEW r \in Requests, NEW p \in Products, LockRow(r, p) \/ WaitRow(r, p)
      PROVE  idle' = idle /\ Users' = Users
  BY <1>4 DEF LockRow, WaitRow
<1>5. ASSUME NEW r \in Requests, DeadlockAbort(r) \/ SelectNothing(r) \/ StatementFails(r)
      PROVE  idle' = idle /\ Users' = Users
  BY <1>5 DEF DeadlockAbort, SelectNothing, StatementFails
<1>6. ASSUME NEW r \in Requests, MissingProducts(r) \/ OutOfStock(r) \/ ReserveStock(r)
      PROVE  idle' = idle /\ Users' = Users
  BY <1>6 DEF MissingProducts, OutOfStock, ReserveStock, SelectDone
<1>7. ASSUME NEW r \in Requests, Commit(r) \/ CommitUnknown(r)
      PROVE  idle' = idle /\ Users' = Users
  BY <1>7 DEF Commit, CommitUnknown
<1>8. ASSUME NEW r \in Requests, Dispose(r) \/ DisposeFails(r)
      PROVE  r \in Users /\ idle' = idle + 1 /\ Users' = Users \ {r}
  <2>1. pc[r] \in {"dispose", "broken"} /\ idle' = idle + 1
    BY <1>8 DEF Dispose, DisposeFails, EndTx
  <2>2. pc' = [pc EXCEPT ![r] = "publish"] \/ pc' = [pc EXCEPT ![r] = "done"]
    BY <1>8 DEF Dispose, DisposeFails
  <2> QED
    BY <2>1, <2>2
<1>9. ASSUME NEW r \in Requests, Publish(r) \/ PublishFails(r)
      PROVE  idle' = idle /\ Users' = Users
  BY <1>9 DEF Publish, PublishFails
<1>10. CASE Crash
  BY <1>10 DEF Crash
<1>11. ASSUME NEW r \in Requests, BackendCleanup(r)
       PROVE  idle' = idle /\ Users' = Users
  BY <1>11 DEF BackendCleanup
<1>12. CASE Flush \/ ChannelClose \/ Quiescent \/ UNCHANGED vars
  BY <1>12 DEF Flush, ChannelClose, Quiescent, vars
<1> QED
  BY <1>1, <1>2, <1>3, <1>4, <1>5, <1>6, <1>7, <1>8, <1>9, <1>10, <1>11, <1>12
     DEF Next, Advance, Fail

(* Every step keeps the account of the pool. *)
LEMMA PoolStep ==
    ASSUME TypeOK, PoolAccounted, [Next]_vars
    PROVE  PoolAccounted'
<1>1. IsFiniteSet(Users) /\ Cardinality(Users) \in Nat
  BY CreationAssumption, FS_Subset, FS_CardinalityType DEF Users
<1>2. idle \in Nat /\ idle + Cardinality(Users) = PoolSize /\ PoolSize \in Nat
  BY CreationAssumption DEF TypeOK, PoolAccounted, Users
<1>3. CASE idle' = idle /\ Users' = Users
  BY <1>2, <1>3 DEF PoolAccounted, Users
<1>4. ASSUME NEW r \in Requests \ Users, idle' = idle - 1, Users' = Users \cup {r}
      PROVE  PoolAccounted'
  <2>1. Cardinality(Users') = Cardinality(Users) + 1
    BY <1>1, <1>4, FS_AddElement
  <2> QED
    BY <1>1, <1>2, <1>4, <2>1 DEF PoolAccounted, Users
<1>5. ASSUME NEW r \in Users, idle' = idle + 1, Users' = Users \ {r}
      PROVE  PoolAccounted'
  <2>1. Cardinality(Users') = Cardinality(Users) - 1
    BY <1>1, <1>5, FS_RemoveElement
  <2> QED
    BY <1>1, <1>2, <1>5, <2>1 DEF PoolAccounted, Users
<1>6. CASE idle' = PoolSize /\ Users' = {}
  BY <1>2, <1>6, FS_EmptySet DEF PoolAccounted, Users
<1> QED
  BY <1>3, <1>4, <1>5, <1>6, PoolMoves

(* However a request ends, its connection comes back, and comes back once. *)
THEOREM PoolIsAccounted == Spec => []PoolAccounted
<1>1. TypeOK /\ PoolAccounted /\ [Next]_vars => PoolAccounted'
  BY PoolStep
<1> QED
  BY <1>1, PoolInit, CreationTypeCorrect, PTL DEF Spec

-----------------------------------------------------------------------------
(* Messages. *)

(* Nothing deletes an order. *)
LEMMA OrdersStay ==
    ASSUME [Next]_vars
    PROVE  orders \subseteq orders'
<1> USE DEF tables, Install
<1>1. ASSUME NEW r \in Requests, Advance(r)
      PROVE  orders \subseteq orders'
  BY <1>1 DEF Advance, BeginTx, InsertOrder, InsertDuplicate, Lookup, LockRow, WaitRow,
       DeadlockAbort, SelectNothing, MissingProducts, OutOfStock, ReserveStock, Commit,
       Dispose, Publish, PublishFails
<1>2. ASSUME NEW r \in Requests, Fail(r)
      PROVE  orders \subseteq orders'
  BY <1>2 DEF Fail, ConnectFails, CommitUnknown, StatementFails, DisposeFails
<1>3. ASSUME NEW r \in Requests, SubmitWithoutKey(r) \/ Submit(r) \/ BackendCleanup(r)
      PROVE  orders \subseteq orders'
  BY <1>3 DEF SubmitWithoutKey, Submit, BackendCleanup
<1>4. CASE Flush \/ ChannelClose \/ Crash \/ Quiescent \/ UNCHANGED vars
  BY <1>4 DEF Flush, ChannelClose, Crash, Quiescent, vars
<1> QED
  BY <1>1, <1>2, <1>3, <1>4 DEF Next

(* A request that was answered is not answered again. *)
LEMMA AnswersStay ==
    ASSUME IInv, [Next]_vars, NEW o \in Requests, reply[o] # 0
    PROVE  reply'[o] = reply[o]
<1> TypeOK /\ OutcomeInv
  BY DEF IInv
<1>1. ASSUME NEW r \in Requests, NEW status, pc[r] # "done", Answer(r, status)
      PROVE  reply'[o] = reply[o]
  BY <1>1 DEF TypeOK, OutcomeInv, Answer
<1>2. ASSUME NEW r \in Requests, Advance(r)
      PROVE  reply'[o] = reply[o]
  <2>1. CASE Dispose(r) \/ Publish(r) \/ PublishFails(r)
    BY <1>1, <2>1 DEF Dispose, Publish, PublishFails
  <2>2. reply' = reply \/ Dispose(r) \/ Publish(r) \/ PublishFails(r)
    BY <1>2 DEF Advance, BeginTx, InsertOrder, InsertDuplicate, Lookup, LockRow, WaitRow,
         DeadlockAbort, SelectNothing, MissingProducts, OutOfStock, ReserveStock, Commit
  <2> QED
    BY <2>1, <2>2
<1>3. ASSUME NEW r \in Requests, Fail(r)
      PROVE  reply'[o] = reply[o]
  <2>1. CASE ConnectFails(r) \/ DisposeFails(r)
    BY <1>1, <2>1 DEF ConnectFails, DisposeFails
  <2>2. CASE CommitUnknown(r) \/ StatementFails(r)
    BY <2>2 DEF CommitUnknown, StatementFails
  <2> QED
    BY <1>3, <2>1, <2>2 DEF Fail
<1>4. ASSUME NEW r \in Requests, SubmitWithoutKey(r) \/ Submit(r) \/ BackendCleanup(r)
      PROVE  reply'[o] = reply[o]
  <2>1. CASE SubmitWithoutKey(r)
    BY <1>1, <2>1 DEF SubmitWithoutKey
  <2>2. CASE Submit(r) \/ BackendCleanup(r)
    BY <2>2 DEF Submit, BackendCleanup
  <2> QED
    BY <1>4, <2>1, <2>2
<1>5. CASE Flush \/ ChannelClose \/ Crash \/ Quiescent \/ UNCHANGED vars
  BY <1>5 DEF Flush, ChannelClose, Crash, Quiescent, vars
<1> QED
  BY <1>2, <1>3, <1>4, <1>5 DEF Next

(* Messages move from the channel to the broker in order, are lost from the
   end, and a handler adds the order that it created itself. *)
LEMMA PublishedMoves ==
    ASSUME IInv, [Next]_vars
    PROVE  \/ Published' = Published
           \/ Published' = queue
           \/ \E r \in orders : /\ reply[r] = 0 /\ reply'[r] = 201
                                /\ Published' = Append(Published, r)
<1> TypeOK /\ TxInv /\ OutcomeInv
  BY DEF IInv
<1> queue \in Seq(Requests) /\ outbox \in Seq(Requests)
  BY DEF TypeOK
<1>1. ASSUME NEW r \in Requests, Publish(r)
      PROVE  /\ r \in orders /\ reply[r] = 0 /\ reply'[r] = 201
             /\ Published' = Append(Published, r)
  <2>1. r \in orders /\ outcome[r].order = r /\ outcome[r].status = 201 /\ reply[r] = 0
    BY <1>1, CreationAssumption DEF Publish, TxInv, OutcomeInv
  <2>2. queue' = queue /\ outbox' = Append(outbox, r)
    BY <1>1, <2>1 DEF Publish
  <2>3. reply'[r] = 201
    BY <1>1, <2>1 DEF Publish, Answer, TypeOK
  <2> QED
    BY <2>1, <2>2, <2>3 DEF Published
<1>2. CASE Flush
  <2>1. queue' = Append(queue, Head(outbox)) /\ outbox' = Tail(outbox) /\ outbox # <<>>
    BY <1>2 DEF Flush
  <2> QED
    BY <2>1 DEF Published
<1>3. CASE ChannelClose \/ Crash
  <2>1. queue' = queue /\ outbox' = <<>>
    BY <1>3 DEF ChannelClose, Crash
  <2> QED
    BY <2>1 DEF Published
<1>4. CASE UNCHANGED <<queue, outbox>>
  BY <1>4 DEF Published
<1>5. \/ \E r \in Requests : Publish(r)
      \/ Flush \/ ChannelClose \/ Crash
      \/ UNCHANGED <<queue, outbox>>
  <2> USE DEF mq
  <2>1. ASSUME NEW r \in Requests, Advance(r)
        PROVE  Publish(r) \/ UNCHANGED <<queue, outbox>>
    BY <2>1 DEF Advance, BeginTx, InsertOrder, InsertDuplicate, Lookup, LockRow, WaitRow,
         DeadlockAbort, SelectNothing, MissingProducts, OutOfStock, ReserveStock, Commit,
         Dispose, PublishFails
  <2>2. ASSUME NEW r \in Requests, Fail(r)
        PROVE  UNCHANGED <<queue, outbox>>
    BY <2>2 DEF Fail, ConnectFails, CommitUnknown, StatementFails, DisposeFails
  <2>3. ASSUME NEW r \in Requests, SubmitWithoutKey(r) \/ Submit(r) \/ BackendCleanup(r)
        PROVE  UNCHANGED <<queue, outbox>>
    BY <2>3 DEF SubmitWithoutKey, Submit, BackendCleanup
  <2>4. CASE Quiescent \/ UNCHANGED vars
    BY <2>4 DEF Quiescent, vars
  <2> QED
    BY <2>1, <2>2, <2>3, <2>4 DEF Next
<1> QED
  BY <1>1, <1>2, <1>3, <1>4, <1>5

(* Every step publishes an order that was not published before, or none. *)
LEMMA PublishedStep ==
    ASSUME IInv, PublishedOnce, [Next]_vars
    PROVE  PublishedOnce'
<1>1. queue \in Seq(Requests) /\ outbox \in Seq(Requests) /\ Published \in Seq(Requests)
  BY DEF IInv, TypeOK, Published
<1>2. \A i \in DOMAIN Published :
          /\ Published[i] \in orders'
          /\ reply'[Published[i]] = 201
          /\ reply[Published[i]] = 201
  BY <1>1, OrdersStay, AnswersStay DEF PublishedOnce
<1>3. CASE Published' = Published
  BY <1>2, <1>3 DEF PublishedOnce
<1>4. CASE Published' = queue
  <2>1. \A i \in DOMAIN queue : i \in DOMAIN Published /\ Published[i] = queue[i]
    BY <1>1 DEF Published
  <2> QED
    BY <1>2, <1>4, <2>1 DEF PublishedOnce
<1>5. ASSUME NEW r \in orders, reply[r] = 0, reply'[r] = 201, Published' = Append(Published, r)
      PROVE  PublishedOnce'
  <2>1. r \in orders' /\ r \in Requests
    BY OrdersStay DEF IInv, TypeOK
  <2>2. \A i \in DOMAIN Published : Published[i] # r
    BY <1>2, <1>5
  <2>3. \A i \in DOMAIN Published' :
            \/ i \in DOMAIN Published /\ Published'[i] = Published[i]
            \/ i = Len(Published) + 1 /\ Published'[i] = r
    BY <1>1, <1>5, <2>1
  <2> QED
    BY <1>2, <1>5, <2>1, <2>2, <2>3 DEF PublishedOnce
<1> QED
  BY <1>3, <1>4, <1>5, PublishedMoves

(* No order is published twice, none before it is committed, and none whose
   client was not told 201, in whatever order messages are sent, delivered
   and lost. *)
THEOREM PublishedAtMostOnce == Spec => []PublishedOnce
<1>1. Init => PublishedOnce
  BY DEF Init, PublishedOnce, Published
<1>2. IInv /\ PublishedOnce /\ [Next]_vars => PublishedOnce'
  BY PublishedStep
<1> QED
  BY <1>1, <1>2, CreationInvariant, PTL DEF Spec
=============================================================================
