------------------------ MODULE OrderCreationProofs ------------------------
(* Theorems about OrderCreation, for any requests, carts, stock and pool. *)
EXTENDS OrderCreation, FiniteSetTheorems, TLAPS

-----------------------------------------------------------------------------
(* The cart. *)

(* The ids of a cart are as many as its items exactly when no id is repeated. *)
LEMMA CartIds ==
    ASSUME NEW cart \in Seq(Items)
    PROVE  /\ IsFiniteSet(NamedIds(cart))
           /\ Cardinality(NamedIds(cart)) \in Nat
           /\ Cardinality(NamedIds(cart)) <= Len(cart)
           /\ Cardinality(NamedIds(cart)) = Len(cart)
                <=> \A i, j \in DOMAIN cart : cart[i].id = cart[j].id => i = j
<1> DEFINE f == [i \in 1..Len(cart) |-> cart[i].id]
<1>1. Len(cart) \in Nat /\ DOMAIN cart = 1..Len(cart)
  OBVIOUS
<1>2. f \in Surjection(1..Len(cart), NamedIds(cart))
  BY <1>1 DEF Surjection, NamedIds
<1>3. IsFiniteSet(1..Len(cart)) /\ Cardinality(1..Len(cart)) = Len(cart)
  BY <1>1, FS_Interval
<1>4. /\ IsFiniteSet(NamedIds(cart))
      /\ Cardinality(NamedIds(cart)) <= Len(cart)
      /\ Cardinality(NamedIds(cart)) = Len(cart) <=> f \in Injection(1..Len(cart), NamedIds(cart))
  BY <1>2, <1>3, FS_Surjection
<1>5. f \in Injection(1..Len(cart), NamedIds(cart))
        <=> \A i, j \in DOMAIN cart : cart[i].id = cart[j].id => i = j
  BY <1>1, <1>2 DEF Injection, Surjection, IsInjective
<1> QED
  BY <1>4, <1>5, FS_CardinalityType

(* products.length = dto.items.length says that every item names a product of
   its own: the count catches repeated ids as well as unknown ones. *)
THEOREM CountFindsServiceable ==
    ASSUME NEW cart \in Seq(Items)
    PROVE  Cardinality(NamedIds(cart) \cap Products) = Len(cart) <=> Serviceable(cart)
<1> DEFINE R == NamedIds(cart) \cap Products
<1>1. /\ IsFiniteSet(R) /\ Cardinality(R) \in Nat
      /\ Cardinality(R) <= Cardinality(NamedIds(cart))
      /\ Cardinality(R) = Cardinality(NamedIds(cart)) => R = NamedIds(cart)
  BY CartIds, FS_Subset, FS_CardinalityType
<1>2. Len(cart) \in Nat
  OBVIOUS
<1>3. ASSUME Cardinality(R) = Len(cart)
      PROVE  Serviceable(cart)
  <2>1. Cardinality(NamedIds(cart)) = Len(cart) /\ R = NamedIds(cart)
    BY <1>1, <1>2, <1>3, CartIds
  <2> QED
    BY <2>1, CartIds DEF Serviceable, NamedIds
<1>4. ASSUME Serviceable(cart)
      PROVE  Cardinality(R) = Len(cart)
  <2>1. R = NamedIds(cart)
    BY <1>4 DEF Serviceable, NamedIds
  <2> QED
    BY <1>4, <2>1, CartIds DEF Serviceable
<1> QED
  BY <1>3, <1>4

(* A cart whose items name products of their own asks for a number of each. *)
LEMMA ServiceableQty ==
    ASSUME NEW cart \in Seq(Items), Serviceable(cart)
    PROVE  /\ NamedIds(cart) \subseteq Products
           /\ LinesOf(cart) \in [Products -> Nat]
<1>1. NamedIds(cart) \subseteq Products
  BY DEF Serviceable, NamedIds
<1>2. ASSUME NEW p \in NamedIds(cart)
      PROVE  QtyOf(cart, p) \in Nat
  <2>1. PICK i \in DOMAIN cart : cart[i].id = p
    BY <1>2 DEF NamedIds
  <2>2. \A j \in DOMAIN cart : cart[j].id = p => j = i
    BY <2>1 DEF Serviceable
  <2>3. i \in 1..Len(cart) /\ cart[i] \in Items
    BY <2>1
  <2>4. \A j \in DOMAIN cart : cart[j].id = p => j <= i
    BY <2>2, <2>3
  <2>5. (CHOOSE k \in DOMAIN cart :
            cart[k].id = p /\ \A j \in DOMAIN cart : cart[j].id = p => j <= k) = i
    BY <2>1, <2>2, <2>4
  <2> QED
    BY <2>3, <2>5 DEF QtyOf, Items
<1> QED
  BY <1>1, <1>2 DEF LinesOf

(* Whatever a request was sent with, its cart is a sequence of items. *)
LEMMA AskCart ==
    ASSUME TypeOK, NEW r \in Requests
    PROVE  ask[r].cart \in Seq(Items)
<1>1. CASE ask[r] = NoAsk
  BY <1>1 DEF NoAsk
<1>2. CASE ask[r] \in Bodies
  BY <1>2 DEF Bodies
<1> QED
  BY <1>1, <1>2 DEF TypeOK

(* The carts that pass the count of findByIds name products of their own. *)
LEMMA AskServiceable ==
    ASSUME TypeOK, NEW r \in Requests, AllFound(r)
    PROVE  /\ Serviceable(ask[r].cart)
           /\ LinesOf(ask[r].cart) \in [Products -> Nat]
           /\ NamedIds(ask[r].cart) = Rows(r)
<1>1. ask[r].cart \in Seq(Items)
  BY AskCart
<1> QED
  BY <1>1, CountFindsServiceable, ServiceableQty DEF AllFound, Rows

-----------------------------------------------------------------------------
(* Type correctness. *)

DbTypeOK ==
    /\ tx \in [Requests -> TxStates]
    /\ lock \in [Products -> Requests \cup {None}]
    /\ target \in [Requests -> Products \cup {None}]
    /\ seen \in [Requests -> [Products -> Nat]]

(* Aborting a transaction keeps the types of the database's variables. *)
LEMMA AbortType ==
    ASSUME TypeOK, NEW r \in Requests, Abort(r)
    PROVE  DbTypeOK'
BY DEF Abort, ReleaseRows, TypeOK, DbTypeOK, TxStates, Unread

(* Disposing of a transaction keeps the types, and gives a connection back. *)
LEMMA EndTxType ==
    ASSUME TypeOK, NEW r \in Requests, EndTx(r)
    PROVE  DbTypeOK' /\ idle' \in Nat
<1>1. CASE tx[r] = "committed"
  BY <1>1 DEF EndTx, db, TypeOK, DbTypeOK
<1>2. CASE tx[r] # "committed"
  BY <1>2, AbortType DEF EndTx, TypeOK
<1> QED
  BY <1>1, <1>2

(* Committing keeps the types: no stock becomes negative. *)
LEMMA InstallType ==
    ASSUME TypeOK, CommitInv, NEW r \in Requests, pc[r] = "commit", Install(r)
    PROVE  DbTypeOK' /\ orders' \subseteq Requests /\ stock' \in [Products -> Nat]
<1>1. DbTypeOK'
  BY DEF Install, ReleaseRows, TypeOK, DbTypeOK, TxStates, Unread
<1>2. orders' \subseteq Requests
  BY DEF Install, TypeOK
<1>3. stock' \in [Products -> Nat]
  <2>1. AllFound(r) /\ InStock(r)
    BY DEF CommitInv, Reservable
  <2>2. LinesOf(ask[r].cart) \in [Products -> Nat]
    BY <2>1, AskServiceable
  <2>3. \A p \in Rows(r) : p \in Products /\ seen[r][p] - LinesOf(ask[r].cart)[p] \in Nat
    BY <2>1, <2>2 DEF InStock, Rows, TypeOK
  <2>4. stock' = [p \in Products |-> IF p \in Rows(r)
                                     THEN seen[r][p] - LinesOf(ask[r].cart)[p]
                                     ELSE stock[p]]
    BY DEF Install
  <2>5. \A p \in Products : stock[p] \in Nat
    BY DEF TypeOK
  <2> QED
    BY <2>3, <2>4, <2>5
<1> QED
  BY <1>1, <1>2, <1>3

(* The initial state is well typed. *)
LEMMA TypeInit == Init => TypeOK
BY CreationAssumption
   DEF Init, TypeOK, NoAsk, Open, Unread, Steps, TxStates

(* Every step keeps the types. *)
LEMMA TypeStep ==
    ASSUME IInv, [Next]_vars
    PROVE  TypeOK'
<1> TypeOK /\ CommitInv
  BY DEF IInv
<1> USE DEF DbTypeOK
<1>1. ASSUME NEW r \in Requests, SubmitWithoutKey(r)
      PROVE  TypeOK'
  BY <1>1 DEF TypeOK, SubmitWithoutKey, Answer, Goto, Steps, db, tables, mq
<1>2. ASSUME NEW r \in Requests, Submit(r)
      PROVE  TypeOK'
  BY <1>2, CreationAssumption DEF TypeOK, Submit, Goto, Steps, db, tables, mq
<1>3. ASSUME NEW r \in Requests, BeginTx(r)
      PROVE  TypeOK'
  BY <1>3 DEF TypeOK, BeginTx, Goto, Steps, TxStates, tables, mq
<1>4. ASSUME NEW r \in Requests, InsertOrder(r)
      PROVE  TypeOK'
  BY <1>4 DEF TypeOK, InsertOrder, Goto, Steps, TxStates, tables, mq
<1>5. ASSUME NEW r \in Requests, InsertDuplicate(r)
      PROVE  TypeOK'
  BY <1>5, AbortType DEF TypeOK, InsertDuplicate, Goto, Steps, tables, mq
<1>6. ASSUME NEW r \in Requests, Lookup(r)
      PROVE  TypeOK'
  BY <1>6 DEF TypeOK, Lookup, Result, KeyTaken, Goto, Steps, db, tables, mq
<1>7. ASSUME NEW r \in Requests, NEW p \in Products, LockRow(r, p)
      PROVE  TypeOK'
  BY <1>7 DEF TypeOK, LockRow, tables, mq
<1>8. ASSUME NEW r \in Requests, NEW p \in Products, WaitRow(r, p)
      PROVE  TypeOK'
  BY <1>8 DEF TypeOK, WaitRow, tables, mq
<1>9. ASSUME NEW r \in Requests, DeadlockAbort(r) \/ SelectNothing(r) \/ StatementFails(r)
      PROVE  TypeOK'
  <2>1. Abort(r) /\ Goto(r, "dispose") /\ UNCHANGED <<ask, tables, idle, outcome, reply, mq, faults>>
    BY <1>9 DEF DeadlockAbort, SelectNothing, StatementFails
  <2> QED
    BY <2>1, AbortType DEF TypeOK, Goto, Steps, tables, mq
<1>10. ASSUME NEW r \in Requests, MissingProducts(r) \/ OutOfStock(r) \/ ReserveStock(r)
       PROVE  TypeOK'
  <2>1. CASE MissingProducts(r)
    BY <2>1 DEF TypeOK, MissingProducts, Result, Goto, Steps, db, tables, mq
  <2>2. CASE OutOfStock(r)
    BY <2>2 DEF TypeOK, OutOfStock, Result, Goto, Steps, db, tables, mq
  <2>3. CASE ReserveStock(r)
    BY <2>3 DEF TypeOK, ReserveStock, Goto, Steps, db, tables, mq
  <2> QED
    BY <1>10, <2>1, <2>2, <2>3
<1>11. ASSUME NEW r \in Requests, Commit(r) \/ CommitUnknown(r)
       PROVE  TypeOK'
  <2>1. DbTypeOK' /\ orders' \subseteq Requests /\ stock' \in [Products -> Nat]
    BY <1>11, InstallType DEF Commit, CommitUnknown
  <2>2. CASE Commit(r)
    BY <2>1, <2>2 DEF TypeOK, Commit, Result, Goto, Steps, mq
  <2>3. CASE CommitUnknown(r)
    BY <2>1, <2>3 DEF TypeOK, CommitUnknown, Result, Goto, Steps, mq
  <2> QED
    BY <1>11, <2>2, <2>3
<1>12. ASSUME NEW r \in Requests, Dispose(r)
       PROVE  TypeOK'
  <2>1. DbTypeOK' /\ idle' \in Nat
    BY <1>12, EndTxType DEF Dispose
  <2>2. pc' \in [Requests -> Steps] /\ reply' \in [Requests -> {0, 201, 400, 404, 409, 500}]
    <3>1. \/ Goto(r, "publish") /\ UNCHANGED reply
          \/ Answer(r, outcome[r].status)
          \/ Answer(r, 500)
      BY <1>12 DEF Dispose
    <3>2. CASE Goto(r, "publish") /\ UNCHANGED reply
      BY <3>2 DEF TypeOK, Goto, Steps
    <3>3. CASE Answer(r, outcome[r].status)
      BY <3>3 DEF TypeOK, Answer, Goto, Steps
    <3>4. CASE Answer(r, 500)
      BY <3>4 DEF TypeOK, Answer, Goto, Steps
    <3> QED
      BY <3>1, <3>2, <3>3, <3>4
  <2> QED
    BY <1>12, <2>1, <2>2 DEF TypeOK, Dispose, tables, mq
<1>13. ASSUME NEW r \in Requests, DisposeFails(r)
       PROVE  TypeOK'
  <2>1. DbTypeOK' /\ idle' \in Nat
    BY <1>13, EndTxType DEF DisposeFails
  <2>2. Answer(r, 500) /\ UNCHANGED <<ask, tables, outcome, mq, faults>>
    BY <1>13 DEF DisposeFails
  <2> QED
    BY <2>1, <2>2 DEF TypeOK, Answer, Goto, Steps, tables, mq
<1>14. ASSUME NEW r \in Requests, Publish(r) \/ PublishFails(r) \/ ConnectFails(r)
       PROVE  TypeOK'
  <2>1. CASE Publish(r)
    <3>1. outcome[r].order \in Requests
      BY <2>1 DEF Publish, IInv, OutcomeInv, TypeOK, TxInv
    <3> QED
      BY <2>1, <3>1 DEF TypeOK, Publish, Answer, Goto, Steps, db, tables
  <2>2. CASE PublishFails(r)
    BY <2>2 DEF TypeOK, PublishFails, Answer, Goto, Steps, db, tables, mq
  <2>3. CASE ConnectFails(r)
    BY <2>3 DEF TypeOK, ConnectFails, Answer, Goto, Steps, db, tables, mq
  <2> QED
    BY <1>14, <2>1, <2>2, <2>3
<1>15. CASE Flush
  BY <1>15 DEF TypeOK, Flush, db, tables, mq
<1>16. CASE ChannelClose
  BY <1>16, CreationAssumption DEF TypeOK, ChannelClose, db, tables, mq
<1>17. CASE Crash
  BY <1>17, CreationAssumption DEF TypeOK, Crash, Steps, db, tables, mq
<1>18. ASSUME NEW r \in Requests, BackendCleanup(r)
       PROVE  TypeOK'
  BY <1>18, AbortType DEF TypeOK, BackendCleanup, tables, mq
<1>19. CASE UNCHANGED vars
  BY <1>19 DEF TypeOK, vars, db, tables, mq
<1> QED
  BY <1>1, <1>2, <1>3, <1>4, <1>5, <1>6, <1>7, <1>8, <1>9, <1>10, <1>11, <1>12, <1>13,
     <1>14, <1>15, <1>16, <1>17, <1>18, <1>19
     DEF Next, Advance, Fail, Quiescent

-----------------------------------------------------------------------------
(* The other conjuncts of the inductive invariant, each preserved by every
   step. *)

(* Every step keeps the step of a handler and its transaction together. *)
LEMMA TxStep ==
    ASSUME IInv, [Next]_vars
    PROVE  TxInv'
<1> TypeOK /\ TxInv /\ KeyInv /\ LockInv /\ CommitInv /\ OutcomeInv
  BY DEF IInv
<1> USE CreationAssumption DEF TypeOK, TxInv, Goto, Answer, db, tables, Steps, TxStates, NoAsk, Bodies
<1>1. ASSUME NEW r \in Requests, SubmitWithoutKey(r)
      PROVE  TxInv'
  BY <1>1 DEF SubmitWithoutKey
<1>2. ASSUME NEW r \in Requests, Submit(r)
      PROVE  TxInv'
  BY <1>2 DEF Submit
<1>3. ASSUME NEW r \in Requests, BeginTx(r)
      PROVE  TxInv'
  BY <1>3 DEF BeginTx
<1>4. ASSUME NEW r \in Requests, ConnectFails(r)
      PROVE  TxInv'
  BY <1>4 DEF ConnectFails
<1>5. ASSUME NEW r \in Requests, InsertOrder(r)
      PROVE  TxInv'
  BY <1>5 DEF InsertOrder
<1>6. ASSUME NEW r \in Requests, InsertDuplicate(r)
      PROVE  TxInv'
  BY <1>6 DEF InsertDuplicate, Abort, ReleaseRows
<1>7. ASSUME NEW r \in Requests, Lookup(r)
      PROVE  TxInv'
  BY <1>7 DEF Lookup
<1>8. ASSUME NEW r \in Requests, NEW p \in Products, LockRow(r, p)
      PROVE  TxInv'
  BY <1>8 DEF LockRow
<1>9. ASSUME NEW r \in Requests, NEW p \in Products, WaitRow(r, p)
      PROVE  TxInv'
  BY <1>9 DEF WaitRow
<1>10. ASSUME NEW r \in Requests, DeadlockAbort(r)
       PROVE  TxInv'
  BY <1>10 DEF DeadlockAbort, Abort, ReleaseRows
<1>11. ASSUME NEW r \in Requests, SelectNothing(r)
       PROVE  TxInv'
  BY <1>11 DEF SelectNothing, Abort, ReleaseRows
<1>12. ASSUME NEW r \in Requests, MissingProducts(r)
       PROVE  TxInv'
  BY <1>12 DEF MissingProducts, SelectDone
<1>13. ASSUME NEW r \in Requests, OutOfStock(r)
       PROVE  TxInv'
  BY <1>13 DEF OutOfStock, SelectDone
<1>14. ASSUME NEW r \in Requests, ReserveStock(r)
       PROVE  TxInv'
  BY <1>14 DEF ReserveStock, SelectDone
<1>15. ASSUME NEW r \in Requests, Commit(r)
       PROVE  TxInv'
  BY <1>15 DEF Commit, Install, ReleaseRows, Result
<1>16. ASSUME NEW r \in Requests, CommitUnknown(r)
       PROVE  TxInv'
  BY <1>16 DEF CommitUnknown, Install, ReleaseRows, Result
<1>17. ASSUME NEW r \in Requests, StatementFails(r)
       PROVE  TxInv'
  BY <1>17 DEF StatementFails, Abort, ReleaseRows
<1>18. ASSUME NEW r \in Requests, Dispose(r)
       PROVE  TxInv'
  <2>1. orders' = orders /\ ask' = ask
    BY <1>18 DEF Dispose
  <2>2. /\ tx[r] = "committed" => tx' = tx
        /\ tx[r] # "committed" => tx' = [tx EXCEPT ![r] = "aborted"]
    BY <1>18 DEF Dispose, EndTx, Abort
  <2>3. pc[r] = "dispose" /\ tx[r] # "none"
    BY <1>18 DEF Dispose
  <2>4. \/ tx[r] = "committed" /\ pc' = [pc EXCEPT ![r] = "publish"]
        \/ pc' = [pc EXCEPT ![r] = "done"]
    BY <1>18 DEF Dispose, OutcomeInv
  <2>5. CASE tx[r] = "committed" /\ pc' = [pc EXCEPT ![r] = "publish"]
    BY <2>1, <2>2, <2>3, <2>5
  <2>6. CASE tx[r] = "committed" /\ pc' = [pc EXCEPT ![r] = "done"]
    BY <2>1, <2>2, <2>3, <2>6
  <2>7. CASE tx[r] # "committed" /\ pc' = [pc EXCEPT ![r] = "done"]
    BY <2>1, <2>2, <2>3, <2>7
  <2> QED
    BY <2>4, <2>5, <2>6, <2>7
<1>19. ASSUME NEW r \in Requests, DisposeFails(r)
       PROVE  TxInv'
  BY <1>19 DEF DisposeFails, EndTx, Abort, ReleaseRows
<1>20. ASSUME NEW r \in Requests, Publish(r)
       PROVE  TxInv'
  BY <1>20 DEF Publish
<1>21. ASSUME NEW r \in Requests, PublishFails(r)
       PROVE  TxInv'
  BY <1>21 DEF PublishFails
<1>22. ASSUME NEW r \in Requests, BackendCleanup(r)
       PROVE  TxInv'
  BY <1>22 DEF BackendCleanup, Abort, ReleaseRows
<1>23. CASE Flush
  BY <1>23 DEF Flush
<1>24. CASE ChannelClose
  BY <1>24 DEF ChannelClose
<1>25. CASE Crash
  BY <1>25 DEF Crash
<1>26. CASE UNCHANGED vars
  BY <1>26 DEF vars
<1> QED
  BY <1>1, <1>2, <1>3, <1>4, <1>5, <1>6, <1>7, <1>8, <1>9, <1>10, <1>11, <1>12, <1>13,
     <1>14, <1>15, <1>16, <1>17, <1>18, <1>19, <1>20, <1>21, <1>22, <1>23, <1>24, <1>25,
     <1>26
     DEF Next, Advance, Fail, Quiescent

(* No step makes a second transaction hold a key. *)
LEMMA KeyStep ==
    ASSUME IInv, [Next]_vars
    PROVE  KeyInv'
<1> TypeOK /\ TxInv /\ KeyInv /\ LockInv /\ CommitInv /\ OutcomeInv
  BY DEF IInv
<1> USE CreationAssumption DEF TypeOK, TxInv, KeyInv, HoldsRow, KeyFree, db, tables, Bodies
<1>1. ASSUME NEW r \in Requests, SubmitWithoutKey(r)
      PROVE  KeyInv'
  BY <1>1 DEF SubmitWithoutKey
<1>2. ASSUME NEW r \in Requests, Submit(r)
      PROVE  KeyInv'
  BY <1>2 DEF Submit
<1>3. ASSUME NEW r \in Requests, BeginTx(r)
      PROVE  KeyInv'
  BY <1>3 DEF BeginTx
<1>4. ASSUME NEW r \in Requests, ConnectFails(r)
      PROVE  KeyInv'
  BY <1>4 DEF ConnectFails
<1>5. ASSUME NEW r \in Requests, InsertOrder(r)
      PROVE  KeyInv'
  BY <1>5 DEF InsertOrder
<1>6. ASSUME NEW r \in Requests, InsertDuplicate(r)
      PROVE  KeyInv'
  BY <1>6 DEF InsertDuplicate, Abort, ReleaseRows
<1>7. ASSUME NEW r \in Requests, Lookup(r)
      PROVE  KeyInv'
  BY <1>7 DEF Lookup
<1>8. ASSUME NEW r \in Requests, NEW p \in Products, LockRow(r, p)
      PROVE  KeyInv'
  BY <1>8 DEF LockRow
<1>9. ASSUME NEW r \in Requests, NEW p \in Products, WaitRow(r, p)
      PROVE  KeyInv'
  BY <1>9 DEF WaitRow
<1>10. ASSUME NEW r \in Requests, DeadlockAbort(r)
       PROVE  KeyInv'
  BY <1>10 DEF DeadlockAbort, Abort, ReleaseRows
<1>11. ASSUME NEW r \in Requests, SelectNothing(r)
       PROVE  KeyInv'
  BY <1>11 DEF SelectNothing, Abort, ReleaseRows
<1>12. ASSUME NEW r \in Requests, MissingProducts(r)
       PROVE  KeyInv'
  BY <1>12 DEF MissingProducts
<1>13. ASSUME NEW r \in Requests, OutOfStock(r)
       PROVE  KeyInv'
  BY <1>13 DEF OutOfStock
<1>14. ASSUME NEW r \in Requests, ReserveStock(r)
       PROVE  KeyInv'
  BY <1>14 DEF ReserveStock
<1>15. ASSUME NEW r \in Requests, Commit(r)
       PROVE  KeyInv'
  BY <1>15 DEF Commit, Install, ReleaseRows, Result
<1>16. ASSUME NEW r \in Requests, CommitUnknown(r)
       PROVE  KeyInv'
  BY <1>16 DEF CommitUnknown, Install, ReleaseRows, Result
<1>17. ASSUME NEW r \in Requests, StatementFails(r)
       PROVE  KeyInv'
  BY <1>17 DEF StatementFails, Abort, ReleaseRows
<1>18. ASSUME NEW r \in Requests, Dispose(r)
       PROVE  KeyInv'
  BY <1>18 DEF Dispose, EndTx, Abort, ReleaseRows
<1>19. ASSUME NEW r \in Requests, DisposeFails(r)
       PROVE  KeyInv'
  BY <1>19 DEF DisposeFails, EndTx, Abort, ReleaseRows
<1>20. ASSUME NEW r \in Requests, Publish(r)
       PROVE  KeyInv'
  BY <1>20 DEF Publish
<1>21. ASSUME NEW r \in Requests, PublishFails(r)
       PROVE  KeyInv'
  BY <1>21 DEF PublishFails
<1>22. ASSUME NEW r \in Requests, BackendCleanup(r)
       PROVE  KeyInv'
  BY <1>22 DEF BackendCleanup, Abort, ReleaseRows
<1>23. CASE Flush
  BY <1>23 DEF Flush
<1>24. CASE ChannelClose
  BY <1>24 DEF ChannelClose
<1>25. CASE Crash
  BY <1>25 DEF Crash
<1>26. CASE UNCHANGED vars
  BY <1>26 DEF vars
<1> QED
  BY <1>1, <1>2, <1>3, <1>4, <1>5, <1>6, <1>7, <1>8, <1>9, <1>10, <1>11, <1>12, <1>13,
     <1>14, <1>15, <1>16, <1>17, <1>18, <1>19, <1>20, <1>21, <1>22, <1>23, <1>24, <1>25,
     <1>26
     DEF Next, Advance, Fail, Quiescent

(* A commit changes the stock of the rows it releases and of no other. *)
LEMMA InstallKeepsLocks ==
    ASSUME IInv, NEW r \in Requests, Install(r), ask' = ask, pc[r] = "commit"
    PROVE  LockInv'
<1> TypeOK /\ LockInv /\ CommitInv
  BY DEF IInv
<1> SUFFICES ASSUME NEW p \in Products, lock'[p] # None
             PROVE  /\ tx'[lock'[p]] = "inserted"
                    /\ p \in Rows(lock[p])'
                    /\ seen'[lock'[p]][p] = stock'[p]
  BY DEF LockInv
<1>1. lock'[p] = lock[p] /\ lock[p] # r /\ lock[p] \in Requests
  BY DEF Install, ReleaseRows, TypeOK
<1>2. p \notin Rows(r)
  BY <1>1 DEF CommitInv, Reservable, Locked
<1>3. stock'[p] = stock[p]
  BY <1>2 DEF Install
<1>4. tx'[lock[p]] = tx[lock[p]] /\ seen'[lock[p]] = seen[lock[p]]
  BY <1>1 DEF Install, ReleaseRows, TypeOK
<1>5. p \in Rows(lock[p])'
  BY <1>1 DEF LockInv, Rows
<1> QED
  BY <1>1, <1>3, <1>4, <1>5 DEF LockInv

(* Every step leaves what lock owners read true. *)
LEMMA LockStep ==
    ASSUME IInv, [Next]_vars
    PROVE  LockInv'
<1> TypeOK /\ TxInv /\ KeyInv /\ LockInv /\ CommitInv /\ OutcomeInv
  BY DEF IInv
<1> USE CreationAssumption DEF TypeOK, TxInv, LockInv, Rows, db, tables
<1>1. ASSUME NEW r \in Requests, SubmitWithoutKey(r)
      PROVE  LockInv'
  BY <1>1 DEF SubmitWithoutKey
<1>2. ASSUME NEW r \in Requests, Submit(r)
      PROVE  LockInv'
  BY <1>2 DEF Submit
<1>3. ASSUME NEW r \in Requests, BeginTx(r)
      PROVE  LockInv'
  BY <1>3 DEF BeginTx
<1>4. ASSUME NEW r \in Requests, ConnectFails(r)
      PROVE  LockInv'
  BY <1>4 DEF ConnectFails
<1>5. ASSUME NEW r \in Requests, InsertOrder(r)
      PROVE  LockInv'
  BY <1>5 DEF InsertOrder
<1>6. ASSUME NEW r \in Requests, InsertDuplicate(r)
      PROVE  LockInv'
  BY <1>6 DEF InsertDuplicate, Abort, ReleaseRows
<1>7. ASSUME NEW r \in Requests, Lookup(r)
      PROVE  LockInv'
  BY <1>7 DEF Lookup
<1>8. ASSUME NEW r \in Requests, NEW p \in Products, LockRow(r, p)
      PROVE  LockInv'
  BY <1>8 DEF LockRow
<1>9. ASSUME NEW r \in Requests, NEW p \in Products, WaitRow(r, p)
      PROVE  LockInv'
  BY <1>9 DEF WaitRow
<1>10. ASSUME NEW r \in Requests, DeadlockAbort(r)
       PROVE  LockInv'
  BY <1>10 DEF DeadlockAbort, Abort, ReleaseRows
<1>11. ASSUME NEW r \in Requests, SelectNothing(r)
       PROVE  LockInv'
  BY <1>11 DEF SelectNothing, Abort, ReleaseRows
<1>12. ASSUME NEW r \in Requests, MissingProducts(r)
       PROVE  LockInv'
  BY <1>12 DEF MissingProducts, SelectDone
<1>13. ASSUME NEW r \in Requests, OutOfStock(r)
       PROVE  LockInv'
  BY <1>13 DEF OutOfStock, SelectDone
<1>14. ASSUME NEW r \in Requests, ReserveStock(r)
       PROVE  LockInv'
  BY <1>14 DEF ReserveStock, SelectDone
<1>15. ASSUME NEW r \in Requests, Commit(r)
       PROVE  LockInv'
  <2>1. Install(r) /\ ask' = ask /\ pc[r] = "commit"
    BY <1>15 DEF Commit
  <2> QED
    BY <2>1, InstallKeepsLocks
<1>16. ASSUME NEW r \in Requests, CommitUnknown(r)
       PROVE  LockInv'
  <2>1. Install(r) /\ ask' = ask /\ pc[r] = "commit"
    BY <1>16 DEF CommitUnknown
  <2> QED
    BY <2>1, InstallKeepsLocks
<1>17. ASSUME NEW r \in Requests, StatementFails(r)
       PROVE  LockInv'
  BY <1>17 DEF StatementFails, Abort, ReleaseRows
<1>18. ASSUME NEW r \in Requests, Dispose(r)
       PROVE  LockInv'
  BY <1>18 DEF Dispose, EndTx, Abort, ReleaseRows
<1>19. ASSUME NEW r \in Requests, DisposeFails(r)
       PROVE  LockInv'
  BY <1>19 DEF DisposeFails, EndTx, Abort, ReleaseRows
<1>20. ASSUME NEW r \in Requests, Publish(r)
       PROVE  LockInv'
  BY <1>20 DEF Publish
<1>21. ASSUME NEW r \in Requests, PublishFails(r)
       PROVE  LockInv'
  BY <1>21 DEF PublishFails
<1>22. ASSUME NEW r \in Requests, BackendCleanup(r)
       PROVE  LockInv'
  BY <1>22 DEF BackendCleanup, Abort, ReleaseRows
<1>23. CASE Flush
  BY <1>23 DEF Flush
<1>24. CASE ChannelClose
  BY <1>24 DEF ChannelClose
<1>25. CASE Crash
  BY <1>25 DEF Crash
<1>26. CASE UNCHANGED vars
  BY <1>26 DEF vars
<1> QED
  BY <1>1, <1>2, <1>3, <1>4, <1>5, <1>6, <1>7, <1>8, <1>9, <1>10, <1>11, <1>12, <1>13,
     <1>14, <1>15, <1>16, <1>17, <1>18, <1>19, <1>20, <1>21, <1>22, <1>23, <1>24, <1>25,
     <1>26
     DEF Next, Advance, Fail, Quiescent

(* What the checks found depends on the cart, the locks and the reads alone. *)
LEMMA ReservableFrame ==
    ASSUME NEW q \in Requests, Reservable(q),
           ask'[q] = ask[q], seen'[q] = seen[q],
           \A p \in Products : lock'[p] = q <=> lock[p] = q
    PROVE  Reservable(q)'
<1>1. Rows(q)' = Rows(q)
  BY DEF Rows
<1>2. Locked(q)' = Locked(q)
  BY DEF Locked
<1>3. AllFound(q)'
  BY <1>1 DEF Reservable, AllFound
<1>4. InStock(q)'
  BY <1>1 DEF Reservable, InStock
<1> QED
  BY <1>1, <1>2, <1>3, <1>4 DEF Reservable

(* No step invalidates the checks of a handler that is about to commit. *)
LEMMA CommitStep ==
    ASSUME IInv, [Next]_vars
    PROVE  CommitInv'
<1> TypeOK /\ TxInv /\ CommitInv
  BY DEF IInv
<1> SUFFICES ASSUME NEW q \in Requests, pc'[q] = "commit"
             PROVE  Reservable(q)'
  BY DEF CommitInv
<1> DEFINE Same == /\ ask'[q] = ask[q] /\ seen'[q] = seen[q]
                   /\ \A p \in Products : lock'[p] = q <=> lock[p] = q
           Kept == pc[q] = "commit" /\ Same
<1> USE CreationAssumption DEF TypeOK, TxInv, Goto, Answer, db, tables
<1>1. ASSUME NEW r \in Requests, SubmitWithoutKey(r)
      PROVE  Kept
  BY <1>1 DEF SubmitWithoutKey
<1>2. ASSUME NEW r \in Requests, Submit(r)
      PROVE  Kept
  BY <1>2 DEF Submit
<1>3. ASSUME NEW r \in Requests, BeginTx(r)
      PROVE  Kept
  BY <1>3 DEF BeginTx
<1>4. ASSUME NEW r \in Requests, ConnectFails(r)
      PROVE  Kept
  BY <1>4 DEF ConnectFails
<1>5. ASSUME NEW r \in Requests, InsertOrder(r)
      PROVE  Kept
  BY <1>5 DEF InsertOrder
<1>6. ASSUME NEW r \in Requests, InsertDuplicate(r)
      PROVE  Kept
  BY <1>6 DEF InsertDuplicate, Abort, ReleaseRows
<1>7. ASSUME NEW r \in Requests, Lookup(r)
      PROVE  Kept
  BY <1>7 DEF Lookup
<1>8. ASSUME NEW r \in Requests, NEW p \in Products, LockRow(r, p)
      PROVE  Kept
  BY <1>8 DEF LockRow
<1>9. ASSUME NEW r \in Requests, NEW p \in Products, WaitRow(r, p)
      PROVE  Kept
  BY <1>9 DEF WaitRow
<1>10. ASSUME NEW r \in Requests, DeadlockAbort(r)
       PROVE  Kept
  BY <1>10 DEF DeadlockAbort, Abort, ReleaseRows
<1>11. ASSUME NEW r \in Requests, SelectNothing(r)
       PROVE  Kept
  BY <1>11 DEF SelectNothing, Abort, ReleaseRows
<1>12. ASSUME NEW r \in Requests, MissingProducts(r)
       PROVE  Kept
  BY <1>12 DEF MissingProducts
<1>13. ASSUME NEW r \in Requests, OutOfStock(r)
       PROVE  Kept
  BY <1>13 DEF OutOfStock
<1>14. ASSUME NEW r \in Requests, ReserveStock(r)
       PROVE  Kept \/ (Reservable(q) /\ Same)
  BY <1>14 DEF ReserveStock
<1>15. ASSUME NEW r \in Requests, Commit(r)
       PROVE  Kept
  BY <1>15 DEF Commit, Install, ReleaseRows
<1>16. ASSUME NEW r \in Requests, CommitUnknown(r)
       PROVE  Kept
  BY <1>16 DEF CommitUnknown, Install, ReleaseRows
<1>17. ASSUME NEW r \in Requests, StatementFails(r)
       PROVE  Kept
  BY <1>17 DEF StatementFails, Abort, ReleaseRows
<1>18. ASSUME NEW r \in Requests, Dispose(r)
       PROVE  Kept
  BY <1>18 DEF Dispose, EndTx, Abort, ReleaseRows
<1>19. ASSUME NEW r \in Requests, DisposeFails(r)
       PROVE  Kept
  BY <1>19 DEF DisposeFails, EndTx, Abort, ReleaseRows
<1>20. ASSUME NEW r \in Requests, Publish(r)
       PROVE  Kept
  BY <1>20 DEF Publish
<1>21. ASSUME NEW r \in Requests, PublishFails(r)
       PROVE  Kept
  BY <1>21 DEF PublishFails
<1>22. ASSUME NEW r \in Requests, BackendCleanup(r)
       PROVE  Kept
  BY <1>22 DEF BackendCleanup, Abort, ReleaseRows
<1>23. ASSUME Flush
      PROVE  Kept
  BY <1>23 DEF Flush
<1>24. ASSUME ChannelClose
      PROVE  Kept
  BY <1>24 DEF ChannelClose
<1>25. ASSUME Crash
      PROVE  Kept
  BY <1>25 DEF Crash
<1>26. ASSUME UNCHANGED vars
      PROVE  Kept
  BY <1>26 DEF vars
<1>27. Kept \/ (Reservable(q) /\ Same)
  BY <1>1, <1>2, <1>3, <1>4, <1>5, <1>6, <1>7, <1>8, <1>9, <1>10, <1>11, <1>12, <1>13,
     <1>14, <1>15, <1>16, <1>17, <1>18, <1>19, <1>20, <1>21, <1>22, <1>23, <1>24, <1>25,
     <1>26
     DEF Next, Advance, Fail, Quiescent
<1> QED
  BY <1>27, ReservableFrame DEF CommitInv

(* Every step keeps what handlers know of orders true. *)
LEMMA OutcomeStep ==
    ASSUME IInv, [Next]_vars
    PROVE  OutcomeInv'
<1> TypeOK /\ TxInv /\ KeyInv /\ LockInv /\ CommitInv /\ OutcomeInv
  BY DEF IInv
<1> USE CreationAssumption DEF TypeOK, TxInv, OutcomeInv, KeyTaken, Open, Goto, Answer, db, tables
<1>1. ASSUME NEW r \in Requests, SubmitWithoutKey(r)
      PROVE  OutcomeInv'
  BY <1>1 DEF SubmitWithoutKey
<1>2. ASSUME NEW r \in Requests, Submit(r)
      PROVE  OutcomeInv'
  BY <1>2 DEF Submit
<1>3. ASSUME NEW r \in Requests, BeginTx(r)
      PROVE  OutcomeInv'
  BY <1>3 DEF BeginTx
<1>4. ASSUME NEW r \in Requests, ConnectFails(r)
      PROVE  OutcomeInv'
  BY <1>4 DEF ConnectFails
<1>5. ASSUME NEW r \in Requests, InsertOrder(r)
      PROVE  OutcomeInv'
  BY <1>5 DEF InsertOrder
<1>6. ASSUME NEW r \in Requests, InsertDuplicate(r)
      PROVE  OutcomeInv'
  BY <1>6 DEF InsertDuplicate, Abort, ReleaseRows
<1>7. ASSUME NEW r \in Requests, Lookup(r)
      PROVE  OutcomeInv'
  BY <1>7 DEF Lookup, Result, Goto
<1>8. ASSUME NEW r \in Requests, NEW p \in Products, LockRow(r, p)
      PROVE  OutcomeInv'
  BY <1>8 DEF LockRow
<1>9. ASSUME NEW r \in Requests, NEW p \in Products, WaitRow(r, p)
      PROVE  OutcomeInv'
  BY <1>9 DEF WaitRow
<1>10. ASSUME NEW r \in Requests, DeadlockAbort(r)
       PROVE  OutcomeInv'
  BY <1>10 DEF DeadlockAbort, Abort, ReleaseRows
<1>11. ASSUME NEW r \in Requests, SelectNothing(r)
       PROVE  OutcomeInv'
  BY <1>11 DEF SelectNothing, Abort, ReleaseRows
<1>12. ASSUME NEW r \in Requests, MissingProducts(r)
       PROVE  OutcomeInv'
  BY <1>12 DEF MissingProducts, SelectDone, Result
<1>13. ASSUME NEW r \in Requests, OutOfStock(r)
       PROVE  OutcomeInv'
  BY <1>13 DEF OutOfStock, SelectDone, Result
<1>14. ASSUME NEW r \in Requests, ReserveStock(r)
       PROVE  OutcomeInv'
  BY <1>14 DEF ReserveStock, SelectDone, Result
<1>15. ASSUME NEW r \in Requests, Commit(r)
       PROVE  OutcomeInv'
  BY <1>15 DEF Commit, Install, ReleaseRows, Result
<1>16. ASSUME NEW r \in Requests, CommitUnknown(r)
       PROVE  OutcomeInv'
  BY <1>16 DEF CommitUnknown, Install, ReleaseRows, Result
<1>17. ASSUME NEW r \in Requests, StatementFails(r)
       PROVE  OutcomeInv'
  BY <1>17 DEF StatementFails, Abort, ReleaseRows
<1>18. ASSUME NEW r \in Requests, Dispose(r)
       PROVE  OutcomeInv'
  BY <1>18 DEF Dispose, EndTx, Abort, ReleaseRows
<1>19. ASSUME NEW r \in Requests, DisposeFails(r)
       PROVE  OutcomeInv'
  BY <1>19 DEF DisposeFails, EndTx, Abort, ReleaseRows
<1>20. ASSUME NEW r \in Requests, Publish(r)
       PROVE  OutcomeInv'
  BY <1>20 DEF Publish
<1>21. ASSUME NEW r \in Requests, PublishFails(r)
       PROVE  OutcomeInv'
  BY <1>21 DEF PublishFails
<1>22. ASSUME NEW r \in Requests, BackendCleanup(r)
       PROVE  OutcomeInv'
  BY <1>22 DEF BackendCleanup, Abort, ReleaseRows
<1>23. CASE Flush
  BY <1>23 DEF Flush
<1>24. CASE ChannelClose
  BY <1>24 DEF ChannelClose
<1>25. CASE Crash
  BY <1>25 DEF Crash
<1>26. CASE UNCHANGED vars
  BY <1>26 DEF vars
<1> QED
  BY <1>1, <1>2, <1>3, <1>4, <1>5, <1>6, <1>7, <1>8, <1>9, <1>10, <1>11, <1>12, <1>13,
     <1>14, <1>15, <1>16, <1>17, <1>18, <1>19, <1>20, <1>21, <1>22, <1>23, <1>24, <1>25,
     <1>26
     DEF Next, Advance, Fail, Quiescent

-----------------------------------------------------------------------------
(* Theorems of the specification. *)

(* The inductive invariant holds in the initial state. *)
LEMMA IInvInit == Init => IInv
<1> SUFFICES ASSUME Init
             PROVE  IInv
  OBVIOUS
<1>1. TypeOK
  BY TypeInit
<1>2. TxInv
  BY DEF Init, TxInv, NoAsk
<1>3. KeyInv /\ LockInv /\ CommitInv
  BY DEF Init, KeyInv, LockInv, CommitInv, HoldsRow
<1>4. OutcomeInv
  BY CreationAssumption DEF Init, OutcomeInv, Open
<1> QED
  BY <1>1, <1>2, <1>3, <1>4 DEF IInv

(* Every reachable state satisfies the inductive invariant: a lock belongs to
   a live transaction that asked for the row and the stock its owner read is
   still the stock; one transaction at most holds an idempotency key; what a
   handler checked holds when it commits. *)
THEOREM CreationInvariant == Spec => []IInv
<1>1. Init => IInv
  BY IInvInit
<1>2. IInv /\ [Next]_vars => IInv'
  BY TypeStep, TxStep, KeyStep, LockStep, CommitStep, OutcomeStep DEF IInv
<1> QED
  BY <1>1, <1>2, PTL DEF Spec

(* In particular no stock is ever negative. *)
THEOREM CreationTypeCorrect == Spec => []TypeOK
<1>1. IInv => TypeOK
  BY DEF IInv
<1> QED
  BY <1>1, CreationInvariant, PTL
=============================================================================
