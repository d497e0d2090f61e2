---------------------- MODULE OrderCreationRefinement ----------------------
(* The handlers of OrderCreation implement OrderLedger. *)
EXTENDS OrderCreationProofs

(* A request that was not sent asks for nothing in the ledger either. *)
LEMMA NoAskView == View(NoAsk) = Ledger!NoAsk
BY DEF View, NoAsk, Ledger!NoAsk, Ledger!NoLines, LinesOf, NamedIds, Serviceable

(* The ledger sees the key of a request as it is. *)
LEMMA ViewKey == \A r \in Requests : View(ask[r]).key = ask[r].key
BY DEF View

(* The initial states are initial states of the ledger. *)
LEMMA LedgerInit == Init => Ledger!Init
BY NoAskView DEF Init, Ledger!Init, Open, Ledger!Open

(* A request in mid-transaction has been decided nowhere. *)
LEMMA LedgerUndecided ==
    ASSUME IInv, NEW r \in Requests, pc[r] \in {"lookup", "select", "commit"}
    PROVE  Ledger!Undecided(r)
BY DEF IInv, TxInv, OutcomeInv, Ledger!Undecided, Open, Ledger!Open, View

(* The row that a handler has inserted keeps its key from every order. *)
LEMMA LedgerFresh ==
    ASSUME IInv, NEW r \in Requests, pc[r] \in {"select", "commit"}
    PROVE  Ledger!Fresh(r)
<1>1. ASSUME NEW o \in orders
      PROVE  ask[o].key # ask[r].key
  <2>1. o \in Requests /\ tx[o] = "committed" /\ tx[r] = "inserted"
    BY <1>1 DEF IInv, TxInv
  <2> QED
    BY <2>1 DEF IInv, KeyInv, HoldsRow
<1>2. orders \subseteq Requests
  BY DEF IInv, TypeOK
<1> QED
  BY <1>1, <1>2, ViewKey DEF Ledger!Fresh

(* The answer to a duplicate is a repetition of the ledger. *)
LEMMA LedgerLookup ==
    ASSUME IInv, NEW r \in Requests, Lookup(r)
    PROVE  Ledger!Repeat(r)
<1>1. Ledger!Undecided(r)
  BY LedgerUndecided DEF Lookup
<1>2. PICK o \in Requests : KeyTaken(r, o) /\ Result(r, 201, o)
  BY DEF Lookup
<1>3. Ledger!Decide(r, 201, o)
  BY <1>2 DEF Lookup, Result, Ledger!Decide
<1>4. o \in orders /\ View(ask[o]).key = View(ask[r]).key
  BY <1>2, ViewKey DEF KeyTaken
<1>5. UNCHANGED <<orders, stock>>
  BY DEF Lookup, tables
<1> QED
  BY <1>1, <1>3, <1>4, <1>5 DEF Ledger!Repeat

(* A cart that fails the count is one the ledger does not know. *)
LEMMA LedgerMissing ==
    ASSUME IInv, NEW r \in Requests, MissingProducts(r)
    PROVE  Ledger!RefuseUnknown(r)
<1>1. Ledger!Undecided(r) /\ Ledger!Fresh(r)
  BY LedgerUndecided, LedgerFresh DEF MissingProducts, SelectDone
<1>2. ask[r].cart \in Seq(Items)
  BY AskCart DEF IInv
<1>3. ~ Serviceable(ask[r].cart)
  BY <1>2, CountFindsServiceable DEF MissingProducts, AllFound, Rows
<1>4. ~ View(ask[r]).known
  BY <1>3 DEF View
<1>5. Ledger!Decide(r, 404, None) /\ UNCHANGED <<orders, stock>>
  BY DEF MissingProducts, Result, tables, Ledger!Decide
<1> QED
  BY <1>1, <1>4, <1>5 DEF Ledger!RefuseUnknown

(* What a handler read under its locks is the stock of the ledger. *)
LEMMA SeenIsStock ==
    ASSUME IInv, NEW r \in Requests, Locked(r) = Rows(r)
    PROVE  \A p \in Rows(r) : seen[r][p] = stock[p]
<1>1. \A p \in Rows(r) : p \in Products /\ lock[p] = r
  BY DEF Locked
<1>2. r # None
  BY CreationAssumption
<1> QED
  BY <1>1, <1>2 DEF IInv, LockInv

(* A handler that finds too little stock is refused by the ledger as well. *)
LEMMA LedgerShort ==
    ASSUME IInv, NEW r \in Requests, OutOfStock(r)
    PROVE  Ledger!RefuseShort(r)
<1>1. Ledger!Undecided(r) /\ Ledger!Fresh(r)
  BY LedgerUndecided, LedgerFresh DEF OutOfStock, SelectDone
<1>2. PICK p \in Rows(r) : ~ (LinesOf(ask[r].cart)[p] <= seen[r][p])
  BY DEF OutOfStock, InStock
<1>3. p \in Products /\ seen[r][p] = stock[p]
  BY SeenIsStock DEF OutOfStock, SelectDone, Rows
<1>4. LinesOf(ask[r].cart)[p] \in Nat /\ stock[p] \in Nat
  BY <1>3, AskServiceable DEF OutOfStock, IInv, TypeOK
<1>5. stock[p] < View(ask[r]).lines[p]
  BY <1>2, <1>3, <1>4 DEF View
<1>6. Ledger!Decide(r, 409, None) /\ UNCHANGED <<orders, stock>>
  BY DEF OutOfStock, Result, tables, Ledger!Decide
<1> QED
  BY <1>1, <1>3, <1>5, <1>6 DEF Ledger!RefuseShort

(* A commit, heard of or not, places the order in the ledger. *)
LEMMA LedgerPlace ==
    ASSUME IInv, NEW r \in Requests, Commit(r) \/ CommitUnknown(r)
    PROVE  Ledger!Place(r)
<1>1. pc[r] = "commit" /\ Install(r) /\ Result(r, 201, r) /\ UNCHANGED <<ask, reply>>
  BY DEF Commit, CommitUnknown
<1>2. Ledger!Undecided(r) /\ Ledger!Fresh(r)
  BY <1>1, LedgerUndecided, LedgerFresh
<1>3. Locked(r) = Rows(r) /\ AllFound(r) /\ InStock(r)
  BY <1>1 DEF IInv, CommitInv, Reservable
<1>4. /\ Serviceable(ask[r].cart)
      /\ LinesOf(ask[r].cart) \in [Products -> Nat]
      /\ NamedIds(ask[r].cart) = Rows(r)
  BY <1>3, AskServiceable DEF IInv
<1>5. stock \in [Products -> Nat]
  BY DEF IInv, TypeOK
<1>6. \A p \in Products \ Rows(r) : LinesOf(ask[r].cart)[p] = 0
  BY <1>4 DEF LinesOf
<1>7. \A p \in Rows(r) : seen[r][p] = stock[p] /\ LinesOf(ask[r].cart)[p] <= stock[p]
  BY <1>3, SeenIsStock DEF InStock
<1>8. \A p \in Products : LinesOf(ask[r].cart)[p] <= stock[p]
  BY <1>4, <1>5, <1>6, <1>7
<1>9. stock' = [p \in Products |-> stock[p] - LinesOf(ask[r].cart)[p]]
  BY <1>1, <1>5, <1>6, <1>7 DEF Install
<1>10. View(ask[r]).known /\ View(ask[r]).lines = LinesOf(ask[r].cart)
  BY <1>4 DEF View
<1>11. orders' = orders \cup {r} /\ Ledger!Decide(r, 201, r)
  BY <1>1 DEF Install, Result, Ledger!Decide
<1> QED
  BY <1>2, <1>8, <1>9, <1>10, <1>11 DEF Ledger!Place

(* Every answer of a handler is a reply of the ledger: what was decided, or 500. *)
LEMMA LedgerReply ==
    ASSUME IInv, NEW r \in Requests, ask[r].key # None, pc[r] # "done",
           \/ Answer(r, 500)
           \/ outcome[r] # Open /\ Answer(r, outcome[r].status),
           UNCHANGED <<ask, orders, stock, outcome>>
    PROVE  Ledger!Reply(r)
<1>1. reply[r] = 0
  BY DEF IInv, OutcomeInv
<1> QED
  BY <1>1, ViewKey DEF Ledger!Reply, Answer, Open, Ledger!Open

(* Every step of the handlers is a step of the ledger or leaves it alone. *)
LEMMA LedgerStep ==
    ASSUME IInv, [Next]_vars
    PROVE  [Ledger!Next]_(Ledger!vars)
<1> DEFINE Silent == UNCHANGED <<ask, orders, stock, outcome, reply>>
<1> USE DEF db, tables, mq
<1>1. Silent => UNCHANGED Ledger!vars
  BY DEF Ledger!vars
<1>2. ASSUME NEW r \in Requests, SubmitWithoutKey(r)
      PROVE  Ledger!Reject(r)
  BY <1>2, ViewKey DEF SubmitWithoutKey, Answer, IInv, TxInv, OutcomeInv, NoAsk, Ledger!Reject
<1>3. ASSUME NEW r \in Requests, Submit(r)
      PROVE  Ledger!Submit(r)
  <2>1. PICK b \in Inbox[r] : ask' = [ask EXCEPT ![r] = b]
    BY <1>3 DEF Submit
  <2>2. View(b) \in {View(c) : c \in UNION {Inbox[q] : q \in Requests}}
    OBVIOUS
  <2>3. [q \in Requests |-> View(ask[q])]' = [[q \in Requests |-> View(ask[q])] EXCEPT ![r] = View(b)]
    BY <2>1 DEF IInv, TypeOK, View
  <2>4. View(ask[r]).key = None /\ reply[r] = 0
    BY <1>3, ViewKey DEF Submit, IInv, TxInv, OutcomeInv, NoAsk
  <2> QED
    BY <1>3, <2>2, <2>3, <2>4 DEF Submit, Ledger!Submit
<1>4. ASSUME NEW r \in Requests, Lookup(r)
      PROVE  Ledger!Next
  BY <1>4, LedgerLookup DEF Ledger!Next
<1>5. ASSUME NEW r \in Requests, MissingProducts(r) \/ OutOfStock(r)
      PROVE  Ledger!Next
  BY <1>5, LedgerMissing, LedgerShort DEF Ledger!Next
<1>6. ASSUME NEW r \in Requests, Commit(r) \/ CommitUnknown(r)
      PROVE  Ledger!Next
  BY <1>6, LedgerPlace DEF Ledger!Next
<1>7. ASSUME NEW r \in Requests, Dispose(r)
      PROVE  Ledger!Reply(r) \/ Silent
  <2>1. ask[r].key # None /\ pc[r] # "done"
    BY <1>7 DEF Dispose, IInv, TxInv
  <2> QED
    BY <1>7, <2>1, LedgerReply DEF Dispose
<1>8. ASSUME NEW r \in Requests, DisposeFails(r) \/ PublishFails(r) \/ ConnectFails(r)
      PROVE  Ledger!Reply(r)
  <2>1. ask[r].key # None /\ pc[r] # "done"
    BY <1>8 DEF DisposeFails, PublishFails, ConnectFails, IInv, TxInv
  <2> QED
    BY <1>8, <2>1, LedgerReply DEF DisposeFails, PublishFails, ConnectFails
<1>9. ASSUME NEW r \in Requests, Publish(r)
      PROVE  Ledger!Reply(r)
  <2>1. ask[r].key # None /\ pc[r] # "done" /\ tx[r] = "committed"
    BY <1>9 DEF Publish, IInv, TxInv
  <2>2. outcome[r] # Open
    BY <2>1, CreationAssumption DEF IInv, OutcomeInv, Open
  <2> QED
    BY <1>9, <2>1, <2>2, LedgerReply DEF Publish
<1>10. ASSUME NEW r \in Requests,
              \/ BeginTx(r) \/ InsertOrder(r) \/ InsertDuplicate(r)
              \/ \E p \in Products : LockRow(r, p) \/ WaitRow(r, p)
              \/ DeadlockAbort(r) \/ SelectNothing(r) \/ ReserveStock(r)
              \/ StatementFails(r) \/ BackendCleanup(r)
       PROVE  Silent
  BY <1>10
     DEF BeginTx, InsertOrder, InsertDuplicate, LockRow, WaitRow, DeadlockAbort,
         SelectNothing, ReserveStock, StatementFails, BackendCleanup
<1>11. ASSUME Flush \/ ChannelClose \/ Crash \/ UNCHANGED vars
       PROVE  Silent
  BY <1>11 DEF Flush, ChannelClose, Crash, vars
<1> QED
  BY <1>1, <1>2, <1>3, <1>4, <1>5, <1>6, <1>7, <1>8, <1>9, <1>10, <1>11
     DEF Next, Advance, Fail, Quiescent, Ledger!Next

(* The concurrent handlers implement the ledger of one-step transactions. *)
THEOREM CreationImplementsLedger == Spec => ImplementsLedger
<1>1. Init => Ledger!Init
  BY LedgerInit
<1>2. IInv /\ [Next]_vars => [Ledger!Next]_(Ledger!vars)
  BY LedgerStep
<1> QED
  BY <1>1, <1>2, CreationInvariant, PTL DEF Spec, ImplementsLedger, Ledger!Spec
=============================================================================
