----------------------------- MODULE SeedProofs -----------------------------
(* Theorems about Seed, for any runs, customers, titles and sign-ups. *)
EXTENDS Seed, FiniteSetTheorems, SequenceTheorems, TLAPS

-----------------------------------------------------------------------------
(* The inductive invariant. *)

Here(t) == \E y \in rows : y.thing = t

OwnOrder(r) == [thing |-> Order, by |-> r]

(* What a run has found follows the plan, is still there unless the run has
   failed, and is all of it when the run comes to the items. *)
FoundInv ==
    \A r \in Runs :
        /\ Len(found[r]) = step[r] - 1
        /\ \A i \in DOMAIN found[r] :
              /\ found[r][i].thing = Plan[i]
              /\ pc[r] # "failed" => found[r][i] \in rows \cup own[r]
        /\ pc[r] = "save" => step[r] <= Len(Plan)
        /\ pc[r] \in {"items", "commit", "done"} => step[r] = Len(Plan) + 1

(* Who has inserted what: a run's rows are uncommitted until it is done, and
   are among those it works with; only orders of customers are processed. *)
OwnerInv ==
    /\ \A r \in Runs :
          /\ \A x \in own[r] : x.by = r /\ \E i \in DOMAIN found[r] : found[r][i] = x
          /\ (\E x \in rows : x.by = r) => pc[r] = "done"
          /\ pc[r] \in {"done", "failed"} => own[r] = {} /\ lines[r] = {}
    /\ \A x \in rows : x.by \in Customers => x.thing = Order
    /\ \A x \in rows : x.by = Api => x.thing \in SignUps
    /\ \A x \in processed : x.by \in Customers

(* One row per account, committed or not. *)
AccountInv ==
    \A x, y \in rows \cup UNION {own[q] : q \in Runs} :
        x.thing = y.thing /\ x.thing \in Accounts => x = y

(* Items come and go with their order: every committed order has some, an
   uncommitted one has none but those of the run that inserted it. *)
ItemsInv ==
    /\ \A l \in items : l.order \in rows
    /\ \A x \in rows : x.thing = Order => \E l \in items : l.order = x
    /\ \A r \in Runs :
          /\ \A l \in lines[r] : l.order = OwnOrder(r) /\ l.order \in own[r]
          /\ pc[r] \in {"find", "save", "items"} => lines[r] = {}
          /\ pc[r] = "items" => OrderOf(r) \in own[r]
          /\ pc[r] = "commit" /\ OrderOf(r) \in own[r]
                => lines[r] = {[order |-> OrderOf(r), product |-> ProductOf(r, i)] : i \in {1, 2}}

(* The account of step k is the gate of the seed when nobody signs up with it:
   nothing but accounts is committed before it, everything with it, and only
   the run that holds its row uncommitted inserts anything after it. *)
Gate(k) ==
    /\ \A x \in rows : x.thing \notin Accounts => Here(Emails[k])
    /\ Here(Emails[k]) =>
          /\ \A t \in Accounts \cup Catalogue : Here(t)
          /\ SeedOrders # {}
    /\ \A r \in Runs :
          /\ pc[r] = "save" /\ step[r] > k => found[r][k] \in own[r]
          /\ \A x \in own[r] : x.thing \notin Accounts => found[r][k] \in own[r]
    /\ \A x, y \in rows : x.thing = y.thing /\ x.thing \in Catalogue => x = y
    /\ \A x, y \in SeedOrders : x = y

GateInv == \A k \in {1, 2} : Emails[k] \notin SignUps => Gate(k)

IInv == TypeOK /\ FoundInv /\ OwnerInv /\ AccountInv /\ ItemsInv /\ GateInv /\ SeedComplete

-----------------------------------------------------------------------------
(* The plan. *)

(* The plan is the accounts, the titles and the order, each of them once. *)
LEMMA PlanFacts ==
    /\ Len(Titles) \in Nat /\ Len(Plan) = Len(Titles) + 3 /\ Len(Plan) \in Nat
    /\ Plan \in Seq(Things)
    /\ Plan[1] = Emails[1] /\ Plan[2] = Emails[2] /\ Plan[Len(Plan)] = Order
    /\ \A i \in 1..Len(Titles) : Plan[2 + i] = Titles[i]
    /\ \A i \in 1..Len(Plan) : Plan[i] \in Accounts <=> i \in {1, 2}
    /\ \A i \in 1..Len(Plan) : Plan[i] = Order <=> i = Len(Plan)
    /\ \A i \in 1..Len(Plan) : Plan[i] \in Things
    /\ \A i, j \in 1..Len(Plan) : Plan[i] = Plan[j] => i = j
<1>1. /\ Emails \in Seq(Accounts) /\ Titles \in Seq(Catalogue)
      /\ Len(Emails) = 2 /\ Len(Titles) \in Nat
      /\ DOMAIN Emails = 1..2 /\ DOMAIN Titles = 1..Len(Titles)
      /\ Emails[1] # Emails[2]
      /\ \A i, j \in 1..Len(Titles) : Titles[i] = Titles[j] => i = j
  BY SeedAssumption
<1>2. /\ \A i \in 1..2 : Emails[i] \in Accounts
      /\ \A i \in 1..Len(Titles) : Titles[i] \in Catalogue
  BY <1>1 DEF Accounts, Catalogue
<1>3. Order \notin Accounts \cup Catalogue /\ Accounts \cap Catalogue = {}
  BY SeedAssumption
<1>4. Emails \in Seq(Things) /\ Titles \in Seq(Things) /\ <<Order>> \in Seq(Things)
  <2>1. Accounts \subseteq Things /\ Catalogue \subseteq Things /\ Order \in Things
    BY DEF Things
  <2>2. Emails \in Seq(Things) /\ Titles \in Seq(Things)
    BY <1>1, <2>1, SeqMonotonic
  <2> QED
    BY <2>1, <2>2
<1> DEFINE front == Emails \o Titles
<1>5. /\ front \in Seq(Things) /\ Len(front) = Len(Titles) + 2
      /\ \A i \in 1..2 : front[i] = Emails[i]
      /\ \A i \in 1..Len(Titles) : front[2 + i] = Titles[i]
  <2>1. /\ front \in Seq(Things) /\ Len(front) = 2 + Len(Titles)
        /\ \A i \in 1..2 + Len(Titles) : front[i] = IF i <= 2 THEN Emails[i] ELSE Titles[i - 2]
    <3>1. /\ front \in Seq(Things) /\ Len(front) = Len(Emails) + Len(Titles)
          /\ \A i \in 1..Len(Emails) + Len(Titles) :
                front[i] = IF i <= Len(Emails) THEN Emails[i] ELSE Titles[i - Len(Emails)]
      BY <1>4, ConcatProperties
    <3> HIDE DEF front
    <3> QED
      BY <1>1, <3>1
  <2>2. \A i \in 1..Len(Titles) : 2 + i \in 1..2 + Len(Titles) /\ ~ (2 + i <= 2) /\ (2 + i) - 2 = i
    BY <1>1
  <2> HIDE DEF front
  <2>3. \A i \in 1..Len(Titles) : front[2 + i] = Titles[i]
    BY <2>1, <2>2
  <2>4. \A i \in 1..2 : front[i] = Emails[i]
    BY <1>1, <2>1
  <2> QED
    BY <1>1, <2>1, <2>3, <2>4
<1>6. /\ Plan \in Seq(Things) /\ Len(Plan) = Len(Titles) + 3
      /\ \A i \in 1..2 : Plan[i] = Emails[i]
      /\ \A i \in 1..Len(Titles) : Plan[2 + i] = Titles[i]
      /\ Plan[Len(Titles) + 3] = Order
  <2>1. Plan = front \o <<Order>>
    BY DEF Plan
  <2> HIDE DEF front
  <2>2. Len(<<Order>>) = 1 /\ <<Order>>[1] = Order
    OBVIOUS
  <2>3. /\ Plan \in Seq(Things) /\ Len(Plan) = (Len(Titles) + 2) + 1
        /\ \A i \in 1..(Len(Titles) + 2) + 1 :
              Plan[i] = IF i <= Len(Titles) + 2 THEN front[i] ELSE <<Order>>[i - (Len(Titles) + 2)]
    BY <1>4, <1>5, <2>1, <2>2, ConcatProperties
  <2>4. \A i \in 1..Len(Titles) + 2 : Plan[i] = front[i]
    BY <1>1, <2>3
  <2>5. Plan[Len(Titles) + 3] = Order
    BY <1>1, <2>2, <2>3
  <2>6. \A i \in 1..Len(Titles) : 2 + i \in 1..Len(Titles) + 2
    BY <1>1
  <2>7. \A i \in 1..2 : i \in 1..Len(Titles) + 2
    BY <1>1
  <2> QED
    BY <1>1, <1>5, <2>3, <2>4, <2>5, <2>6, <2>7
<1>7. \A i \in 1..Len(Plan) : \/ i \in 1..2
                              \/ \E j \in 1..Len(Titles) : i = 2 + j
                              \/ i = Len(Titles) + 3
  <2> TAKE i \in 1..Len(Plan)
  <2>1. \/ i \in 1..2
        \/ i = Len(Titles) + 3
        \/ (i - 2) \in 1..Len(Titles) /\ i = 2 + (i - 2)
    BY <1>1, <1>6
  <2> QED
    BY <2>1
<1>8. \A i \in 1..Len(Plan) : /\ Plan[i] \in Accounts <=> i \in 1..2
                              /\ Plan[i] = Order <=> i = Len(Titles) + 3
                              /\ Plan[i] \in Things
  BY <1>1, <1>2, <1>3, <1>6, <1>7 DEF Things
<1>9. ASSUME NEW i \in 1..Len(Plan), NEW j \in 1..Len(Plan), Plan[i] = Plan[j]
      PROVE  i = j
  <2>1. CASE i \in 1..2
    BY <1>1, <1>6, <1>8, <1>9, <2>1
  <2>2. CASE i = Len(Titles) + 3
    BY <1>6, <1>8, <1>9, <2>2
  <2>3. CASE i \notin 1..2 /\ i # Len(Titles) + 3
    <3>1. j \notin 1..2 /\ j # Len(Titles) + 3
      BY <1>8, <1>9, <2>3
    <3>2. PICK k \in 1..Len(Titles), m \in 1..Len(Titles) : i = 2 + k /\ j = 2 + m
      BY <1>7, <2>3, <3>1
    <3>3. Titles[k] = Titles[m]
      BY <1>6, <1>9, <3>2
    <3> QED
      BY <1>1, <3>2, <3>3
  <2> QED
    BY <2>1, <2>2, <2>3
<1> QED
  BY <1>1, <1>6, <1>8, <1>9

-----------------------------------------------------------------------------
(* Type correctness. *)

(* What Take does to the rows that a run has found. *)
LEMMA TakeFacts ==
    ASSUME TypeOK, NEW r \in Runs, step[r] <= Len(Plan), NEW x \in Rows, Take(r, x)
    PROVE  /\ found' = [found EXCEPT ![r] = Append(found[r], x)]
           /\ step' = [step EXCEPT ![r] = step[r] + 1]
           /\ found' \in [Runs -> Seq(Rows)]
           /\ step' \in [Runs -> 1..Len(Plan) + 1]
           /\ Len(found'[r]) = Len(found[r]) + 1
           /\ DOMAIN found'[r] = 1..Len(found[r]) + 1
           /\ \A i \in DOMAIN found[r] : found'[r][i] = found[r][i]
           /\ found'[r][Len(found[r]) + 1] = x
           /\ \A q \in Runs \ {r} : found'[q] = found[q] /\ step'[q] = step[q]
<1>1. found[r] \in Seq(Rows) /\ step[r] \in Nat /\ Len(Plan) \in Nat
  BY PlanFacts DEF TypeOK
<1>2. /\ found' = [found EXCEPT ![r] = Append(found[r], x)]
      /\ step' = [step EXCEPT ![r] = step[r] + 1]
  BY DEF Take
<1>3. Append(found[r], x) \in Seq(Rows)
  BY <1>1
<1>4. found'[r] = Append(found[r], x)
  BY <1>2 DEF TypeOK
<1>5. found' \in [Runs -> Seq(Rows)]
  BY <1>2, <1>3 DEF TypeOK
<1>6. step' \in [Runs -> 1..Len(Plan) + 1]
  BY <1>1, <1>2 DEF TypeOK
<1>7. \A q \in Runs \ {r} : found'[q] = found[q] /\ step'[q] = step[q]
  BY <1>2 DEF TypeOK
<1> QED
  BY <1>1, <1>2, <1>4, <1>5, <1>6, <1>7

(* A run keeps what it has found, and finds the row it takes. *)
LEMMA TakeKeeps ==
    ASSUME TypeOK, NEW r \in Runs, step[r] <= Len(Plan), NEW x \in Rows, Take(r, x)
    PROVE  /\ \A q \in Runs : \A i \in DOMAIN found[q] :
                  i \in DOMAIN found'[q] /\ found'[q][i] = found[q][i]
           /\ \E i \in DOMAIN found'[r] : found'[r][i] = x
<1>1. Len(found[r]) \in Nat /\ DOMAIN found[r] = 1..Len(found[r])
  BY DEF TypeOK
<1>2. Len(found[r]) + 1 \in DOMAIN found'[r] /\ found'[r][Len(found[r]) + 1] = x
  BY <1>1, TakeFacts
<1>3. \A i \in DOMAIN found[r] : i \in DOMAIN found'[r] /\ found'[r][i] = found[r][i]
  BY <1>1, TakeFacts
<1>4. \A q \in Runs \ {r} : found'[q] = found[q]
  BY TakeFacts
<1> QED
  BY <1>2, <1>3, <1>4

(* The row that a run saves. *)
LEMMA SavedRow ==
    ASSUME TypeOK, FoundInv, NEW r \in Runs, pc[r] = "save"
    PROVE  /\ step[r] \in 1..Len(Plan)
           /\ Wanted(r) \in Things
           /\ [thing |-> Wanted(r), by |-> r] \in Rows
<1>1. step[r] \in 1..Len(Plan)
  BY PlanFacts DEF TypeOK, FoundInv
<1> QED
  BY <1>1, PlanFacts DEF Wanted, Rows

(* The rows that a run finds are the ones whose items it looks for and saves. *)
LEMMA FoundRows ==
    ASSUME TypeOK, FoundInv, NEW r \in Runs, step[r] = Len(Plan) + 1
    PROVE  /\ Len(found[r]) = Len(Plan) /\ DOMAIN found[r] = 1..Len(Plan)
           /\ OrderOf(r) \in Rows /\ OrderOf(r).thing = Order
           /\ \A i \in {1, 2} : /\ ProductOf(r, i) \in Rows
                                /\ ProductOf(r, i).thing = Titles[i]
           /\ \A t \in Accounts \cup Catalogue : \E i \in DOMAIN found[r] : found[r][i].thing = t
<1>1. /\ found[r] \in Seq(Rows)
      /\ Len(found[r]) = Len(Plan)
      /\ DOMAIN found[r] = 1..Len(Plan)
  BY PlanFacts DEF TypeOK, FoundInv
<1>2. \A i \in 1..Len(Plan) : found[r][i] \in Rows /\ found[r][i].thing = Plan[i]
  BY <1>1 DEF FoundInv
<1>3. Len(Plan) \in 1..Len(Plan) /\ Plan[Len(Plan)] = Order
  BY PlanFacts
<1>4. \A i \in {1, 2} : i \in 1..Len(Titles) /\ 2 + i \in 1..Len(Plan) /\ Plan[2 + i] = Titles[i]
  <2>1. Len(Titles) \in Nat /\ Len(Titles) >= 2
    BY SeedAssumption
  <2>2. \A i \in {1, 2} : i \in 1..Len(Titles)
    BY <2>1
  <2>3. \A i \in 1..Len(Titles) : 2 + i \in 1..Len(Plan) /\ Plan[2 + i] = Titles[i]
    BY PlanFacts
  <2> QED
    BY <2>2, <2>3
<1>5. Len(Emails) = 2
  BY SeedAssumption
<1>6. ASSUME NEW t \in Accounts \cup Catalogue
      PROVE  \E i \in DOMAIN found[r] : found[r][i].thing = t
  <2>1. CASE t \in Accounts
    <3>1. PICK i \in 1..2 : t = Emails[i]
      BY <2>1, SeedAssumption DEF Accounts
    <3>2. i \in 1..Len(Plan) /\ Plan[i] = t
      BY <3>1, PlanFacts
    <3> QED
      BY <1>1, <1>2, <3>2
  <2>2. CASE t \in Catalogue
    <3>1. PICK i \in 1..Len(Titles) : t = Titles[i]
      BY <2>2, SeedAssumption DEF Catalogue
    <3>2. 2 + i \in 1..Len(Plan) /\ Plan[2 + i] = t
      BY <3>1, PlanFacts
    <3> QED
      BY <1>1, <1>2, <3>2
  <2> QED
    BY <2>1, <2>2
<1> QED
  BY <1>1, <1>2, <1>3, <1>4, <1>5, <1>6 DEF OrderOf, ProductOf

(* A run that fails leaves nothing of its own behind. *)
LEMMA RollbackCases ==
    ASSUME NEW r \in Runs, SaveDuplicate(r) \/ Fail(r)
    PROVE  pc[r] \in {"find", "save", "items", "commit"} /\ Rollback(r)
BY DEF SaveDuplicate, Fail

(* Every step keeps the types. *)
LEMMA TypeStep ==
    ASSUME IInv, [Next]_vars
    PROVE  TypeOK'
<1> TypeOK /\ FoundInv
  BY DEF IInv
<1> USE DEF Goto, db, local
<1>1. ASSUME NEW r \in Runs, Find(r)
      PROVE  TypeOK'
  <2>1. PICK x \in Matching(r) : Take(r, x)
    BY <1>1 DEF Find
  <2>2. x \in Rows /\ step[r] <= Len(Plan)
    BY <1>1 DEF Find, Matching, Visible, TypeOK
  <2>3. found' \in [Runs -> Seq(Rows)] /\ step' \in [Runs -> 1..Len(Plan) + 1]
    BY <2>1, <2>2, TakeFacts
  <2> QED
    BY <1>1, <2>3 DEF Find, TypeOK
<1>2. ASSUME NEW r \in Runs, FindNothing(r)
      PROVE  TypeOK'
  BY <1>2 DEF FindNothing, TypeOK, Places
<1>3. ASSUME NEW r \in Runs, Save(r)
      PROVE  TypeOK'
  <2> DEFINE x == [thing |-> Wanted(r), by |-> r]
  <2>1. x \in Rows /\ step[r] <= Len(Plan)
    BY <1>3, SavedRow DEF Save, FoundInv
  <2>2. Take(r, x) /\ own' = [own EXCEPT ![r] = own[r] \cup {x}]
    BY <1>3 DEF Save
  <2> HIDE DEF x
  <2>3. found' \in [Runs -> Seq(Rows)] /\ step' \in [Runs -> 1..Len(Plan) + 1]
    BY <2>1, <2>2, TakeFacts
  <2>4. own' \in [Runs -> SUBSET Rows]
    BY <2>1, <2>2 DEF TypeOK
  <2> QED
    BY <1>3, <2>3, <2>4 DEF Save, TypeOK, Places
<1>4. ASSUME NEW r \in Runs, SaveDuplicate(r) \/ Fail(r)
      PROVE  TypeOK'
  BY <1>4, RollbackCases DEF Rollback, TypeOK, Places
<1>5. ASSUME NEW r \in Runs, FindItems(r)
      PROVE  TypeOK'
  BY <1>5 DEF FindItems, TypeOK, Places
<1>6. ASSUME NEW r \in Runs, SaveItems(r)
      PROVE  TypeOK'
  <2>1. step[r] = Len(Plan) + 1
    BY <1>6 DEF SaveItems, FoundInv
  <2>2. \A i \in {1, 2} : [order |-> OrderOf(r), product |-> ProductOf(r, i)] \in Lines
    BY <2>1, FoundRows DEF Lines
  <2>3. lines' \in [Runs -> SUBSET Lines]
    BY <1>6, <2>2 DEF SaveItems, TypeOK
  <2> QED
    BY <1>6, <2>3 DEF SaveItems, TypeOK, Places
<1>7. ASSUME NEW r \in Runs, Commit(r)
      PROVE  TypeOK'
  BY <1>7 DEF Commit, TypeOK, Places
<1>8. ASSUME NEW e \in SignUps, SignUp(e)
      PROVE  TypeOK'
  <2>1. [thing |-> e, by |-> Api] \in Rows
    BY SeedAssumption DEF Rows, Things
  <2> QED
    BY <1>8, <2>1 DEF SignUp, TypeOK
<1>9. ASSUME NEW c \in Customers, PlaceOrder(c)
      PROVE  TypeOK'
  <2>1. OwnOrder(c) \in Rows
    BY DEF OwnOrder, Rows, Things
  <2>2. PICK p \in rows : items' = items \cup {[order |-> OwnOrder(c), product |-> p]}
    BY <1>9 DEF PlaceOrder, OwnOrder
  <2>3. items' \subseteq Lines
    BY <2>1, <2>2 DEF TypeOK, Lines
  <2>4. rows' = rows \cup {OwnOrder(c)}
    BY <1>9 DEF PlaceOrder, OwnOrder
  <2> QED
    BY <1>9, <2>1, <2>3, <2>4 DEF PlaceOrder, TypeOK
<1>10. ASSUME NEW c \in Customers, ProcessOrder(c)
       PROVE  TypeOK'
  BY <1>10 DEF ProcessOrder, TypeOK
<1>11. CASE UNCHANGED vars
  BY <1>11 DEF vars, TypeOK
<1> QED
  BY <1>1, <1>2, <1>3, <1>4, <1>5, <1>6, <1>7, <1>8, <1>9, <1>10, <1>11
     DEF Next, Advance, Finished

-----------------------------------------------------------------------------
(* The other conjuncts of the invariant, each preserved by every step. *)

(* A run that takes a row of what it wants has found what the plan says. *)
LEMMA TakeFound ==
    ASSUME TypeOK, FoundInv, NEW r \in Runs, step[r] <= Len(Plan),
           NEW x \in Rows, x.thing = Wanted(r), Take(r, x),
           x \in rows' \cup own'[r], rows' = rows, own[r] \subseteq own'[r],
           \A q \in Runs \ {r} : own'[q] = own[q],
           pc[r] \in {"find", "save"}, pc' = [pc EXCEPT ![r] = "find"]
    PROVE  FoundInv'
<1>1. /\ Len(found'[r]) = Len(found[r]) + 1
      /\ DOMAIN found'[r] = 1..Len(found[r]) + 1
      /\ \A i \in DOMAIN found[r] : found'[r][i] = found[r][i]
      /\ found'[r][Len(found[r]) + 1] = x
      /\ step' = [step EXCEPT ![r] = step[r] + 1]
      /\ \A q \in Runs \ {r} : found'[q] = found[q] /\ step'[q] = step[q]
  BY TakeFacts
<1>2. /\ found[r] \in Seq(Rows) /\ DOMAIN found[r] = 1..Len(found[r])
      /\ Len(found[r]) \in Nat /\ Len(found[r]) = step[r] - 1 /\ step[r] \in Nat
  BY DEF TypeOK, FoundInv
<1>3. \A i \in DOMAIN found[r] : found[r][i].thing = Plan[i] /\ found[r][i] \in rows \cup own[r]
  BY DEF FoundInv
<1>4. \A i \in DOMAIN found'[r] : /\ found'[r][i].thing = Plan[i]
                                  /\ found'[r][i] \in rows' \cup own'[r]
  <2> TAKE i \in DOMAIN found'[r]
  <2>1. CASE i \in DOMAIN found[r]
    BY <1>1, <1>3, <2>1
  <2>2. CASE i = Len(found[r]) + 1
    BY <1>1, <1>2, <2>2 DEF Wanted
  <2> QED
    BY <1>1, <1>2, <2>1, <2>2
<1>5. Len(found'[r]) = step'[r] - 1
  BY <1>1, <1>2 DEF TypeOK
<1>6. pc'[r] = "find" /\ \A q \in Runs \ {r} : pc'[q] = pc[q]
  BY DEF TypeOK
<1> QED
  BY <1>1, <1>4, <1>5, <1>6 DEF FoundInv

(* Every step keeps what the runs have found. *)
LEMMA FoundStep ==
    ASSUME IInv, [Next]_vars
    PROVE  FoundInv'
<1> TypeOK /\ FoundInv
  BY DEF IInv
<1> USE DEF Goto, db, local
<1>1. ASSUME NEW r \in Runs, Find(r)
      PROVE  FoundInv'
  <2>1. PICK x \in Matching(r) : Take(r, x)
    BY <1>1 DEF Find
  <2>2. x \in Rows /\ x \in rows \cup own[r] /\ x.thing = Wanted(r)
    BY DEF Matching, Visible, TypeOK
  <2>3. /\ step[r] <= Len(Plan) /\ rows' = rows /\ own' = own
        /\ pc[r] = "find" /\ pc' = [pc EXCEPT ![r] = "find"]
    BY <1>1 DEF Find, TypeOK
  <2> QED
    BY <2>1, <2>2, <2>3, TakeFound
<1>2. ASSUME NEW r \in Runs, FindNothing(r)
      PROVE  FoundInv'
  BY <1>2 DEF FindNothing, TypeOK, FoundInv
<1>3. ASSUME NEW r \in Runs, Save(r)
      PROVE  FoundInv'
  <2> DEFINE x == [thing |-> Wanted(r), by |-> r]
  <2>1. x \in Rows /\ x.thing = Wanted(r) /\ step[r] <= Len(Plan)
    BY <1>3, SavedRow DEF Save, FoundInv
  <2>2. /\ Take(r, x) /\ own' = [own EXCEPT ![r] = own[r] \cup {x}]
        /\ rows' = rows /\ pc[r] = "save" /\ pc' = [pc EXCEPT ![r] = "find"]
    BY <1>3 DEF Save
  <2> HIDE DEF x
  <2>3. x \in own'[r] /\ own[r] \subseteq own'[r] /\ \A q \in Runs \ {r} : own'[q] = own[q]
    BY <2>2 DEF TypeOK
  <2> QED
    BY <2>1, <2>2, <2>3, TakeFound
<1>4. ASSUME NEW r \in Runs, SaveDuplicate(r) \/ Fail(r)
      PROVE  FoundInv'
  <2>1. /\ pc'[r] = "failed" /\ \A q \in Runs \ {r} : pc'[q] = pc[q] /\ own'[q] = own[q]
        /\ found' = found /\ step' = step /\ rows' = rows
    BY <1>4, RollbackCases DEF Rollback, TypeOK
  <2> QED
    BY <2>1 DEF FoundInv
<1>5. ASSUME NEW r \in Runs, FindItems(r)
      PROVE  FoundInv'
  <2>1. step[r] = Len(Plan) + 1
    BY <1>5, PlanFacts DEF FindItems, TypeOK
  <2> QED
    BY <1>5, <2>1 DEF FindItems, TypeOK, FoundInv
<1>6. ASSUME NEW r \in Runs, SaveItems(r)
      PROVE  FoundInv'
  BY <1>6 DEF SaveItems, TypeOK, FoundInv
<1>7. ASSUME NEW r \in Runs, Commit(r)
      PROVE  FoundInv'
  <2>1. \A q \in Runs : rows \cup own[q] \subseteq rows' \cup own'[q]
    BY <1>7 DEF Commit, TypeOK
  <2>2. found' = found /\ step' = step /\ pc[r] = "commit" /\ pc' = [pc EXCEPT ![r] = "done"]
    BY <1>7 DEF Commit
  <2> QED
    BY <2>1, <2>2 DEF TypeOK, FoundInv
<1>8. ASSUME NEW e \in SignUps, SignUp(e)
      PROVE  FoundInv'
  BY <1>8 DEF SignUp, FoundInv
<1>9. ASSUME NEW c \in Customers, PlaceOrder(c)
      PROVE  FoundInv'
  BY <1>9 DEF PlaceOrder, FoundInv
<1>10. ASSUME NEW c \in Customers, ProcessOrder(c)
       PROVE  FoundInv'
  BY <1>10 DEF ProcessOrder, FoundInv
<1>11. CASE UNCHANGED vars
  BY <1>11 DEF vars, FoundInv
<1> QED
  BY <1>1, <1>2, <1>3, <1>4, <1>5, <1>6, <1>7, <1>8, <1>9, <1>10, <1>11
     DEF Next, Advance, Finished

(* Every step keeps track of who has inserted what. *)
LEMMA OwnerStep ==
    ASSUME IInv, [Next]_vars
    PROVE  OwnerInv'
<1> TypeOK /\ FoundInv /\ OwnerInv
  BY DEF IInv
<1> USE DEF Goto, db, local
<1>1. ASSUME NEW r \in Runs, Find(r)
      PROVE  OwnerInv'
  <2>1. PICK x \in Matching(r) : Take(r, x)
    BY <1>1 DEF Find
  <2>2. x \in Rows /\ step[r] <= Len(Plan)
    BY <1>1 DEF Find, Matching, Visible, TypeOK
  <2>3. \A q \in Runs : \A i \in DOMAIN found[q] : i \in DOMAIN found'[q] /\ found'[q][i] = found[q][i]
    BY <2>1, <2>2, TakeKeeps
  <2>4. UNCHANGED <<rows, processed, pc, own, lines>>
    BY <1>1 DEF Find
  <2> QED
    BY <2>3, <2>4 DEF OwnerInv
<1>2. ASSUME NEW r \in Runs, FindNothing(r)
      PROVE  OwnerInv'
  BY <1>2 DEF FindNothing, TypeOK, OwnerInv
<1>3. ASSUME NEW r \in Runs, Save(r)
      PROVE  OwnerInv'
  <2> DEFINE x == [thing |-> Wanted(r), by |-> r]
  <2>1. x \in Rows /\ x.by = r /\ step[r] <= Len(Plan)
    BY <1>3, SavedRow DEF Save, FoundInv
  <2>2. /\ Take(r, x) /\ own' = [own EXCEPT ![r] = own[r] \cup {x}]
        /\ pc[r] = "save" /\ pc' = [pc EXCEPT ![r] = "find"]
        /\ UNCHANGED <<rows, processed, lines>>
    BY <1>3 DEF Save
  <2> HIDE DEF x
  <2>3. /\ \A q \in Runs : \A i \in DOMAIN found[q] : i \in DOMAIN found'[q] /\ found'[q][i] = found[q][i]
        /\ \E i \in DOMAIN found'[r] : found'[r][i] = x
    BY <2>1, <2>2, TakeKeeps
  <2>4. own'[r] = own[r] \cup {x} /\ \A q \in Runs \ {r} : own'[q] = own[q]
    BY <2>2 DEF TypeOK
  <2>5. pc'[r] = "find" /\ \A q \in Runs \ {r} : pc'[q] = pc[q]
    BY <2>2 DEF TypeOK
  <2>6. \A q \in Runs : \A y \in own'[q] : y.by = q /\ \E i \in DOMAIN found'[q] : found'[q][i] = y
    BY <2>1, <2>3, <2>4 DEF OwnerInv
  <2>7. ~ \E y \in rows : y.by = r
    BY <2>2 DEF OwnerInv
  <2> QED
    BY <2>2, <2>4, <2>5, <2>6, <2>7 DEF OwnerInv
<1>4. ASSUME NEW r \in Runs, SaveDuplicate(r) \/ Fail(r)
      PROVE  OwnerInv'
  <2>1. /\ pc[r] # "done" /\ pc'[r] = "failed" /\ own'[r] = {} /\ lines'[r] = {}
        /\ \A q \in Runs \ {r} : pc'[q] = pc[q] /\ own'[q] = own[q] /\ lines'[q] = lines[q]
        /\ found' = found /\ rows' = rows /\ processed' = processed
    BY <1>4, RollbackCases DEF Rollback, TypeOK
  <2> QED
    BY <2>1 DEF OwnerInv
<1>5. ASSUME NEW r \in Runs, FindItems(r)
      PROVE  OwnerInv'
  BY <1>5 DEF FindItems, TypeOK, OwnerInv
<1>6. ASSUME NEW r \in Runs, SaveItems(r)
      PROVE  OwnerInv'
  BY <1>6 DEF SaveItems, TypeOK, OwnerInv
<1>7. ASSUME NEW r \in Runs, Commit(r)
      PROVE  OwnerInv'
  <2>1. /\ pc[r] = "commit" /\ pc'[r] = "done" /\ own'[r] = {} /\ lines'[r] = {}
        /\ \A q \in Runs \ {r} : pc'[q] = pc[q] /\ own'[q] = own[q] /\ lines'[q] = lines[q]
        /\ found' = found /\ rows' = rows \cup own[r] /\ processed' = processed
    BY <1>7 DEF Commit, TypeOK
  <2>2. \A x \in own[r] : x.by = r /\ r \notin Customers /\ r # Api
    BY SeedAssumption DEF OwnerInv
  <2> QED
    BY <2>1, <2>2 DEF OwnerInv
<1>8. ASSUME NEW e \in SignUps, SignUp(e)
      PROVE  OwnerInv'
  <2> DEFINE x == [thing |-> e, by |-> Api]
  <2>1. x.by = Api /\ x.thing = e /\ rows' = rows \cup {x}
    BY <1>8 DEF SignUp
  <2>2. Api \notin Runs \cup Customers
    BY SeedAssumption
  <2>3. UNCHANGED <<pc, own, lines, found, processed>>
    BY <1>8 DEF SignUp
  <2> HIDE DEF x
  <2> QED
    BY <2>1, <2>2, <2>3 DEF OwnerInv
<1>9. ASSUME NEW c \in Customers, PlaceOrder(c)
      PROVE  OwnerInv'
  <2>1. OwnOrder(c).by = c /\ OwnOrder(c).thing = Order /\ rows' = rows \cup {OwnOrder(c)}
    BY <1>9 DEF PlaceOrder, OwnOrder
  <2>2. c \notin Runs /\ c # Api
    BY SeedAssumption
  <2>3. UNCHANGED <<pc, own, lines, found, processed>>
    BY <1>9 DEF PlaceOrder
  <2> QED
    BY <2>1, <2>2, <2>3 DEF OwnerInv
<1>10. ASSUME NEW c \in Customers, ProcessOrder(c)
       PROVE  OwnerInv'
  <2>1. processed' = processed \cup {OwnOrder(c)} /\ OwnOrder(c).by = c
    BY <1>10 DEF ProcessOrder, OwnOrder
  <2>2. UNCHANGED <<rows, pc, own, lines, found>>
    BY <1>10 DEF ProcessOrder
  <2> QED
    BY <2>1, <2>2 DEF OwnerInv
<1>11. CASE UNCHANGED vars
  BY <1>11 DEF vars, OwnerInv
<1> QED
  BY <1>1, <1>2, <1>3, <1>4, <1>5, <1>6, <1>7, <1>8, <1>9, <1>10, <1>11
     DEF Next, Advance, Finished

(* No step makes a second row of an account, committed or not. *)
LEMMA AccountStep ==
    ASSUME IInv, [Next]_vars
    PROVE  AccountInv'
<1> TypeOK /\ FoundInv /\ AccountInv
  BY DEF IInv
<1> DEFINE All == rows \cup UNION {own[q] : q \in Runs}
<1>1. ASSUME All' \subseteq All
      PROVE  AccountInv'
  BY <1>1 DEF AccountInv
<1>2. ASSUME NEW x, AccountFree(x.thing), All' \subseteq All \cup {x}
      PROVE  AccountInv'
  BY <1>2 DEF AccountInv, AccountFree
<1>3. ASSUME NEW r \in Runs, SaveDuplicate(r) \/ Fail(r)
      PROVE  AccountInv'
  <2>1. rows' = rows /\ \A q \in Runs : own'[q] \subseteq own[q]
    BY <1>3, RollbackCases DEF Rollback, db, TypeOK
  <2> QED
    BY <1>1, <2>1
<1>4. ASSUME NEW r \in Runs, Commit(r)
      PROVE  AccountInv'
  <2>1. rows' = rows \cup own[r] /\ \A q \in Runs : own'[q] \subseteq own[q]
    BY <1>4 DEF Commit, TypeOK
  <2> QED
    BY <1>1, <2>1
<1>5. ASSUME NEW r \in Runs, Save(r)
      PROVE  AccountInv'
  <2> DEFINE x == [thing |-> Wanted(r), by |-> r]
  <2>1. /\ AccountFree(x.thing) /\ rows' = rows
        /\ own' = [own EXCEPT ![r] = own[r] \cup {x}]
    BY <1>5 DEF Save, db
  <2> HIDE DEF x
  <2>2. \A q \in Runs : own'[q] \subseteq own[q] \cup {x}
    BY <2>1 DEF TypeOK
  <2>3. All' \subseteq All \cup {x}
    BY <2>1, <2>2
  <2> QED
    BY <1>2, <2>1, <2>3
<1>6. ASSUME NEW e \in SignUps, SignUp(e)
      PROVE  AccountInv'
  <2> DEFINE x == [thing |-> e, by |-> Api]
  <2>1. AccountFree(x.thing) /\ rows' = rows \cup {x} /\ own' = own
    BY <1>6 DEF SignUp, local
  <2> HIDE DEF x
  <2> QED
    BY <1>2, <2>1
<1>7. ASSUME NEW c \in Customers, PlaceOrder(c)
      PROVE  AccountInv'
  <2>1. OwnOrder(c).thing = Order /\ rows' = rows \cup {OwnOrder(c)} /\ own' = own
    BY <1>7 DEF PlaceOrder, OwnOrder, local
  <2>2. AccountFree(OwnOrder(c).thing)
    BY <2>1, SeedAssumption DEF AccountFree
  <2> QED
    BY <1>2, <2>1, <2>2
<1>8. CASE UNCHANGED <<rows, own>>
  BY <1>8 DEF AccountInv
<1>9. ASSUME NEW r \in Runs, Find(r) \/ FindNothing(r) \/ FindItems(r) \/ SaveItems(r)
      PROVE  UNCHANGED <<rows, own>>
  BY <1>9 DEF Find, FindNothing, FindItems, SaveItems, db, local
<1>10. ASSUME NEW c \in Customers, ProcessOrder(c)
       PROVE  UNCHANGED <<rows, own>>
  BY <1>10 DEF ProcessOrder, local
<1>11. CASE UNCHANGED vars
  BY <1>8, <1>11 DEF vars, db, local
<1> QED
  BY <1>3, <1>4, <1>5, <1>6, <1>7, <1>8, <1>9, <1>10, <1>11 DEF Next, Advance, Finished

(* Two runs do not insert the same row. *)
LEMMA OwnRows ==
    ASSUME OwnerInv, NEW r \in Runs, NEW x \in own[r]
    PROVE  /\ x.by = r /\ x \notin rows
           /\ \A q \in Runs : x \in own[q] => q = r
<1>1. x.by = r /\ pc[r] # "done"
  BY DEF OwnerInv
<1> QED
  BY <1>1 DEF OwnerInv

(* The order a run works with is its own, or one that has items. *)
LEMMA OrderFound ==
    ASSUME TypeOK, FoundInv, OwnerInv, NEW r \in Runs, step[r] = Len(Plan) + 1, pc[r] # "failed"
    PROVE  \/ OrderOf(r) \in rows /\ OrderOf(r) \notin own[r]
           \/ OrderOf(r) \in own[r] /\ OrderOf(r) = OwnOrder(r)
<1>1. Len(Plan) \in DOMAIN found[r]
  BY FoundRows, PlanFacts
<1>2. OrderOf(r) \in rows \cup own[r]
  BY <1>1 DEF FoundInv, OrderOf
<1>3. OrderOf(r) \in Rows /\ OrderOf(r).thing = Order
  BY FoundRows
<1>4. CASE OrderOf(r) \in own[r]
  <2>1. OrderOf(r).by = r
    BY <1>4, OwnRows
  <2> QED
    BY <1>3, <1>4, <2>1 DEF Rows, OwnOrder
<1> QED
  BY <1>2, <1>4

(* Every step keeps items with their orders. *)
LEMMA ItemsStep ==
    ASSUME IInv, [Next]_vars
    PROVE  ItemsInv'
<1> TypeOK /\ FoundInv /\ OwnerInv /\ ItemsInv
  BY DEF IInv
<1> USE DEF Goto, db, local
<1>1. ASSUME NEW r \in Runs, Find(r)
      PROVE  ItemsInv'
  <2>1. PICK x \in Matching(r) : Take(r, x)
    BY <1>1 DEF Find
  <2>2. x \in Rows /\ step[r] <= Len(Plan)
    BY <1>1 DEF Find, Matching, Visible, TypeOK
  <2>3. \A q \in Runs \ {r} : found'[q] = found[q]
    BY <2>1, <2>2, TakeFacts
  <2>4. UNCHANGED <<rows, items, pc, own, lines>> /\ pc[r] = "find"
    BY <1>1 DEF Find
  <2> QED
    BY <2>3, <2>4 DEF ItemsInv, OrderOf, ProductOf
<1>2. ASSUME NEW r \in Runs, FindNothing(r)
      PROVE  ItemsInv'
  <2>1. /\ pc[r] = "find" /\ pc'[r] = "save" /\ \A q \in Runs \ {r} : pc'[q] = pc[q]
        /\ UNCHANGED <<rows, items, own, lines, found>>
    BY <1>2 DEF FindNothing, TypeOK
  <2> QED
    BY <2>1 DEF ItemsInv, OrderOf, ProductOf
<1>3. ASSUME NEW r \in Runs, Save(r)
      PROVE  ItemsInv'
  <2> DEFINE x == [thing |-> Wanted(r), by |-> r]
  <2>1. x \in Rows /\ step[r] <= Len(Plan)
    BY <1>3, SavedRow DEF Save, FoundInv
  <2>2. /\ Take(r, x) /\ own' = [own EXCEPT ![r] = own[r] \cup {x}]
        /\ pc[r] = "save" /\ pc' = [pc EXCEPT ![r] = "find"]
        /\ UNCHANGED <<rows, items, lines>>
    BY <1>3 DEF Save
  <2> HIDE DEF x
  <2>3. \A q \in Runs \ {r} : found'[q] = found[q] /\ own'[q] = own[q] /\ pc'[q] = pc[q]
    BY <2>1, <2>2, TakeFacts DEF TypeOK
  <2>4. own[r] \subseteq own'[r] /\ pc'[r] = "find" /\ lines[r] = {}
    BY <2>2 DEF TypeOK, ItemsInv
  <2> QED
    BY <2>2, <2>3, <2>4 DEF ItemsInv, OrderOf, ProductOf
<1>4. ASSUME NEW r \in Runs, SaveDuplicate(r) \/ Fail(r)
      PROVE  ItemsInv'
  <2>1. /\ pc'[r] = "failed" /\ lines'[r] = {}
        /\ \A q \in Runs \ {r} : pc'[q] = pc[q] /\ own'[q] = own[q] /\ lines'[q] = lines[q]
        /\ UNCHANGED <<rows, items, found>>
    BY <1>4, RollbackCases DEF Rollback, TypeOK
  <2> QED
    BY <2>1 DEF ItemsInv, OrderOf, ProductOf
<1>5. ASSUME NEW r \in Runs, FindItems(r)
      PROVE  ItemsInv'
  <2>1. /\ pc[r] = "find" /\ pc'[r] = (IF Itemless(r) THEN "items" ELSE "commit")
        /\ \A q \in Runs \ {r} : pc'[q] = pc[q]
        /\ UNCHANGED <<rows, items, own, lines, found>>
    BY <1>5 DEF FindItems, TypeOK
  <2>2. step[r] = Len(Plan) + 1
    BY <1>5, PlanFacts DEF FindItems, TypeOK
  <2>3. OrderOf(r).thing = Order
    BY <2>2, FoundRows
  <2>4. Itemless(r) <=> OrderOf(r) \in own[r]
    <3>1. lines[r] = {}
      BY <2>1 DEF ItemsInv
    <3>2. CASE OrderOf(r) \in own[r]
      <4>1. OrderOf(r) \notin rows
        BY <3>2, OwnRows
      <4> QED
        BY <3>1, <3>2, <4>1 DEF Itemless, ItemsInv
    <3>3. CASE OrderOf(r) \in rows /\ OrderOf(r) \notin own[r]
      BY <2>3, <3>3 DEF Itemless, ItemsInv
    <3> QED
      BY <2>1, <2>2, <3>2, <3>3, OrderFound
  <2>5. (OrderOf(r) \in own[r])' <=> OrderOf(r) \in own[r]
    BY <2>1 DEF OrderOf
  <2> QED
    BY <2>1, <2>4, <2>5 DEF ItemsInv, OrderOf, ProductOf
<1>6. ASSUME NEW r \in Runs, SaveItems(r)
      PROVE  ItemsInv'
  <2> DEFINE new == {[order |-> OrderOf(r), product |-> ProductOf(r, i)] : i \in {1, 2}}
  <2>1. /\ pc[r] = "items" /\ pc'[r] = "commit" /\ lines'[r] = lines[r] \cup new
        /\ \A q \in Runs \ {r} : pc'[q] = pc[q] /\ lines'[q] = lines[q]
        /\ UNCHANGED <<rows, items, own, found>>
    BY <1>6 DEF SaveItems, TypeOK
  <2>2. lines[r] = {} /\ OrderOf(r) \in own[r] /\ step[r] = Len(Plan) + 1
    BY <2>1 DEF ItemsInv, FoundInv
  <2>3. OrderOf(r) = OwnOrder(r)
    BY <2>1, <2>2, OrderFound, OwnRows
  <2>4. \A l \in new : l.order = OrderOf(r)
    OBVIOUS
  <2>5. lines'[r] = new /\ new' = new
    BY <2>1, <2>2 DEF OrderOf, ProductOf
  <2> HIDE DEF new
  <2>6. \A l \in lines'[r] : l.order = OwnOrder(r) /\ l.order \in own'[r]
    BY <2>1, <2>2, <2>3, <2>4, <2>5
  <2>7. lines'[r] = {[order |-> OrderOf(r), product |-> ProductOf(r, i)] : i \in {1, 2}}'
    BY <2>5 DEF new
  <2> QED
    BY <2>1, <2>6, <2>7 DEF ItemsInv, OrderOf, ProductOf, OwnOrder
<1>7. ASSUME NEW r \in Runs, Commit(r)
      PROVE  ItemsInv'
  <2>1. /\ pc[r] = "commit" /\ pc'[r] = "done" /\ lines'[r] = {}
        /\ \A q \in Runs \ {r} : pc'[q] = pc[q] /\ own'[q] = own[q] /\ lines'[q] = lines[q]
        /\ rows' = rows \cup own[r] /\ items' = items \cup lines[r] /\ found' = found
    BY <1>7 DEF Commit, TypeOK
  <2>2. \A l \in items' : l.order \in rows'
    BY <2>1 DEF ItemsInv
  <2>3. ASSUME NEW x \in own[r], x.thing = Order
        PROVE  \E l \in lines[r] : l.order = x
    <3>1. step[r] = Len(Plan) + 1
      BY <2>1 DEF FoundInv
    <3>2. PICK i \in DOMAIN found[r] : found[r][i] = x
      BY <2>3 DEF OwnerInv
    <3>3. i \in 1..Len(Plan) /\ Plan[i] = Order
      BY <2>3, <3>1, <3>2, FoundRows DEF FoundInv
    <3>4. x = OrderOf(r)
      BY <3>2, <3>3, PlanFacts DEF OrderOf
    <3>5. lines[r] = {[order |-> OrderOf(r), product |-> ProductOf(r, k)] : k \in {1, 2}}
      BY <2>1, <2>3, <3>4 DEF ItemsInv
    <3>6. [order |-> OrderOf(r), product |-> ProductOf(r, 1)] \in lines[r]
      BY <3>5
    <3> QED
      BY <3>4, <3>6
  <2>4. \A x \in rows' : x.thing = Order => \E l \in items' : l.order = x
    BY <2>1, <2>3 DEF ItemsInv
  <2> QED
    BY <2>1, <2>2, <2>4 DEF ItemsInv, OrderOf, ProductOf, OwnOrder
<1>8. ASSUME NEW e \in SignUps, SignUp(e)
      PROVE  ItemsInv'
  <2> DEFINE x == [thing |-> e, by |-> Api]
  <2>1. x.thing # Order
    BY SeedAssumption
  <2>2. rows' = rows \cup {x} /\ UNCHANGED <<items, pc, own, lines, found>>
    BY <1>8 DEF SignUp
  <2> HIDE DEF x
  <2> QED
    BY <2>1, <2>2 DEF ItemsInv, OrderOf, ProductOf
<1>9. ASSUME NEW c \in Customers, PlaceOrder(c)
      PROVE  ItemsInv'
  <2>1. PICK p \in rows : items' = items \cup {[order |-> OwnOrder(c), product |-> p]}
    BY <1>9 DEF PlaceOrder, OwnOrder
  <2>2. rows' = rows \cup {OwnOrder(c)} /\ UNCHANGED <<pc, own, lines, found>>
    BY <1>9 DEF PlaceOrder, OwnOrder
  <2> DEFINE l == [order |-> OwnOrder(c), product |-> p]
  <2>3. l.order = OwnOrder(c) /\ items' = items \cup {l}
    BY <2>1
  <2> HIDE DEF l
  <2> QED
    BY <2>2, <2>3 DEF ItemsInv, OrderOf, ProductOf
<1>10. ASSUME NEW c \in Customers, ProcessOrder(c)
       PROVE  ItemsInv'
  BY <1>10 DEF ProcessOrder, ItemsInv, OrderOf, ProductOf
<1>11. CASE UNCHANGED vars
  BY <1>11 DEF vars, ItemsInv, OrderOf, ProductOf
<1> QED
  BY <1>1, <1>2, <1>3, <1>4, <1>5, <1>6, <1>7, <1>8, <1>9, <1>10, <1>11
     DEF Next, Advance, Finished

(* A run that has inserted more than accounts is past both of them. *)
LEMMA PastAccounts ==
    ASSUME TypeOK, FoundInv, OwnerInv, NEW k \in {1, 2}, NEW r \in Runs,
           NEW x \in own[r], x.thing \notin Accounts
    PROVE  k \in DOMAIN found[r] /\ step[r] > k
<1>1. /\ Len(found[r]) \in Nat /\ Len(found[r]) = step[r] - 1 /\ step[r] \in 1..Len(Plan) + 1
      /\ DOMAIN found[r] = 1..Len(found[r]) /\ Len(Plan) \in Nat
  BY PlanFacts DEF TypeOK, FoundInv
<1>2. PICK i \in DOMAIN found[r] : found[r][i] = x
  BY DEF OwnerInv
<1>3. i \in 1..Len(Plan) /\ Plan[i] \notin Accounts
  BY <1>1, <1>2 DEF FoundInv
<1>4. i > 2
  BY <1>3, PlanFacts
<1> QED
  BY <1>1, <1>2, <1>4

(* The row a run has found for the gate is its own, and then nobody else's is
   committed, or it is committed, and then everything is. *)
LEMMA GateSides ==
    ASSUME IInv, NEW k \in {1, 2}, Emails[k] \notin SignUps, NEW r \in Runs,
           step[r] > k, pc[r] # "failed"
    PROVE  /\ k \in DOMAIN found[r] /\ found[r][k].thing = Emails[k]
           /\ \/ found[r][k] \in own[r] /\ ~ Here(Emails[k]) /\ \A x \in rows : x.thing \in Accounts
              \/ found[r][k] \in rows /\ Here(Emails[k]) /\ \A x \in own[r] : x.thing \in Accounts
<1> TypeOK /\ FoundInv /\ OwnerInv /\ AccountInv /\ Gate(k)
  BY DEF IInv, GateInv
<1>1. k \in DOMAIN found[r] /\ k \in 1..Len(Plan)
  <2>1. /\ Len(found[r]) \in Nat /\ Len(found[r]) = step[r] - 1
        /\ DOMAIN found[r] = 1..Len(found[r]) /\ step[r] \in Nat
    BY DEF TypeOK, FoundInv
  <2> QED
    BY <2>1, PlanFacts
<1>2. found[r][k].thing = Emails[k] /\ found[r][k] \in rows \cup own[r]
  BY <1>1, PlanFacts DEF FoundInv
<1>3. Emails[k] \in Accounts
  BY SeedAssumption DEF Accounts
<1>4. CASE found[r][k] \in own[r]
  <2>1. found[r][k] \notin rows
    BY <1>4, OwnRows
  <2>2. ~ Here(Emails[k])
    BY <1>2, <1>3, <1>4, <2>1 DEF AccountInv, Here
  <2> QED
    BY <1>1, <1>2, <1>4, <2>2 DEF Gate
<1>5. CASE found[r][k] \in rows
  <2>1. found[r][k] \notin own[r]
    BY <1>5, OwnRows
  <2> QED
    BY <1>1, <1>2, <1>5, <2>1 DEF Gate, Here
<1> QED
  BY <1>2, <1>4, <1>5

(* A commit keeps the gate: the run that commits its account commits
   everything, a run that has found it committed adds only accounts. *)
LEMMA GateCommit ==
    ASSUME IInv, NEW k \in {1, 2}, Emails[k] \notin SignUps, NEW r \in Runs, Commit(r)
    PROVE  Gate(k)'
<1> TypeOK /\ FoundInv /\ OwnerInv /\ AccountInv /\ Gate(k)
  BY DEF IInv, GateInv
<1>1. /\ pc[r] = "commit" /\ pc'[r] = "done" /\ own'[r] = {}
      /\ \A q \in Runs \ {r} : pc'[q] = pc[q] /\ own'[q] = own[q]
      /\ found' = found /\ step' = step /\ rows' = rows \cup own[r]
  BY DEF Commit, Goto, TypeOK
<1>2. step[r] = Len(Plan) + 1 /\ step[r] > k /\ pc[r] # "failed"
  BY <1>1, PlanFacts DEF FoundInv
<1>3. \A q \in Runs : /\ pc'[q] = "save" /\ step'[q] > k => found'[q][k] \in own'[q]
                      /\ \A x \in own'[q] : x.thing \notin Accounts => found'[q][k] \in own'[q]
  BY <1>1 DEF Gate
<1>4. CASE found[r][k] \in own[r] /\ \A x \in rows : x.thing \in Accounts
  <2>1. Here(Emails[k])'
    BY <1>1, <1>2, <1>4, GateSides DEF Here
  <2>2. \A t \in Accounts \cup Catalogue : Here(t)'
    <3> TAKE t \in Accounts \cup Catalogue
    <3>1. PICK i \in DOMAIN found[r] : found[r][i].thing = t
      BY <1>2, FoundRows
    <3>2. found[r][i] \in rows'
      BY <1>1, <3>1 DEF FoundInv
    <3> QED
      BY <3>1, <3>2 DEF Here
  <2>3. \A x \in own[r] : x.by = r /\ x \in Rows
    BY DEF OwnerInv, TypeOK
  <2>4. OrderOf(r) \in own[r] /\ OrderOf(r).thing = Order
    BY <1>1, <1>2, <1>4, FoundRows, OrderFound, SeedAssumption
  <2>5. SeedOrders' # {}
    BY <1>1, <2>3, <2>4 DEF SeedOrders
  <2>6. \A x \in rows' : x.thing \notin Accounts => x \in own[r]
    BY <1>1, <1>4
  <2>7. \A x, y \in rows' : x.thing = y.thing /\ x.thing \notin Accounts => x = y
    BY <2>3, <2>6 DEF Rows
  <2> QED
    BY <1>3, <2>1, <2>2, <2>5, <2>7, SeedAssumption DEF Gate, SeedOrders
<1>5. CASE Here(Emails[k]) /\ \A x \in own[r] : x.thing \in Accounts
  <2>1. \A t : Here(t) => Here(t)'
    BY <1>1 DEF Here
  <2>2. SeedOrders' = SeedOrders
    BY <1>1, <1>5, SeedAssumption DEF SeedOrders
  <2>3. \A x \in rows' : x.thing \notin Accounts => x \in rows
    BY <1>1, <1>5
  <2> QED
    BY <1>3, <1>5, <2>1, <2>2, <2>3, SeedAssumption DEF Gate
<1> QED
  BY <1>2, <1>4, <1>5, GateSides

(* Every step keeps the gate. *)
LEMMA GateStep ==
    ASSUME IInv, [Next]_vars
    PROVE  GateInv'
<1> TypeOK /\ FoundInv /\ OwnerInv
  BY DEF IInv
<1> SUFFICES ASSUME NEW k \in {1, 2}, Emails[k] \notin SignUps
             PROVE  Gate(k)'
  BY DEF GateInv
<1> Gate(k)
  BY DEF IInv, GateInv
<1> USE DEF Goto, db, local
<1>1. ASSUME rows' = rows,
             \A r \in Runs : /\ pc'[r] = "save" /\ step'[r] > k => found'[r][k] \in own'[r]
                             /\ \A x \in own'[r] : x.thing \notin Accounts => found'[r][k] \in own'[r]
      PROVE  Gate(k)'
  BY <1>1 DEF Gate, Here, SeedOrders
<1>2. ASSUME NEW r \in Runs, Find(r)
      PROVE  Gate(k)'
  <2>1. PICK x \in Matching(r) : Take(r, x)
    BY <1>2 DEF Find
  <2>2. x \in Rows /\ step[r] <= Len(Plan)
    BY <1>2 DEF Find, Matching, Visible, TypeOK
  <2>3. /\ \A i \in DOMAIN found[r] : found'[r][i] = found[r][i]
        /\ \A q \in Runs \ {r} : found'[q] = found[q] /\ step'[q] = step[q]
    BY <2>1, <2>2, TakeFacts
  <2>4. UNCHANGED <<rows, pc, own>> /\ pc[r] = "find"
    BY <1>2 DEF Find
  <2>5. \A y \in own'[r] : y.thing \notin Accounts => found'[r][k] \in own'[r]
    BY <2>3, <2>4, PastAccounts DEF Gate
  <2> QED
    BY <1>1, <2>3, <2>4, <2>5 DEF Gate
<1>3. ASSUME NEW r \in Runs, FindNothing(r)
      PROVE  Gate(k)'
  <2>1. /\ pc[r] = "find" /\ pc'[r] = "save" /\ \A q \in Runs \ {r} : pc'[q] = pc[q]
        /\ UNCHANGED <<rows, own, found, step>>
    BY <1>3 DEF FindNothing, TypeOK
  <2>2. ASSUME step[r] > k
        PROVE  found[r][k] \in own[r]
    <3>1. SUFFICES ASSUME Here(Emails[k])
                   PROVE  FALSE
      BY <2>1, <2>2, GateSides
    <3>2. step[r] \in 1..Len(Plan)
      BY <1>3, PlanFacts DEF FindNothing, TypeOK
    <3>3. \A x \in rows : x.thing = Wanted(r) => x \in processed
      BY <1>3 DEF FindNothing, Matching, Visible
    <3>4. \A x \in processed : x.by \in Customers /\ x.thing = Order
      BY DEF OwnerInv, TypeOK
    <3>5. CASE Wanted(r) \in Accounts \cup Catalogue
      BY <3>1, <3>3, <3>4, <3>5, SeedAssumption DEF Gate, Here
    <3>6. CASE Wanted(r) = Order
      <4>1. PICK x \in rows : x.thing = Order /\ x.by \in Runs
        BY <3>1 DEF Gate, SeedOrders
      <4> QED
        BY <3>3, <3>4, <3>6, <4>1, SeedAssumption
    <3> QED
      BY <3>2, <3>5, <3>6, PlanFacts DEF Wanted, Things
  <2> QED
    BY <1>1, <2>1, <2>2 DEF Gate
<1>4. ASSUME NEW r \in Runs, Save(r)
      PROVE  Gate(k)'
  <2> DEFINE x == [thing |-> Wanted(r), by |-> r]
  <2>1. x \in Rows /\ x.thing = Wanted(r) /\ step[r] \in 1..Len(Plan)
    BY <1>4, SavedRow DEF Save
  <2>2. /\ Take(r, x) /\ own' = [own EXCEPT ![r] = own[r] \cup {x}]
        /\ pc[r] = "save" /\ pc' = [pc EXCEPT ![r] = "find"] /\ rows' = rows
    BY <1>4 DEF Save
  <2> HIDE DEF x
  <2>3. /\ \A i \in DOMAIN found[r] : found'[r][i] = found[r][i]
        /\ \A q \in Runs \ {r} : found'[q] = found[q] /\ step'[q] = step[q]
    BY <2>1, <2>2, TakeFacts
  <2>4. /\ pc'[r] = "find" /\ own'[r] = own[r] \cup {x}
        /\ \A q \in Runs \ {r} : pc'[q] = pc[q] /\ own'[q] = own[q]
    BY <2>2 DEF TypeOK
  <2>5. ASSUME x.thing \notin Accounts
        PROVE  found[r][k] \in own[r] /\ k \in DOMAIN found[r]
    <3>1. step[r] > 2
      BY <2>1, <2>5, PlanFacts DEF Wanted
    <3>2. step[r] > k
      BY <2>1, <3>1
    <3> QED
      BY <2>2, <3>2, GateSides DEF Gate
  <2>6. \A y \in own[r] : y.thing \notin Accounts => found[r][k] \in own[r] /\ k \in DOMAIN found[r]
    BY PastAccounts DEF Gate
  <2>7. \A y \in own'[r] : y.thing \notin Accounts => found'[r][k] \in own'[r]
    BY <2>3, <2>4, <2>5, <2>6
  <2> QED
    BY <1>1, <2>2, <2>3, <2>4, <2>7 DEF Gate
<1>5. ASSUME NEW r \in Runs, SaveDuplicate(r) \/ Fail(r)
      PROVE  Gate(k)'
  <2>1. /\ pc'[r] = "failed" /\ own'[r] = {}
        /\ \A q \in Runs \ {r} : pc'[q] = pc[q] /\ own'[q] = own[q]
        /\ UNCHANGED <<rows, found, step>>
    BY <1>5, RollbackCases DEF Rollback, TypeOK
  <2> QED
    BY <1>1, <2>1 DEF Gate
<1>6. ASSUME NEW r \in Runs, FindItems(r) \/ SaveItems(r)
      PROVE  Gate(k)'
  <2>1. /\ pc'[r] \in {"items", "commit"} /\ \A q \in Runs \ {r} : pc'[q] = pc[q]
        /\ UNCHANGED <<rows, own, found, step>>
    BY <1>6 DEF FindItems, SaveItems, TypeOK
  <2> QED
    BY <1>1, <2>1 DEF Gate
<1>7. ASSUME NEW r \in Runs, Commit(r)
      PROVE  Gate(k)'
  BY <1>7, GateCommit
<1>8. ASSUME NEW e \in SignUps, SignUp(e)
      PROVE  Gate(k)'
  <2> DEFINE x == [thing |-> e, by |-> Api]
  <2>1. x.thing = e /\ e # Emails[k] /\ e \in Accounts /\ e # Order /\ e \notin Catalogue
    BY SeedAssumption
  <2>2. rows' = rows \cup {x} /\ UNCHANGED <<pc, step, own, found>>
    BY <1>8 DEF SignUp
  <2> HIDE DEF x
  <2>3. Here(Emails[k])' <=> Here(Emails[k])
    BY <2>1, <2>2 DEF Here
  <2>4. \A t : Here(t) => Here(t)'
    BY <2>2 DEF Here
  <2>5. SeedOrders' = SeedOrders
    BY <2>1, <2>2 DEF SeedOrders
  <2> QED
    BY <2>1, <2>2, <2>3, <2>4, <2>5 DEF Gate
<1>9. ASSUME NEW c \in Customers, PlaceOrder(c)
      PROVE  Gate(k)'
  <2>1. /\ rows' = rows \cup {OwnOrder(c)} /\ UNCHANGED <<pc, step, own, found>>
        /\ \E p \in rows : p.thing \in Catalogue
    BY <1>9 DEF PlaceOrder, OwnOrder
  <2>2. Here(Emails[k])
    BY <2>1, SeedAssumption DEF Gate
  <2>3. \A t : Here(t) => Here(t)'
    BY <2>1 DEF Here
  <2>4. /\ OwnOrder(c).thing = Order /\ Order \notin Catalogue
        /\ OwnOrder(c).by \notin Runs
    BY SeedAssumption DEF OwnOrder
  <2>5. SeedOrders' = SeedOrders
    BY <2>1, <2>4 DEF SeedOrders
  <2> QED
    BY <2>1, <2>2, <2>3, <2>4, <2>5 DEF Gate
<1>10. ASSUME NEW c \in Customers, ProcessOrder(c)
       PROVE  Gate(k)'
  BY <1>1, <1>10 DEF ProcessOrder, Gate
<1>11. CASE UNCHANGED vars
  BY <1>1, <1>11 DEF vars, Gate
<1> QED
  BY <1>2, <1>3, <1>4, <1>5, <1>6, <1>7, <1>8, <1>9, <1>10, <1>11
     DEF Next, Advance, Finished

ItemsOf(x) == {l \in items : l.order = x}

(* No step adds items to an order that was committed before, or takes them
   away. *)
LEMMA ItemsStay ==
    ASSUME IInv, [Next]_vars, NEW x \in rows
    PROVE  {l \in items' : l.order = x} = ItemsOf(x)
<1> OwnerInv /\ ItemsInv
  BY DEF IInv
<1> USE DEF ItemsOf
<1>1. ASSUME NEW r \in Runs, Commit(r)
      PROVE  {l \in items' : l.order = x} = ItemsOf(x)
  <2>1. \A l \in lines[r] : l.order # x
    BY OwnRows DEF ItemsInv
  <2> QED
    BY <1>1, <2>1 DEF Commit
<1>2. ASSUME NEW c \in Customers, PlaceOrder(c)
      PROVE  {l \in items' : l.order = x} = ItemsOf(x)
  <2>1. PICK p \in rows : items' = items \cup {[order |-> OwnOrder(c), product |-> p]}
    BY <1>2 DEF PlaceOrder, OwnOrder
  <2>2. OwnOrder(c) # x
    BY <1>2 DEF PlaceOrder, OwnOrder
  <2> QED
    BY <2>1, <2>2
<1>3. CASE items' = items
  BY <1>3
<1>4. ASSUME NEW r \in Runs, \/ Find(r) \/ FindNothing(r) \/ Save(r) \/ SaveDuplicate(r)
                             \/ Fail(r) \/ FindItems(r) \/ SaveItems(r)
      PROVE  items' = items
  BY <1>4 DEF Find, FindNothing, Save, SaveDuplicate, Fail, Rollback, FindItems, SaveItems, db
<1>5. ASSUME NEW e \in SignUps, SignUp(e)
      PROVE  items' = items
  BY <1>5 DEF SignUp
<1>6. ASSUME NEW c \in Customers, ProcessOrder(c)
      PROVE  items' = items
  BY <1>6 DEF ProcessOrder
<1>7. CASE UNCHANGED vars
  BY <1>3, <1>7 DEF vars, db
<1> QED
  BY <1>1, <1>2, <1>3, <1>4, <1>5, <1>6, <1>7 DEF Next, Advance, Finished

(* Rows stay, and the orders of the seed come from commits. *)
LEMMA RowsStay ==
    ASSUME IInv, [Next]_vars
    PROVE  /\ rows \subseteq rows'
           /\ \A x \in SeedOrders' \ SeedOrders : \E r \in Runs : Commit(r) /\ x \in own[r]
<1> USE DEF SeedOrders
<1>1. ASSUME NEW r \in Runs, Commit(r)
      PROVE  rows' = rows \cup own[r]
  BY <1>1 DEF Commit
<1>2. ASSUME NEW r \in Runs, \/ Find(r) \/ FindNothing(r) \/ Save(r) \/ SaveDuplicate(r)
                             \/ Fail(r) \/ FindItems(r) \/ SaveItems(r)
      PROVE  rows' = rows
  BY <1>2 DEF Find, FindNothing, Save, SaveDuplicate, Fail, Rollback, FindItems, SaveItems, db
<1>3. ASSUME NEW e \in SignUps, SignUp(e)
      PROVE  rows \subseteq rows' /\ SeedOrders' = SeedOrders
  BY <1>3, SeedAssumption DEF SignUp
<1>4. ASSUME NEW c \in Customers, PlaceOrder(c)
      PROVE  rows \subseteq rows' /\ SeedOrders' = SeedOrders
  BY <1>4, SeedAssumption DEF PlaceOrder
<1>5. ASSUME NEW c \in Customers, ProcessOrder(c)
      PROVE  rows' = rows
  BY <1>5 DEF ProcessOrder
<1>6. CASE UNCHANGED vars
  BY <1>6 DEF vars, db
<1> QED
  BY <1>1, <1>2, <1>3, <1>4, <1>5, <1>6 DEF Next, Advance, Finished

(* A run commits the order of the seed with its two items, and with all that
   they name. *)
LEMMA CommitComplete ==
    ASSUME IInv, [Next]_vars, NEW r \in Runs, Commit(r), NEW x \in own[r], x.thing = Order
    PROVE  /\ Cardinality({l \in items' : l.order = x}) = 2
           /\ {l.product : l \in {k \in items' : k.order = x}} \subseteq rows'
           /\ \A t \in Accounts \cup Catalogue : \E y \in rows' : y.thing = t
<1> TypeOK /\ FoundInv /\ OwnerInv /\ ItemsInv
  BY DEF IInv
<1>1. pc[r] = "commit" /\ rows' = rows \cup own[r] /\ items' = items \cup lines[r]
  BY DEF Commit
<1>2. step[r] = Len(Plan) + 1
  BY <1>1 DEF FoundInv
<1>3. x = OrderOf(r)
  <2>1. PICK i \in DOMAIN found[r] : found[r][i] = x
    BY DEF OwnerInv
  <2>2. i \in 1..Len(Plan) /\ Plan[i] = Order
    BY <1>2, <2>1, FoundRows DEF FoundInv
  <2> QED
    BY <2>1, <2>2, PlanFacts DEF OrderOf
<1> DEFINE Line(i) == [order |-> x, product |-> ProductOf(r, i)]
<1>4. lines[r] = {Line(1), Line(2)}
  BY <1>1, <1>3 DEF ItemsInv
<1>5. x \notin rows /\ \A l \in items : l.order # x
  BY OwnRows DEF ItemsInv
<1>6. \A i \in {1, 2} : Line(i).order = x /\ Line(i).product = ProductOf(r, i)
  OBVIOUS
<1>7. {l \in items' : l.order = x} = {Line(1), Line(2)}
  <2> HIDE DEF Line
  <2> QED
    BY <1>1, <1>4, <1>5, <1>6
<1>8. ProductOf(r, 1) # ProductOf(r, 2)
  <2>1. 1 \in DOMAIN Titles /\ 2 \in DOMAIN Titles
    BY SeedAssumption
  <2>2. Titles[1] # Titles[2]
    BY <2>1, SeedAssumption
  <2>3. ProductOf(r, 1).thing = Titles[1] /\ ProductOf(r, 2).thing = Titles[2]
    BY <1>2, FoundRows
  <2> QED
    BY <2>2, <2>3
<1>9. Cardinality({Line(1), Line(2)}) = 2
  <2>1. Line(1) # Line(2)
    BY <1>6, <1>8
  <2> HIDE DEF Line
  <2>2. IsFiniteSet({Line(1)}) /\ Cardinality({Line(1)}) = 1 /\ Line(2) \notin {Line(1)}
    BY <2>1, FS_Singleton
  <2>3. Cardinality({Line(1)} \cup {Line(2)}) = 1 + 1
    BY <2>2, FS_AddElement
  <2>4. {Line(1)} \cup {Line(2)} = {Line(1), Line(2)}
    OBVIOUS
  <2> QED
    BY <2>3, <2>4
<1>10. \A i \in DOMAIN found[r] : found[r][i] \in rows'
  BY <1>1 DEF FoundInv
<1>11. \A i \in {1, 2} : ProductOf(r, i) \in rows'
  <2>1. DOMAIN found[r] = 1..Len(Plan)
    BY <1>2, FoundRows
  <2>2. \A i \in {1, 2} : Len(Emails) + i \in 1..Len(Plan)
    BY PlanFacts, SeedAssumption
  <2> QED
    BY <1>10, <2>1, <2>2 DEF ProductOf
<1>12. {l.product : l \in {Line(1), Line(2)}} \subseteq rows'
  <2> HIDE DEF Line
  <2> QED
    BY <1>6, <1>11
<1>13. \A t \in Accounts \cup Catalogue : \E y \in rows' : y.thing = t
  BY <1>2, <1>10, FoundRows
<1> HIDE DEF Line
<1> QED
  BY <1>7, <1>9, <1>12, <1>13

(* Every step leaves the orders of the seed complete. *)
LEMMA CompleteStep ==
    ASSUME IInv, [Next]_vars
    PROVE  SeedComplete'
<1> SUFFICES ASSUME NEW x \in SeedOrders'
             PROVE  /\ Cardinality({l \in items' : l.order = x}) = 2
                    /\ {l.product : l \in {k \in items' : k.order = x}} \subseteq rows'
                    /\ \A t \in Accounts \cup Catalogue : \E y \in rows' : y.thing = t
  BY DEF SeedComplete
<1>1. CASE x \in SeedOrders
  <2>1. x \in rows /\ rows \subseteq rows'
    BY <1>1, RowsStay DEF SeedOrders
  <2>2. {l \in items' : l.order = x} = ItemsOf(x)
    BY <2>1, ItemsStay
  <2>3. /\ Cardinality(ItemsOf(x)) = 2
        /\ {l.product : l \in ItemsOf(x)} \subseteq rows
        /\ \A t \in Accounts \cup Catalogue : \E y \in rows : y.thing = t
    BY <1>1 DEF IInv, SeedComplete, ItemsOf
  <2> QED
    BY <2>1, <2>2, <2>3
<1>2. CASE x \notin SeedOrders
  <2>1. PICK r \in Runs : Commit(r) /\ x \in own[r]
    BY <1>2, RowsStay
  <2>2. x.thing = Order
    BY DEF SeedOrders
  <2> QED
    BY <2>1, <2>2, CommitComplete
<1> QED
  BY <1>1, <1>2

-----------------------------------------------------------------------------
(* Theorems of the specification. *)

(* The inductive invariant holds in the initial state. *)
LEMMA SeedInit == Init => IInv
<1> SUFFICES ASSUME Init
             PROVE  IInv
  OBVIOUS
<1>1. TypeOK
  BY PlanFacts, EmptySeq DEF Init, TypeOK, Places
<1>2. FoundInv
  BY EmptySeq DEF Init, FoundInv
<1>3. OwnerInv /\ AccountInv /\ ItemsInv
  BY DEF Init, OwnerInv, AccountInv, ItemsInv
<1>4. GateInv /\ SeedComplete
  BY DEF Init, GateInv, Gate, Here, SeedOrders, SeedComplete
<1> QED
  BY <1>1, <1>2, <1>3, <1>4 DEF IInv

(* Every reachable state satisfies the inductive invariant: in particular only
   the run that holds the account nobody signs up with inserts what comes
   after it, until everything is committed with that account. *)
THEOREM SeedInvariant == Spec => []IInv
<1>1. IInv /\ [Next]_vars => IInv'
  BY TypeStep, FoundStep, OwnerStep, AccountStep, ItemsStep, GateStep, CompleteStep DEF IInv
<1> QED
  BY <1>1, SeedInit, PTL DEF Spec

(* Every variable keeps its type, and an order is processed only when it
   exists. *)
THEOREM SeedTypeCorrect == Spec => []TypeOK
<1>1. IInv => TypeOK
  BY DEF IInv
<1> QED
  BY <1>1, SeedInvariant, PTL

(* However many runs of the script there are, at once or repeated, each
   account and each product is there at most once and one order at most is the
   seed's, although titles have no unique constraint. *)
THEOREM SeedMakesNoDuplicates == Spec => []NoDuplicates
<1>1. IInv => NoDuplicates
  <2> SUFFICES ASSUME IInv, SignUps # Accounts
               PROVE  /\ \A x, y \in rows : x.thing = y.thing /\ x.thing # Order => x = y
                      /\ Cardinality(SeedOrders) <= 1
    BY DEF NoDuplicates
  <2>1. PICK k \in {1, 2} : Emails[k] \notin SignUps
    BY SeedAssumption DEF Accounts
  <2>2. Gate(k)
    BY <2>1 DEF IInv, GateInv
  <2>3. \A x, y \in rows : x.thing = y.thing /\ x.thing # Order => x = y
    BY <2>2 DEF IInv, AccountInv, Gate, TypeOK, Rows, Things
  <2>4. Cardinality(SeedOrders) <= 1
    <3>1. CASE SeedOrders = {}
      BY <3>1, FS_EmptySet
    <3>2. ASSUME NEW x \in SeedOrders
          PROVE  Cardinality(SeedOrders) <= 1
      <4>1. SeedOrders = {x}
        BY <2>2, <3>2 DEF Gate
      <4> QED
        BY <4>1, FS_Singleton
    <3> QED
      BY <3>1, <3>2
  <2> QED
    BY <2>3, <2>4
<1> QED
  BY <1>1, SeedInvariant, PTL

(* A run leaves everything or nothing: an order of the seed has its two items,
   they name rows that are there, and so is everything else of the seed. *)
THEOREM SeedLeavesAllOrNothing == Spec => []SeedComplete
<1>1. IInv => SeedComplete
  BY DEF IInv
<1> QED
  BY <1>1, SeedInvariant, PTL

(* No run adds items to an order that a customer has placed. *)
THEOREM SeedKeepsCustomerOrders == Spec => CustomerOrdersKept
<1>1. IInv /\ [Next]_vars
        => [\A x \in rows : x.by \in Customers =>
              {l \in items' : l.order = x} = {l \in items : l.order = x}]_vars
  BY ItemsStay DEF ItemsOf
<1> QED
  BY <1>1, SeedInvariant, PTL DEF Spec, CustomerOrdersKept
=============================================================================
