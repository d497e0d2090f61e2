-------------------------------- MODULE Seed --------------------------------
(***************************************************************************)
(* The seed script: find or create two accounts, the products, an order of *)
(* the second account and the items of that order, one query after the     *)
(* other in one transaction.  Several runs of it may be under way at once, *)
(* beside an API that signs users up, places orders and processes them.    *)
(* E-mails are unique in the database; titles are not, and an order of the *)
(* seed has a random idempotency key.                                      *)
(***************************************************************************)
EXTENDS Naturals, Sequences, FiniteSets

CONSTANTS Runs,       \* runs of the script
          Customers,  \* orders that the API places for the second account
          Emails,     \* e-mails of the accounts, in the order of the script
          Titles,     \* titles of productData, in its order
          SignUps,    \* e-mails that clients sign up with
          Order, Api

Accounts == {Emails[i] : i \in DOMAIN Emails}
Catalogue == {Titles[i] : i \in DOMAIN Titles}
Things == Accounts \cup Catalogue \cup {Order}
Rows == [thing : Things, by : Runs \cup Customers \cup {Api}]

ASSUME SeedAssumption ==
    /\ Emails \in Seq(Accounts) /\ Len(Emails) = 2 /\ Emails[1] # Emails[2]
    /\ Titles \in Seq(Catalogue) /\ Len(Titles) >= 2
    /\ \A i, j \in DOMAIN Titles : Titles[i] = Titles[j] => i = j
    /\ SignUps \subseteq Accounts
    /\ Runs \cap Customers = {} /\ Api \notin Runs \cup Customers
    /\ Order \notin Accounts \cup Catalogue /\ Accounts \cap Catalogue = {}

VARIABLES
    rows,       \* committed rows of users, products and orders
    items,      \* committed order items: [order, product]
    processed,  \* orders that are not in status created any more
    pc,         \* where each run stands
    step,       \* what it looks for: an index in Plan
    own,        \* rows it has inserted and not committed
    lines,      \* items it has inserted and not committed
    found       \* the rows it works with, found or created

db == <<rows, items, processed>>
local == <<own, lines, found>>
vars == <<db, pc, step, local>>

(* What the script makes sure of, in its order. *)
Plan == Emails \o Titles \o <<Order>>

Init ==
    /\ rows = {} /\ items = {} /\ processed = {}
    /\ pc = [r \in Runs |-> "find"]
    /\ step = [r \in Runs |-> 1]
    /\ own = [r \in Runs |-> {}]
    /\ lines = [r \in Runs |-> {}]
    /\ found = [r \in Runs |-> <<>>]

-----------------------------------------------------------------------------
Goto(r, place) == pc' = [pc EXCEPT ![r] = place]

Wanted(r) == Plan[step[r]]

(* READ COMMITTED: the committed rows and the transaction's own *)
Visible(r) == rows \cup own[r]

(* findOne of the thing; an order has to be in status created. *)
Matching(r) == {x \in Visible(r) : x.thing = Wanted(r) /\ x \notin processed}

Take(r, x) ==
    /\ found' = [found EXCEPT ![r] = Append(@, x)]
    /\ step' = [step EXCEPT ![r] = @ + 1]

Find(r) ==
    /\ pc[r] = "find"
    /\ step[r] <= Len(Plan)
    /\ \E x \in Matching(r) : Take(r, x)
    /\ UNCHANGED <<db, pc, own, lines>>

FindNothing(r) ==
    /\ pc[r] = "find"
    /\ step[r] <= Len(Plan)
    /\ Matching(r) = {}
    /\ Goto(r, "save")
    /\ UNCHANGED <<db, step, local>>

(* Mutant: the e-mail has no unique constraint. *)
AlwaysFree(thing) == TRUE

(* No row of that account, committed or not *)
AccountFree(thing) ==
    thing \in Accounts => \A x \in rows \cup UNION {own[q] : q \in Runs} : x.thing # thing

Save(r) ==
    /\ pc[r] = "save"
    /\ AccountFree(Wanted(r))
    /\ LET x == [thing |-> Wanted(r), by |-> r]
       IN  Take(r, x) /\ own' = [own EXCEPT ![r] = @ \cup {x}]
    /\ Goto(r, "find")
    /\ UNCHANGED <<db, lines>>

(* Mutant: the connection is released without a rollback. *)
LeaveOpen(r) ==
    /\ Goto(r, "failed")
    /\ UNCHANGED <<db, step, local>>

Rollback(r) ==
    /\ own' = [own EXCEPT ![r] = {}]
    /\ lines' = [lines EXCEPT ![r] = {}]
    /\ Goto(r, "failed")
    /\ UNCHANGED <<db, step, found>>

(* Another transaction has committed the account in between: 23505. *)
SaveDuplicate(r) ==
    /\ pc[r] = "save"
    /\ \E x \in rows : Wanted(r) \in Accounts /\ x.thing = Wanted(r)
    /\ Rollback(r)

(* A statement fails or the process dies. *)
Fail(r) ==
    /\ pc[r] \in {"find", "save", "items", "commit"}
    /\ Rollback(r)

OrderOf(r) == found[r][Len(Plan)]
ProductOf(r, i) == found[r][Len(Emails) + i]

(* Mutant: the items are not looked for. *)
NoItems(r) == TRUE

Itemless(r) == \A l \in items \cup lines[r] : l.order # OrderOf(r)

FindItems(r) ==
    /\ pc[r] = "find"
    /\ step[r] > Len(Plan)
    /\ Goto(r, IF Itemless(r) THEN "items" ELSE "commit")
    /\ UNCHANGED <<db, step, local>>

SaveItems(r) ==
    /\ pc[r] = "items"
    /\ lines' = [lines EXCEPT ![r] =
                    @ \cup {[order |-> OrderOf(r), product |-> ProductOf(r, i)] : i \in {1, 2}}]
    /\ Goto(r, "commit")
    /\ UNCHANGED <<db, step, own, found>>

(* Mutant: the items are not part of the transaction and get lost. *)
CommitRows(r) ==
    /\ pc[r] = "commit"
    /\ rows' = rows \cup own[r]
    /\ own' = [own EXCEPT ![r] = {}]
    /\ Goto(r, "done")
    /\ UNCHANGED <<items, processed, step, lines, found>>

Commit(r) ==
    /\ pc[r] = "commit"
    /\ rows' = rows \cup own[r]
    /\ items' = items \cup lines[r]
    /\ own' = [own EXCEPT ![r] = {}]
    /\ lines' = [lines EXCEPT ![r] = {}]
    /\ Goto(r, "done")
    /\ UNCHANGED <<processed, step, found>>

-----------------------------------------------------------------------------
(* The API: AuthService.signUp, OrdersService.createOrder, the worker. *)

SignUp(e) ==
    /\ AccountFree(e)
    /\ rows' = rows \cup {[thing |-> e, by |-> Api]}
    /\ UNCHANGED <<items, processed, pc, step, local>>

PlaceOrder(c) ==
    LET x == [thing |-> Order, by |-> c]
    IN  /\ x \notin rows
        /\ \E u \in rows : u.thing = Emails[2]
        /\ \E p \in rows : p.thing \in Catalogue /\ items' = items \cup {[order |-> x, product |-> p]}
        /\ rows' = rows \cup {x}
        /\ UNCHANGED <<processed, pc, step, local>>

(* Mutant: the message of an order is sent before its commit. *)
ProcessEarly(c) ==
    /\ processed' = processed \cup {[thing |-> Order, by |-> c]}
    /\ UNCHANGED <<rows, items, pc, step, local>>

ProcessOrder(c) ==
    LET x == [thing |-> Order, by |-> c]
    IN  /\ x \in rows \ processed
        /\ processed' = processed \cup {x}
        /\ UNCHANGED <<rows, items, pc, step, local>>

Advance(r) ==
    \/ Find(r)
    \/ FindNothing(r)
    \/ Save(r)
    \/ SaveDuplicate(r)
    \/ FindItems(r)
    \/ SaveItems(r)
    \/ Commit(r)

Finished ==
    /\ \A r \in Runs : pc[r] \in {"done", "failed"}
    /\ UNCHANGED vars

Next ==
    \/ \E r \in Runs : Advance(r) \/ Fail(r)
    \/ \E e \in SignUps : SignUp(e)
    \/ \E c \in Customers : PlaceOrder(c) \/ ProcessOrder(c)
    \/ Finished

Spec == Init /\ [][Next]_vars

(* A query that can be answered is answered. *)
FairSpec == Spec /\ \A r \in Runs : WF_vars(Advance(r))

-----------------------------------------------------------------------------
(* Properties. *)

Places == {"find", "save", "items", "commit", "done", "failed"}
Lines == [order : Rows, product : Rows]

(* Every variable has its type, and an order is processed only when it exists. *)
TypeOK ==
    /\ rows \subseteq Rows /\ items \subseteq Lines /\ processed \subseteq rows
    /\ pc \in [Runs -> Places]
    /\ step \in [Runs -> 1..Len(Plan) + 1]
    /\ own \in [Runs -> SUBSET Rows]
    /\ lines \in [Runs -> SUBSET Lines]
    /\ found \in [Runs -> Seq(Rows)]

SeedOrders == {x \in rows : x.thing = Order /\ x.by \in Runs}

(* Runs at once, one after the other, failed and repeated: each account and
   each product is there at most once, and one order at most is the seed's.
   Titles are not unique: it is the insert of an account that nobody else
   signs up with that lets one run at a time past it. *)
NoDuplicates ==
    SignUps # Accounts =>
        /\ \A x, y \in rows : x.thing = y.thing /\ x.thing # Order => x = y
        /\ Cardinality(SeedOrders) <= 1

(* A run leaves everything or nothing: when the order of a seed is there, it
   has its two items, and they name rows that are there. *)
SeedComplete ==
    \A x \in SeedOrders :
        /\ Cardinality({l \in items : l.order = x}) = 2
        /\ {l.product : l \in {k \in items : k.order = x}} \subseteq rows
        /\ \A t \in Accounts \cup Catalogue : \E y \in rows : y.thing = t

(* No run adds items to an order that a customer has placed, although it takes
   such an order for its own. *)
CustomerOrdersKept ==
    [][\A x \in rows : x.by \in Customers =>
          {l \in items' : l.order = x} = {l \in items : l.order = x}]_vars

(* Every run ends: one that waits for the account of another does not wait for
   ever, whatever becomes of the other. *)
RunsEnd == \A r \in Runs : <>(pc[r] \in {"done", "failed"})
=============================================================================
