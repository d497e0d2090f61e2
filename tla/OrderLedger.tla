---------------------------- MODULE OrderLedger ----------------------------
(***************************************************************************)
(* What POST /api/orders promises, with every transaction taking place in  *)
(* one step: an idempotency key buys at most one order, an order takes its *)
(* lines out of the stock exactly once and only when all of them are       *)
(* available, and a reply that is not a 500 tells what became of the       *)
(* request.  OrderCreation implements it with connections, row locks and   *)
(* transactions that several requests hold at once.                        *)
(***************************************************************************)
EXTENDS Naturals

CONSTANTS Ids,           \* requests, which are also the ids of the orders they create
          Products,      \* rows of the products table
          Asks,          \* what a request may ask for: records [key, lines, known]
          InitialStock,  \* stock of each product at the start
          None           \* "no order"

VARIABLES ask,      \* what each request asks for
          orders,   \* ids of the orders that exist
          stock,    \* stock of each product
          outcome,  \* what became of each request: [status, order]
          reply     \* HTTP status sent for each request, 0 before that

vars == <<ask, orders, stock, outcome, reply>>

Open == [status |-> 0, order |-> None]
NoLines == [p \in Products |-> 0]
NoAsk == [key |-> None, lines |-> NoLines, known |-> TRUE]

Init ==
    /\ ask = [i \in Ids |-> NoAsk]
    /\ orders = {}
    /\ stock = InitialStock
    /\ outcome = [i \in Ids |-> Open]
    /\ reply = [i \in Ids |-> 0]

(* A request without a key is turned away and asks for nothing. *)
Reject(i) ==
    /\ ask[i].key = None
    /\ reply[i] = 0
    /\ reply' = [reply EXCEPT ![i] = 400]
    /\ UNCHANGED <<ask, orders, stock, outcome>>

Submit(i) ==
    /\ ask[i].key = None
    /\ reply[i] = 0
    /\ \E a \in Asks : ask' = [ask EXCEPT ![i] = a]
    /\ UNCHANGED <<orders, stock, outcome, reply>>

Undecided(i) ==
    /\ ask[i].key # None
    /\ outcome[i] = Open
    /\ reply[i] = 0

(* No order was bought with the key of i. *)
Fresh(i) == \A o \in orders : ask[o].key # ask[i].key

Decide(i, status, order) ==
    /\ outcome' = [outcome EXCEPT ![i] = [status |-> status, order |-> order]]
    /\ UNCHANGED <<ask, reply>>

(* The order of a request whose key is unused and whose lines are in stock. *)
Place(i) ==
    /\ Undecided(i)
    /\ ask[i].known
    /\ Fresh(i)
    /\ \A p \in Products : ask[i].lines[p] <= stock[p]
    /\ orders' = orders \cup {i}
    /\ stock' = [p \in Products |-> stock[p] - ask[i].lines[p]]
    /\ Decide(i, 201, i)

(* A key that has bought an order before: that order is the answer. *)
Repeat(i) ==
    /\ Undecided(i)
    /\ \E o \in orders :
          /\ ask[o].key = ask[i].key
          /\ Decide(i, 201, o)
    /\ UNCHANGED <<orders, stock>>

(* A line that names no product, or a product named by two lines; never the
   answer to the retry of an order that exists. *)
RefuseUnknown(i) ==
    /\ Undecided(i)
    /\ Fresh(i)
    /\ ~ ask[i].known
    /\ Decide(i, 404, None)
    /\ UNCHANGED <<orders, stock>>

RefuseShort(i) ==
    /\ Undecided(i)
    /\ Fresh(i)
    /\ \E p \in Products : stock[p] < ask[i].lines[p]
    /\ Decide(i, 409, None)
    /\ UNCHANGED <<orders, stock>>

(* The client is told what was decided, or gets a 500 that says nothing. *)
Reply(i) ==
    /\ ask[i].key # None
    /\ reply[i] = 0
    /\ \/ /\ outcome[i] # Open
          /\ reply' = [reply EXCEPT ![i] = outcome[i].status]
       \/ reply' = [reply EXCEPT ![i] = 500]
    /\ UNCHANGED <<ask, orders, stock, outcome>>

Next ==
    \E i \in Ids :
        \/ Reject(i)
        \/ Submit(i)
        \/ Place(i)
        \/ Repeat(i)
        \/ RefuseUnknown(i)
        \/ RefuseShort(i)
        \/ Reply(i)

Spec == Init /\ [][Next]_vars
=============================================================================
