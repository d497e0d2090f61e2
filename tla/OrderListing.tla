---------------------------- MODULE OrderListing ----------------------------
(***************************************************************************)
(* GET /api/orders: the orders of one user in one status and one range of  *)
(* creation times, the newest first, in pages.  A page is two queries: the *)
(* ids that belong to it, then the rows of these ids with their items.     *)
(* A client walks through the pages while orders are placed and processed. *)
(***************************************************************************)
EXTENDS Integers, Sequences, FiniteSets, SequencesExt

CONSTANTS Orders,   \* ids of the user's orders: random, in no order of time
          Times,    \* creation times
          Ranges,   \* [from, to]; an absent bound is one that bounds nothing
          Limits,   \* values of the query parameter limit
          FirstPages,  \* values of the query parameter page of a first request
          MaxPage   \* bound: the last page that is asked for

ASSUME ListingAssumption ==
    /\ Orders \subseteq Nat /\ Times \subseteq Nat /\ IsFiniteSet(Orders)
    /\ Limits \subseteq Int /\ FirstPages \subseteq Int /\ MaxPage \in Nat
    /\ Ranges \subseteq [from : Times, to : Times]

VARIABLES
    status,     \* status of each committed order, or "none"
    createdAt,  \* now() of the transaction that inserted it
    pc,         \* where the request stands
    want,       \* the filter and the number of the page
    ids,        \* the answer to the first query
    pages,      \* the pages that the client has got
    stayed,     \* history: orders that the filter has matched since the walk began
    entered,    \* history: some order has begun to match since
    left        \* history: orders that have ceased to match since

orders == <<status, createdAt>>
request == <<pc, want, ids, pages>>
history == <<stayed, entered, left>>
vars == <<orders, request, history>>

(* Those that orders have: nothing sets the other two of the enum, canceled and
   paid, and a listing of them is empty. *)
Statuses == {"created", "processed"}
Filters == [status : Statuses, range : Ranges, limit : Limits, page : Int]

Init ==
    /\ status = [o \in Orders |-> "none"]
    /\ createdAt = [o \in Orders |-> 0]
    /\ want \in [status : Statuses, range : Ranges, limit : Limits, page : FirstPages]
    /\ pc = "idle" /\ ids = <<>> /\ pages = <<>>
    /\ stayed = {} /\ entered = FALSE /\ left = {}

-----------------------------------------------------------------------------
(* Queries.  Orders of other users never match and are left out. *)

Matches(o, f) ==
    /\ status[o] = f.status
    /\ f.range.from <= createdAt[o] /\ createdAt[o] <= f.range.to

Matching(f) == {o \in Orders : Matches(o, f)}

NewestFirst(s) == \A i, j \in DOMAIN s : i < j => createdAt[s[i]] >= createdAt[s[j]]

(* The second query orders by creation time alone. *)
RowOrders(S) == {s \in SetToSeqs(S) : NewestFirst(s)}

(* Mutant: the query of the ids has no tie-break either. *)
LooseIdOrders(S) == RowOrders(S)

(* The query of the ids that TypeORM makes for take and skip over a join
   breaks ties by the id. *)
IdOrders(S) ==
    {s \in RowOrders(S) :
        \A i, j \in DOMAIN s :
            i < j /\ createdAt[s[i]] = createdAt[s[j]] => s[i] < s[j]}

(* Mutant: the page number counts from 0. *)
SkipWholePage(f) == f.page * f.limit

(* Mutant: the page number is taken for the number of orders. *)
SkipOne(f) == f.page - 1

Skip(f) == (f.page - 1) * f.limit

Least(a, b) == IF a <= b THEN a ELSE b

(* Mutant: one order more than the limit. *)
SliceAndNext(s, f) == SubSeq(s, Skip(f) + 1, Least(Skip(f) + f.limit + 1, Len(s)))

(* Mutant: one order less than the limit. *)
SliceShort(s, f) == SubSeq(s, Skip(f) + 1, Least(Skip(f) + f.limit - 1, Len(s)))

(* OFFSET Skip LIMIT limit *)
Slice(s, f) == SubSeq(s, Skip(f) + 1, Least(Skip(f) + f.limit, Len(s)))

(* take(0) and skip(0) are falsy: no pages, one query for every row. *)
Unlimited(f) == f.limit = 0 /\ Skip(f) = 0

(* PostgreSQL refuses them. *)
Negative(f) == f.limit < 0 \/ Skip(f) < 0

-----------------------------------------------------------------------------
(* The listing. *)

Ask ==
    /\ pc = "idle"
    /\ pc' = "ask"
    /\ stayed' = Matching(want)
    /\ UNCHANGED <<orders, want, ids, pages, entered, left>>

Respond(rows) ==
    /\ pages' = Append(pages, rows)
    /\ ids' = <<>>
    /\ pc' = "answered"

Refuse ==
    /\ pc = "ask"
    /\ Negative(want)
    /\ pc' = "refused"
    /\ UNCHANGED <<orders, want, ids, pages, history>>

SelectAll ==
    /\ pc = "ask"
    /\ Unlimited(want)
    /\ \E rows \in RowOrders(Matching(want)) : Respond(rows)
    /\ UNCHANGED <<orders, want, history>>

SelectIds ==
    /\ pc = "ask"
    /\ ~Negative(want) /\ ~Unlimited(want)
    /\ \E s \in IdOrders(Matching(want)) :
        \/ /\ Slice(s, want) # <<>>
           /\ ids' = Slice(s, want)
           /\ pc' = "rows"
           /\ UNCHANGED pages
        \/ /\ Slice(s, want) = <<>>
           /\ Respond(<<>>)
    /\ UNCHANGED <<orders, want, history>>

(* The rows of these ids that the filter still matches *)
SelectRows ==
    /\ pc = "rows"
    /\ \E rows \in RowOrders(Matching(want) \cap ToSet(ids)) : Respond(rows)
    /\ UNCHANGED <<orders, want, history>>

NextPage ==
    /\ pc = "answered"
    /\ want.page < MaxPage
    /\ want' = [want EXCEPT !.page = @ + 1]
    /\ pc' = "ask"
    /\ UNCHANGED <<orders, ids, pages, history>>

-----------------------------------------------------------------------------
(* What changes the orders meanwhile. *)

Remember ==
    /\ UNCHANGED request
    /\ IF pc = "idle"
       THEN UNCHANGED history
       ELSE /\ stayed' = stayed \cap Matching(want)'
            /\ entered' = (entered \/ ~(Matching(want)' \subseteq Matching(want)))
            /\ left' = left \cup (Matching(want) \ Matching(want)')

(* Transactions commit in any order of their beginnings. *)
Place(o) ==
    /\ status[o] = "none"
    /\ status' = [status EXCEPT ![o] = "created"]
    /\ \E t \in Times : createdAt' = [createdAt EXCEPT ![o] = t]
    /\ Remember

Process(o) ==
    /\ status[o] = "created"
    /\ status' = [status EXCEPT ![o] = "processed"]
    /\ UNCHANGED createdAt
    /\ Remember

Quiescent ==
    /\ \A o \in Orders : status[o] = "processed"
    /\ \/ pc = "refused"
       \/ pc = "answered" /\ want.page >= MaxPage
    /\ UNCHANGED vars

Next ==
    \/ Ask \/ Refuse \/ SelectAll \/ SelectIds \/ SelectRows \/ NextPage
    \/ \E o \in Orders : Place(o) \/ Process(o)
    \/ Quiescent

Spec == Init /\ [][Next]_vars

-----------------------------------------------------------------------------
(* Properties. *)

Seen == FlattenSeq(pages)
TimesSeen(o) == Cardinality({i \in DOMAIN Seen : Seen[i] = o})

(* The walk began at page 1 and its last page is short, or not limited. *)
Complete ==
    /\ pc = "answered"
    /\ want.page = Len(pages)
    /\ want.limit = 0 \/ Len(pages[Len(pages)]) < want.limit

(* The listing goes on after the page that was answered last. *)
Continues == pc = "answered" /\ Cardinality(Matching(want)) > want.page * want.limit

(* Every variable has its type, and no page is longer than its limit. *)
TypeOK ==
    /\ status \in [Orders -> Statuses \cup {"none"}]
    /\ createdAt \in [Orders -> Times \cup {0}]
    /\ pc \in {"idle", "ask", "rows", "answered", "refused"}
    /\ want \in Filters
    /\ ids \in Seq(Orders) /\ pages \in Seq(Seq(Orders))
    /\ stayed \subseteq Orders /\ entered \in BOOLEAN /\ left \subseteq Orders
    /\ want.limit > 0 => \A i \in DOMAIN pages : Len(pages[i]) <= want.limit

(* An order that matched throughout a complete walk was shown, unless an order
   ceased to match meanwhile and moved the others up; orders that were placed
   meanwhile, in whatever order of their times, hide nothing.  Processed
   orders stay processed: a walk through these misses nothing. *)
NothingMissed ==
    Complete /\ (left # {} => want.status = "processed") => stayed \subseteq ToSet(Seen)

(* No order is shown twice, unless one began to match meanwhile and moved the
   others down. *)
NothingRepeated ==
    want.limit > 0 /\ ~entered => \A o \in Orders : TimesSeen(o) <= 1

(* A page may be short without being the last, when an order is processed between
   the query of the ids and that of the rows (getMany is both).  But each order
   shortens one page at most, and nothing else does: as long as the listing goes
   on and nothing began to match, the pages so far lack no more orders than have
   ceased to match since the walk began. *)
PagesFull ==
    want.limit > 0 /\ ~entered /\ Continues =>
        Len(pages) * want.limit - Len(Seen) <= Cardinality(left)

(* When nothing changed meanwhile the pages are the listing, cut in pieces: each
   order once, the newest first, also across the pages and among equal times. *)
QuietWalk ==
    Complete /\ ~entered /\ left = {} =>
        /\ ToSet(Seen) = Matching(want)
        /\ want.limit > 0 => Len(Seen) = Cardinality(Matching(want))
        /\ want.limit > 0 => NewestFirst(Seen)
=============================================================================
