-------------------------- MODULE MCOrderCreation --------------------------
(* Small instances of OrderCreation for TLC. *)
EXTENDS OrderCreation, TLC

CONSTANTS r1, r2, r3, k1, k2, p1, p2, ghost

MCStock == (p1 :> 2) @@ (p2 :> 1)

Item(p, n) == [id |-> p, qty |-> n]
Body(k, cart) == [key |-> k, cart |-> cart]

(* All three may share a key, as many duplicates then as the pool has
   connections, and two may share the other; carts that fit together, that do
   not, that meet in their rows, and that cannot be served: no item, an item
   twice, an item that is no product. *)
MCInbox ==
    (r1 :> {Body(k1, <<Item(p1, 1), Item(p2, 1)>>), Body(k1, <<>>)})
    @@
    (r2 :> {Body(k1, <<Item(p1, 1), Item(p1, 2)>>), Body(k2, <<Item(p1, 2), Item(p2, 1)>>)})
    @@
    (r3 :> {Body(k2, <<Item(p2, 1), Item(p1, 1)>>), Body(k1, <<Item(p1, 1), Item(ghost, 1)>>)})

(* One key and one cart: retries of one order. *)
RetryInbox ==
    [r \in Requests |-> {Body(k1, <<Item(p1, 1)>>)}]
=============================================================================
