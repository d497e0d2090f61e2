--------------------------- MODULE MCOrderListing ---------------------------
(* A small instance of OrderListing for TLC. *)
EXTENDS OrderListing

MCRanges == {[from |-> 1, to |-> 2], [from |-> 2, to |-> 2]}
MCLimits == {-1, 0, 1, 2}
MCFirstPages == {0, 1}
=============================================================================
