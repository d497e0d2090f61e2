--------------------------- MODULE MCOrdersWorker ---------------------------
(* Small instances of OrdersWorker for TLC. *)
EXTENDS OrdersWorker

CONSTANT o1
=============================================================================
