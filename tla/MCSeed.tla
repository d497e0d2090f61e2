------------------------------- MODULE MCSeed -------------------------------
(* A small instance of Seed for TLC. *)
EXTENDS Seed

MCEmails == <<"admin", "user">>
MCTitles == <<"laptop", "mouse">>
=============================================================================
