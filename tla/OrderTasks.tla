----------------------------- MODULE OrderTasks -----------------------------
(***************************************************************************)
(* What the worker promises: every order the broker accepts becomes a task *)
(* that is held until it is done or dead, and a task has its effect once.  *)
(***************************************************************************)
EXTENDS Naturals

CONSTANT Orders

VARIABLES
    accepted,   \* orders whose task was accepted
    held,       \* tasks that will be delivered (again)
    done,       \* tasks whose effect has taken place
    dead,       \* tasks that were given up
    effects     \* how many times a task's effect has taken place

vars == <<accepted, held, done, dead, effects>>

Init ==
    /\ accepted = {} /\ held = {} /\ done = {} /\ dead = {}
    /\ effects = [o \in Orders |-> 0]

Accept(o) ==
    /\ o \notin accepted
    /\ accepted' = accepted \cup {o}
    /\ held' = held \cup {o}
    /\ UNCHANGED <<done, dead, effects>>

Finish(o) ==
    /\ o \in held \ done
    /\ done' = done \cup {o}
    /\ effects' = [effects EXCEPT ![o] = @ + 1]
    /\ UNCHANGED <<accepted, held, dead>>

GiveUp(o) ==
    /\ o \in held
    /\ dead' = dead \cup {o}
    /\ UNCHANGED <<accepted, held, done, effects>>

(* A task is let go only when it is done or dead. *)
Release(o) ==
    /\ o \in held \cap (done \cup dead)
    /\ held' = held \ {o}
    /\ UNCHANGED <<accepted, done, dead, effects>>

Next == \E o \in Orders : Accept(o) \/ Finish(o) \/ GiveUp(o) \/ Release(o)

Spec == Init /\ [][Next]_vars
=============================================================================
