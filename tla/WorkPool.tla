------------------------------ MODULE WorkPool ------------------------------
(***************************************************************************)
(* What the work queue promises: units of work run in at most cap workers, *)
(* no worker is forgotten, and the pool closes only when every worker has  *)
(* been collected, once and for all.                                       *)
(***************************************************************************)
EXTENDS Integers, FiniteSets

CONSTANT Tasks

VARIABLES task, cap, open

poolvars == <<task, cap, open>>

Active == {t \in Tasks : task[t] = "active"}

Init ==
    /\ task = [t \in Tasks |-> "new"]
    /\ cap \in Nat
    /\ open = TRUE

Start(t) ==
    /\ open
    /\ task[t] = "new"
    /\ Cardinality(Active) < cap
    /\ task' = [task EXCEPT ![t] = "active"]
    /\ UNCHANGED <<cap, open>>

Collect(t) ==
    /\ open
    /\ task[t] = "active"
    /\ task' = [task EXCEPT ![t] = "collected"]
    /\ UNCHANGED <<cap, open>>

Close ==
    /\ open
    /\ Active = {}
    /\ open' = FALSE
    /\ UNCHANGED <<task, cap>>

Next == (\E t \in Tasks : Start(t) \/ Collect(t)) \/ Close

Spec == Init /\ [][Next]_poolvars
=============================================================================
