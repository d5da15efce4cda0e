------------------------------ MODULE TaskPool ------------------------------
(***************************************************************************)
(* What zpool.WorkPool promises, apart from how: a task is started at most *)
(* once, at most Limit run at a time, a task that was started ends, and    *)
(* once the pool is drained (a Close has returned) nothing runs or starts. *)
(***************************************************************************)
EXTENDS Naturals, FiniteSets

CONSTANTS Tasks, Limit

VARIABLES task, drained

Running == {t \in Tasks : task[t] = "running"}

Init == task = [t \in Tasks |-> "new"] /\ drained = FALSE

Begin(t) ==
    /\ task[t] = "new" /\ ~drained /\ Cardinality(Running) < Limit
    /\ task' = [task EXCEPT ![t] = "running"]
    /\ UNCHANGED drained

End(t) ==
    /\ task[t] = "running"
    /\ \E outcome \in {"finished", "panicked"} : task' = [task EXCEPT ![t] = outcome]
    /\ UNCHANGED drained

Drain ==
    /\ Running = {} /\ drained' = TRUE
    /\ UNCHANGED task

Next == (\E t \in Tasks : Begin(t) \/ End(t)) \/ Drain

Spec == Init /\ [][Next]_<<task, drained>>
=============================================================================
