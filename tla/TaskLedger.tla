----------------------------- MODULE TaskLedger -----------------------------
(***************************************************************************)
(* What packages/task promises to those who dispatch tasks and watch their  *)
(* rows: a task is recorded before anything is started for it, nothing      *)
(* works for it once it is recorded as ended, an outcome never changes, and *)
(* a row that was removed stays away.                                       *)
(***************************************************************************)
CONSTANT Task

VARIABLES
    status,  \* what a reader of the table sees, "gone" once it is removed
    working  \* tasks some agent process works for

Outcomes == {"succeeded", "failed", "cancelled"}

Init ==
    /\ status = [t \in Task |-> "absent"]
    /\ working = {}

Begin(t) ==
    /\ status[t] = "absent"
    /\ status' = [status EXCEPT ![t] = "running"]
    /\ UNCHANGED working

Refuse(t) ==
    /\ status[t] = "absent"
    /\ status' = [status EXCEPT ![t] = "gone"]
    /\ UNCHANGED working

Work(t) ==
    /\ status[t] = "running" /\ t \notin working
    /\ working' = working \cup {t}
    /\ UNCHANGED status

Rest(t) ==
    /\ t \in working
    /\ working' = working \ {t}
    /\ UNCHANGED status

End(t) ==
    /\ status[t] = "running" /\ t \notin working
    /\ \E o \in Outcomes : status' = [status EXCEPT ![t] = o]
    /\ UNCHANGED working

\* Ended tasks are removed, one or all those of a schedule.
Forget ==
    /\ \A t \in Task : \/ status'[t] = status[t]
                       \/ status[t] \in Outcomes /\ status'[t] = "gone"
    /\ UNCHANGED working

\* The server dies or is stopped, and its next start takes stock.
Restart ==
    /\ working' = {}
    /\ \A t \in Task : \/ status'[t] = status[t]
                       \/ status[t] = "absent" /\ status'[t] = "gone"
                       \/ status[t] = "running" /\ status'[t] = "failed"

Next ==
    \/ \E t \in Task : Begin(t) \/ Refuse(t) \/ Work(t) \/ Rest(t) \/ End(t)
    \/ Forget
    \/ Restart

Spec == Init /\ [][Next]_<<status, working>>
=============================================================================
