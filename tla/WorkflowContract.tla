-------------------------- MODULE WorkflowContract --------------------------
(***************************************************************************)
(* What packages/workflow promises about one workflow, without its graph:   *)
(* the status of the header and the life of each node.  A node is born,     *)
(* may be removed or cancelled before it is started, is started at most     *)
(* once and ends at most once; an ended workflow starts nothing, creates    *)
(* nothing, removes nothing and never changes its outcome.                  *)
(***************************************************************************)
CONSTANT Node

VARIABLES wf, life

Ended == {"succeeded", "failed", "cancelled"}

\* How a node may end, from where it is.
Ends(before, after) ==
    \/ before = "running" /\ after \in Ended
    \/ before = "not_started" /\ after = "cancelled"

Born(before, after) == before = "unborn" /\ after = "not_started"
Removed(before, after) == before = "not_started" /\ after = "removed"
Started(before, after) == before = "not_started" /\ after = "running"

\* While the workflow runs, nodes are created, removed and ended.
Edit ==
    /\ wf = "running" /\ wf' = "running"
    /\ \A n \in Node : \/ life'[n] = life[n]
                       \/ Born(life[n], life'[n])
                       \/ Removed(life[n], life'[n])
                       \/ Ends(life[n], life'[n])

\* Nodes are started one at a time, and only while the workflow runs.
Start ==
    /\ wf = "running" /\ wf' = "running"
    /\ \E n \in Node : /\ Started(life[n], life'[n])
                       /\ \A m \in Node \ {n} : life'[m] = life[m]

Create ==
    /\ wf = "none" /\ wf' = "running"
    /\ \A n \in Node : life'[n] = life[n] \/ Born(life[n], life'[n])

\* Ending the workflow creates nothing and starts nothing.
Close ==
    /\ wf = "running" /\ wf' \in Ended
    /\ \A n \in Node : \/ life'[n] = life[n]
                       \/ Removed(life[n], life'[n])
                       \/ Ends(life[n], life'[n])

\* After the end, what was pending ends too.
WindDown ==
    /\ wf \in Ended /\ wf' = wf
    /\ \A n \in Node : life'[n] = life[n] \/ Ends(life[n], life'[n])

Init == wf = "none" /\ life = [n \in Node |-> "unborn"]

Next ==
    /\ life' \in [Node -> {"unborn", "not_started", "running", "removed"} \cup Ended]
    /\ Create \/ Edit \/ Start \/ Close \/ WindDown

Spec == Init /\ [][Next]_<<wf, life>>
=============================================================================
