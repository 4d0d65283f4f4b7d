---------------------------- MODULE WorkflowDag ----------------------------
(***************************************************************************)
(* The stateless helpers of packages/workflow/src/_dag.ts, over a set of    *)
(* edges E (pairs <<from, to>>) and a status per node.  Nodes are the       *)
(* integers 1..MaxNodes, numbered in the order the rows are created: the    *)
(* (created_at, id) order the repository sorts by.                          *)
(***************************************************************************)
EXTENDS Naturals, FiniteSets

CONSTANT MaxNodes     \* bound: how many node rows a workflow ever creates
ASSUME MaxNodesAssumption == MaxNodes \in Nat \ {0}

Node == 1..MaxNodes
NodeKind == {"coordinator", "worker"}
Terminal == {"succeeded", "failed", "cancelled"}

\* "absent": the row does not exist, or no longer does.  The code's "ready"
\* is tested for in several places but never written by any of them.
NodeStatus == {"absent", "not_started", "running"} \cup Terminal

ParentsOf(E, n) == {m \in Node : <<m, n>> \in E}
ChildrenOf(E, n) == {m \in Node : <<n, m>> \in E}

\* Worker: every parent succeeded.  Coordinator: every parent is over,
\* however it ended.  A node without parents is ready.
ParentsReadyForKind(kind, status, E, n) ==
    \A p \in ParentsOf(E, n) :
        IF kind[n] = "worker" THEN status[p] = "succeeded"
                              ELSE status[p] \in Terminal

\* S is closed under following edges forward.
Closed(E, S) == \A e \in E : e[1] \in S => e[2] \in S

\* There is a path from a to b: b is in every closed set that a is in.
Reaches(E, a, b) == \A S \in SUBSET Node : a \in S /\ Closed(E, S) => b \in S

\* Mutant of WouldCreateCycle: the walk starts at the wrong end.
WouldCreateCycleForward(E, from, to) == from = to \/ Reaches(E, from, to)

WouldCreateCycle(E, from, to) == from = to \/ Reaches(E, to, from)

\* The nodes of present that have no outgoing edge.
StructuralLeaves(present, E) == {n \in present : ChildrenOf(E, n) = {}}

\* Mutant of ClassifiedStuck: only the coordinator case is recognised.
ClassifiedStuckCoord(kind, status, leaves) ==
    \E n \in leaves : leaves = {n} /\ kind[n] = "coordinator" /\ status[n] \in Terminal

\* The leaf sets checkStuckAndRecoverInTx acts on: one terminal coordinator
\* (coord_exited_without_action) or terminal workers only
\* (workers_finished_without_coord).
ClassifiedStuck(kind, status, leaves) ==
    /\ leaves # {}
    /\ \A n \in leaves : status[n] \in Terminal
    /\ \/ \E n \in leaves : leaves = {n} /\ kind[n] = "coordinator"
       \/ \A n \in leaves : kind[n] = "worker"

\* The reference notion of acyclicity: there is no nonempty set of nodes each
\* of which has a parent in the set.
Acyclic(E) ==
    ~ \E S \in SUBSET Node : S # {} /\ \A n \in S : ParentsOf(E, n) \cap S # {}
=============================================================================
