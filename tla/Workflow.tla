------------------------------ MODULE Workflow ------------------------------
(***************************************************************************)
(* One workflow of packages/workflow: the rows WorkflowService keeps in     *)
(* SQLite and the in-process work that its engine and runners owe them.     *)
(*                                                                         *)
(* Grain.  A better-sqlite3 transaction is synchronous, so each is one      *)
(* step; the service may be interleaved with others wherever it awaits.     *)
(* A call that commits and then, in the same synchronous turn, dispatches   *)
(* a node leaves that node in "turn": nothing can come between the two      *)
(* transactions but the death of the process.                               *)
(***************************************************************************)
EXTENDS WorkflowDag

CONSTANTS
    Agents,                 \* coordinator agents a spec may name
    NoAgent,                \* the agent of a worker row, whose spec is opaque
    StuckRetryMaxAttempts,  \* STUCK_RETRY_MAX_ATTEMPTS, 5 in the code
    CallerNodes,            \* bound: callers create nodes only up to this id
    MaxBatch,               \* bound: nodes in one addSubgraph call
    BatchEdges,             \* bound: the edges[] lists addSubgraph is given
    MaxCrashes              \* bound: how often the process dies

ASSUME AgentsAssumption == NoAgent \notin Agents
ASSUME RetryAssumption == StuckRetryMaxAttempts \in Nat
ASSUME CallerAssumption == CallerNodes \in Node
ASSUME BatchAssumption == MaxBatch \in Nat /\ BatchEdges \subseteq SUBSET (Node \X Node)
ASSUME CrashAssumption == MaxCrashes \in Nat

VARIABLES
    db,        \* the rows: durable, read and written only by transactions
    turn,      \* node the running synchronous turn dispatches next, 0 if none
    calls,     \* nodes with a dispatchAtomic call still to run
    nudged,    \* an engine tick is queued
    watch,     \* nodes a runner of this process will report the end of
    targets,   \* nodes reconcileCancel has yet to visit
    crashes    \* deaths of the process so far

memory == <<turn, calls, nudged, watch, targets>>
vars == <<db, memory, crashes>>

WorkflowStatus == {"none", "running", "succeeded", "failed", "cancelled"}

(***************************************************************************)
(* The rows of one workflow: the header (wf, coordAgent) and, per node,     *)
(* kind, status, the agent of its spec and its metadata.retry (attempt 0    *)
(* when there is none).  lastId is the last node id created, lastEnded the  *)
(* coordinator that comes first by ended_at (0 if none has ended).          *)
(***************************************************************************)
Rows == [wf         : WorkflowStatus,
         coordAgent : Agents \cup {NoAgent},
         lastId     : 0..MaxNodes,
         lastEnded  : 0..MaxNodes,
         kind       : [Node -> NodeKind],
         status     : [Node -> NodeStatus],
         agent      : [Node -> Agents \cup {NoAgent}],
         attempt    : [Node -> 0..StuckRetryMaxAttempts],
         retryOf    : [Node -> 0..MaxNodes],
         edges      : SUBSET (Node \X Node)]

NoRows == [wf         |-> "none",
           coordAgent |-> NoAgent,
           lastId     |-> 0,
           lastEnded  |-> 0,
           kind       |-> [n \in Node |-> "worker"],
           status     |-> [n \in Node |-> "absent"],
           agent      |-> [n \in Node |-> NoAgent],
           attempt    |-> [n \in Node |-> 0],
           retryOf    |-> [n \in Node |-> 0],
           edges      |-> {}]

Present(d) == {n \in Node : d.status[n] # "absent"}
IsOver(d, n) == d.status[n] \in Terminal
IsPending(d, n) == d.status[n] \in {"not_started", "running"}
Leaves(d) == StructuralLeaves(Present(d), d.edges)
Coords(d) == {n \in Present(d) : d.kind[n] = "coordinator"}

\* Mutant of Eligible: the workflow's status is not re-checked.
EligibleInEndedWorkflow(d, n) ==
    /\ d.status[n] = "not_started"
    /\ ParentsReadyForKind(d.kind, d.status, d.edges, n)

Eligible(d, n) ==
    /\ d.wf = "running"
    /\ d.status[n] = "not_started"
    /\ ParentsReadyForKind(d.kind, d.status, d.edges, n)

\* The not_started nodes at or below the seeds, by not_started nodes only:
\* what recomputePhasesInTx visits.
NotStartedBelow(d, seeds) ==
    LET open == {n \in Node : d.status[n] = "not_started"}
        E == {e \in d.edges : e[1] \in open /\ e[2] \in open}
    IN  {n \in open : \E s \in seeds \cap open : Reaches(E, s, n)}

\* ended_at is a millisecond: on a tie the younger coordinator comes first.
EndedOrders(d, n) ==
    IF d.kind[n] # "coordinator" THEN {d.lastEnded}
    ELSE {n} \cup (IF d.lastEnded > n THEN {d.lastEnded} ELSE {})

-----------------------------------------------------------------------------
(* Writes, as functions from rows to rows. *)

Insert(d, n, k, a, parents) ==
    [d EXCEPT !.lastId = n,
              !.kind[n] = k,
              !.status[n] = "not_started",
              !.agent[n] = a,
              !.edges = @ \cup (parents \X {n})]

\* insertCoordNodeInTx: the row, its edges and the denormalized agent.
InsertCoord(d, n, a, parents) ==
    [Insert(d, n, "coordinator", a, parents) EXCEPT !.coordAgent = a]

\* insertCoordRetryNodeInTx.
InsertCoordRetry(d, n, of, attempt, parents) ==
    [InsertCoord(d, n, d.agent[of], parents) EXCEPT !.attempt[n] = attempt,
                                                    !.retryOf[n] = of]

\* deleteEdgesAdjacentToNodeTx and deleteNodeTx.  The header is not touched.
DeleteNode(d, n) ==
    [d EXCEPT !.kind[n] = "worker",
              !.status[n] = "absent",
              !.agent[n] = NoAgent,
              !.attempt[n] = 0,
              !.retryOf[n] = 0,
              !.edges = {e \in @ : e[1] # n /\ e[2] # n}]

(***************************************************************************)
(* checkStuckAndRecoverInTx, the last thing every mutation's transaction    *)
(* does.  It acts when the workflow is running, every node is over and the  *)
(* leaves are classified: it inserts a retry coordinator below the last     *)
(* ended coordinator and all leaves, or, past the cap, fails the workflow.  *)
(***************************************************************************)
Stuck(d) ==
    /\ d.wf = "running"
    /\ \A n \in Present(d) : IsOver(d, n)
    /\ ClassifiedStuck(d.kind, d.status, Leaves(d))
    /\ d.lastEnded # 0

\* Mutant of NextAttempt: every retry counts as the first.
NextAttemptReset(d) == 1

NextAttempt(d) == d.attempt[d.lastEnded] + 1
CapReached(d) == NextAttempt(d) > StuckRetryMaxAttempts

RetryNode(d) == IF Stuck(d) /\ ~CapReached(d) THEN d.lastId + 1 ELSE 0

CheckStuckAndRecover(d) ==
    IF ~Stuck(d) THEN d
    ELSE IF CapReached(d) THEN [d EXCEPT !.wf = "failed"]
    ELSE InsertCoordRetry(d, RetryNode(d), d.lastEnded, NextAttempt(d),
                          {d.lastEnded} \cup Leaves(d))

\* The transaction commits rows d after the detector has seen them.  With
\* MaxNodes >= CallerNodes + StuckRetryMaxAttempts the bound never bites.
Commit(d) ==
    /\ RetryNode(d) <= MaxNodes
    /\ db' = CheckStuckAndRecover(d)

\* dispatchAtomic's transaction: re-check every gate, then flip to running.
DispatchTx(n) ==
    IF Eligible(db, n)
    THEN /\ db' = [db EXCEPT !.status[n] = "running"]
         /\ watch' = watch \cup {n}
    ELSE UNCHANGED <<db, watch>>

-----------------------------------------------------------------------------
(* The mutation primitives. *)

\* A mutation starts in a turn of its own, on a running workflow.
Mutation == turn = 0 /\ db.wf = "running"

\* After commit: the retry coordinator is dispatched in this same turn, the
\* eager dispatches of nodes read as ready are called later, and the engine
\* is nudged.
React(retry, eager) ==
    /\ turn' = retry
    /\ calls' = calls \cup {n \in eager : Eligible(db', n)}
    /\ nudged' = TRUE
    /\ UNCHANGED <<watch, targets, crashes>>

CreateWorkflow(a) ==
    /\ db.wf = "none"
    /\ turn = 0
    /\ db' = [InsertCoord(db, 1, a, {}) EXCEPT !.wf = "running"]
    /\ React(1, {})

AddNode(k, a, parents) ==
    LET n == db.lastId + 1
    IN  /\ Mutation
        /\ n <= CallerNodes
        /\ parents # {}
        /\ parents \subseteq Present(db)
        /\ \/ /\ k = "worker"
              /\ a = NoAgent
              /\ \A p \in parents : db.status[p] \notin {"failed", "cancelled"}
              /\ Commit(Insert(db, n, k, a, parents))
           \/ /\ k = "coordinator"
              /\ a \in Agents
              /\ parents \cap Coords(db) # {}
              /\ \A p \in parents \cap Coords(db) :
                     ChildrenOf(db.edges, p) \cap Coords(db) = {}
              /\ Commit(InsertCoord(db, n, a, parents))
        /\ React(0, {n})

\* Mutant of AddEdge: an edge into a node already started is accepted.
AddEdgeUnsealed(from, to) ==
    LET d == [db EXCEPT !.edges = @ \cup {<<from, to>>}]
    IN  /\ Mutation
        /\ {from, to} \subseteq Present(db)
        /\ ~WouldCreateCycle(db.edges, from, to)
        /\ <<from, to>> \notin db.edges
        /\ Commit(d)
        /\ React(0, NotStartedBelow(d, {to}))

\* The dispatch candidates are the recomputed nodes: the to-node and the
\* not_started nodes below it.  A duplicate edge fails on the primary key.
AddEdge(from, to) ==
    LET d == [db EXCEPT !.edges = @ \cup {<<from, to>>}]
    IN  /\ Mutation
        /\ {from, to} \subseteq Present(db)
        /\ db.status[to] = "not_started"
        /\ db.kind[to] = "worker" => db.status[from] \notin {"failed", "cancelled"}
        /\ ~WouldCreateCycle(db.edges, from, to)
        /\ <<from, to>> \notin db.edges
        /\ Commit(d)
        /\ React(0, NotStartedBelow(d, {to}))

\* The retry coordinator is dispatched in the same turn unless the runner of
\* a running node must be cancelled (and awaited) first.
CancelNode(n) ==
    LET d == [db EXCEPT !.status[n] = "cancelled"]
        wasRunning == db.status[n] = "running"
    IN  /\ Mutation
        /\ n \in Present(db)
        /\ db.kind[n] = "worker"
        /\ IsPending(db, n)
        /\ Commit(d)
        /\ IF wasRunning THEN React(0, {RetryNode(d)} \ {0})
                         ELSE React(RetryNode(d), {})

RemoveNode(n) ==
    LET d == DeleteNode(db, n)
    IN  /\ Mutation
        /\ db.status[n] = "not_started"
        /\ \A c \in ChildrenOf(db.edges, n) : ParentsOf(db.edges, c) # {n}
        /\ Commit(d)
        /\ React(RetryNode(d), {})

\* Mutant of RemoveEdge: the orphan check is missing.
RemoveLastEdge(from, to) ==
    LET d == [db EXCEPT !.edges = @ \ {<<from, to>>}]
    IN  /\ Mutation
        /\ <<from, to>> \in db.edges
        /\ db.status[to] = "not_started"
        /\ Commit(d)
        /\ React(RetryNode(d), {})

RemoveEdge(from, to) ==
    LET d == [db EXCEPT !.edges = @ \ {<<from, to>>}]
    IN  /\ Mutation
        /\ <<from, to>> \in db.edges
        /\ db.status[to] = "not_started"
        /\ ParentsOf(db.edges, to) # {from}
        /\ Commit(d)
        /\ React(RetryNode(d), {})

\* The denormalized agent follows only if n is the youngest coordinator.
ReplaceNodeSpec(n, a) ==
    LET youngest == \A m \in Coords(db) : m <= n
        d == IF db.kind[n] = "worker" THEN db
             ELSE [db EXCEPT !.agent[n] = a,
                             !.coordAgent = IF youngest THEN a ELSE @]
    IN  /\ Mutation
        /\ db.status[n] = "not_started"
        /\ IF db.kind[n] = "worker" THEN a = NoAgent ELSE a \in Agents
        /\ Commit(d)
        /\ React(RetryNode(d), {})

-----------------------------------------------------------------------------
(* addSubgraph.  A batch creates the rows temps with kinds and existing      *)
(* parents (via), and adds the edges X among existing nodes and temps.       *)

\* validateSubgraphShape: at most one coordinator, no parentless temp (an
\* edge from an existing node does not count), and X names known nodes.
ValidShape(temps, kinds, via, X) ==
    /\ \A t, u \in temps : kinds[t] = "coordinator" /\ kinds[u] = "coordinator" => t = u
    /\ \A e \in X : {e[1], e[2]} \subseteq Present(db) \cup temps
    /\ \A t \in temps : via[t] # {} \/ ParentsOf(X, t) \cap temps # {}

\* The gates of the transaction.  Only existing parents (via) are looked at
\* for a worker's parent state and a coordinator's predecessor.
SubgraphGates(temps, kinds, via, X) ==
    /\ \A e \in X : e[2] \notin temps => db.status[e[2]] = "not_started"
    /\ \A t \in temps :
         IF kinds[t] = "worker"
         THEN \A p \in via[t] : db.status[p] \notin {"failed", "cancelled"}
         ELSE /\ via[t] \cap Coords(db) # {}
              /\ \A p \in via[t] \cap Coords(db) :
                     ChildrenOf(db.edges, p) \cap Coords(db) = {}

\* The rows after the inserts; the youngest coordinator is the batch's.
WithSubgraph(size, temps, kinds, via, X, a) ==
    LET hasCoord == \E t \in temps : kinds[t] = "coordinator"
    IN  [db EXCEPT
          !.lastId = @ + size,
          !.kind = [n \in Node |-> IF n \in temps THEN kinds[n] ELSE @[n]],
          !.status = [n \in Node |-> IF n \in temps THEN "not_started" ELSE @[n]],
          !.agent = [n \in Node |-> IF n \in temps /\ kinds[n] = "coordinator"
                                    THEN a ELSE @[n]],
          !.coordAgent = IF hasCoord THEN a ELSE @,
          !.edges = @ \cup X \cup UNION {via[t] \X {t} : t \in temps}]

\* No edge may repeat (primary key); the joined graph must be acyclic and
\* its only leaf a coordinator.  addSubgraph dispatches nothing itself.
AddSubgraph(size, kinds, via, X, a) ==
    LET temps == (db.lastId + 1)..(db.lastId + size)
        d == WithSubgraph(size, temps, kinds, via, X, a)
    IN  /\ Mutation
        /\ db.lastId + size <= CallerNodes
        /\ ValidShape(temps, kinds, via, X)
        /\ SubgraphGates(temps, kinds, via, X)
        /\ X \cap (db.edges \cup UNION {via[t] \X {t} : t \in temps}) = {}
        /\ Acyclic(d.edges)
        /\ \E n \in Coords(d) : Leaves(d) = {n}
        /\ Commit(d)
        /\ React(RetryNode(d), {})

-----------------------------------------------------------------------------
(* Ending the workflow, and the reconciliation that follows. *)

\* Mutant of CancelTargets: every coordinator is spared, started or not.
CancelTargetsWorkersOnly(excludeRunningCoords) ==
    {n \in Node : IsPending(db, n) /\ ~(excludeRunningCoords /\ db.kind[n] = "coordinator")}

\* The snapshot reconcileCancel takes before its first await.
CancelTargets(excludeRunningCoords) ==
    {n \in Node : /\ IsPending(db, n)
                  /\ ~ /\ excludeRunningCoords
                       /\ db.kind[n] = "coordinator"
                       /\ db.status[n] = "running"}

EndWorkflow(outcome) ==
    /\ Mutation
    /\ db' = [db EXCEPT !.wf = outcome]
    /\ targets' = CancelTargets(outcome # "cancelled")
    /\ nudged' = TRUE
    /\ UNCHANGED <<turn, calls, watch, crashes>>

FinishWorkflow(outcome) == outcome \in {"succeeded", "failed"} /\ EndWorkflow(outcome)

CancelWorkflow == EndWorkflow("cancelled")

\* One round of reconcileCancel: after the runner's cancel, flip the node
\* unless it ended meanwhile.
ReconcileNode(n) ==
    /\ turn = 0
    /\ n \in targets
    /\ targets' = targets \ {n}
    /\ db' = IF IsPending(db, n) THEN [db EXCEPT !.status[n] = "cancelled"] ELSE db
    /\ UNCHANGED <<turn, calls, nudged, watch, crashes>>

-----------------------------------------------------------------------------
(* The engine and the runners. *)

\* The second transaction of a synchronous turn.
DispatchTurn ==
    /\ turn # 0
    /\ DispatchTx(turn)
    /\ turn' = 0
    /\ UNCHANGED <<calls, nudged, targets, crashes>>

\* A dispatchAtomic call made by an eager reaction or by a tick.
DispatchAtomic(n) ==
    /\ turn = 0
    /\ n \in calls
    /\ DispatchTx(n)
    /\ calls' = calls \ {n}
    /\ UNCHANGED <<turn, nudged, targets, crashes>>

\* Mutant of Tick: of several eligible nodes only one is dispatched.
TickFirst ==
    /\ turn = 0
    /\ nudged
    /\ nudged' = FALSE
    /\ calls' = calls \cup {n \in Node : Eligible(db, n) /\ \A m \in Node : Eligible(db, m) => n <= m}
    /\ UNCHANGED <<db, turn, watch, targets, crashes>>

\* tickOnce: list the eligible nodes and call dispatchAtomic on each.
Tick ==
    /\ turn = 0
    /\ nudged
    /\ nudged' = FALSE
    /\ calls' = calls \cup {n \in Node : Eligible(db, n)}
    /\ UNCHANGED <<db, turn, watch, targets, crashes>>

\* Mutant of MarkNodeTerminal: a report about a node that is over counts.
MarkNodeTerminalAgain(n, outcome) ==
    /\ turn = 0
    /\ n \in watch
    /\ watch' = watch \ {n}
    /\ \E last \in EndedOrders(db, n) :
         LET d == [db EXCEPT !.status[n] = outcome, !.lastEnded = last]
         IN  /\ Commit(d)
             /\ turn' = RetryNode(d)
             /\ nudged' = TRUE
    /\ UNCHANGED <<calls, targets, crashes>>

\* The runner reports: markNodeTerminal, a no-op if the node is over.  It
\* does not look at the workflow's status.
MarkNodeTerminal(n, outcome) ==
    /\ turn = 0
    /\ n \in watch
    /\ watch' = watch \ {n}
    /\ IF ~IsPending(db, n)
       THEN UNCHANGED <<db, turn, nudged>>
       ELSE \E last \in EndedOrders(db, n) :
              LET d == [db EXCEPT !.status[n] = outcome, !.lastEnded = last]
              IN  /\ Commit(d)
                  /\ turn' = RetryNode(d)
                  /\ nudged' = TRUE
    /\ UNCHANGED <<calls, targets, crashes>>

\* The process dies and a new one opens the same database.  The engine has
\* no recovery scan: nothing in memory is rebuilt.
Crash ==
    /\ crashes < MaxCrashes
    /\ crashes' = crashes + 1
    /\ turn' = 0 /\ calls' = {} /\ nudged' = FALSE /\ watch' = {} /\ targets' = {}
    /\ UNCHANGED db

-----------------------------------------------------------------------------
Init ==
    /\ db = NoRows
    /\ turn = 0 /\ calls = {} /\ nudged = FALSE /\ watch = {} /\ targets = {}
    /\ crashes = 0

Edit ==
    \/ \E k \in NodeKind, a \in Agents \cup {NoAgent}, parents \in SUBSET Node :
           AddNode(k, a, parents)
    \/ \E from, to \in Node : AddEdge(from, to) \/ RemoveEdge(from, to)
    \/ \E n \in Node : RemoveNode(n) \/ CancelNode(n)
    \/ \E n \in Node, a \in Agents \cup {NoAgent} : ReplaceNodeSpec(n, a)

Batch ==
    /\ Mutation
    /\ \E size \in 1..MaxBatch :
         LET temps == (db.lastId + 1)..(db.lastId + size)
         IN  /\ db.lastId + size <= CallerNodes
             /\ \E X \in BatchEdges :
                  /\ \A e \in X : {e[1], e[2]} \subseteq Present(db) \cup temps
                  /\ \E kinds \in [temps -> NodeKind], a \in Agents,
                        via \in [temps -> SUBSET Present(db)] :
                       AddSubgraph(size, kinds, via, X, a)

End ==
    \/ \E outcome \in {"succeeded", "failed"} : FinishWorkflow(outcome)
    \/ CancelWorkflow
    \/ \E n \in Node : ReconcileNode(n)

Engine ==
    \/ DispatchTurn
    \/ Tick
    \/ \E n \in Node : DispatchAtomic(n)

Report == \E n \in Node, outcome \in Terminal : MarkNodeTerminal(n, outcome)

Next == (\E a \in Agents : CreateWorkflow(a)) \/ Edit \/ Batch \/ End \/ Engine \/ Report \/ Crash

\* The event loop runs what is queued; callers and runners owe nothing.
Fairness == WF_vars(DispatchTurn) /\ WF_vars(Tick)
            /\ \A n \in Node : WF_vars(DispatchAtomic(n)) /\ WF_vars(ReconcileNode(n))

Spec == Init /\ [][Next]_vars
FairSpec == Spec /\ Fairness

-----------------------------------------------------------------------------
(* Properties. *)

\* Every variable has its type; ids are handed out in order.
TypeOK ==
    /\ db \in Rows
    /\ \A n \in Node : n > db.lastId => db.status[n] = "absent"
    /\ turn \in 0..MaxNodes
    /\ calls \subseteq Node
    /\ nudged \in BOOLEAN
    /\ watch \subseteq Node
    /\ targets \subseteq Node
    /\ crashes \in 0..MaxCrashes

\* The graph stays a rooted DAG over existing rows whatever the order of
\* edits (WorkflowService's cycle, orphan and existence checks): edges join
\* present nodes, there is no cycle, and every row but the initial
\* coordinator has a parent.
RootedDag ==
    /\ \A e \in db.edges : {e[1], e[2]} \subseteq Present(db)
    /\ Acyclic(db.edges)
    /\ \A n \in Present(db) \ {1} : ParentsOf(db.edges, n) # {}

\* A node that was started still has, under it, the parents that justified
\* the start (dispatchAtomic's re-check): all succeeded for a worker, all
\* over for a coordinator.  Later edits and cancels cannot take that away.
StartJustified ==
    \A n \in Node : db.status[n] \in {"running", "succeeded", "failed"}
        => ParentsReadyForKind(db.kind, db.status, db.edges, n)

\* What a workflow leaves behind (reconcileCancel): once it is over and
\* reconciliation is through, nothing is pending but a coordinator still
\* running, and not even that after cancelWorkflow.
NothingLeftPending ==
    (crashes = 0 /\ targets = {} /\ db.wf \in Terminal) =>
        \A n \in Present(db) : IsPending(db, n) =>
            db.kind[n] = "coordinator" /\ db.status[n] = "running" /\ db.wf # "cancelled"

\* Retry coordinators (checkStuckAndRecoverInTx): at most one is pending, and
\* each continues the count of the coordinator it retries, which is over, and
\* never beyond the cap.
RetryChain ==
    /\ \A m, n \in {r \in Node : db.attempt[r] > 0 /\ IsPending(db, r)} : m = n
    /\ \A n \in Node : db.attempt[n] > 0 =>
          LET of == db.retryOf[n]
          IN  /\ of \in Coords(db) /\ IsOver(db, of)
              /\ db.attempt[n] = db.attempt[of] + 1
              /\ db.attempt[n] <= StuckRetryMaxAttempts

\* Nothing runs, nothing is queued, and yet the workflow is not over.
Quiet ==
    /\ db.wf = "running" /\ crashes = 0
    /\ turn = 0 /\ calls = {} /\ ~nudged
    /\ \A n \in Node : db.status[n] # "running"

\* A worker that can never start: worker nodes need every parent succeeded.
BlockedWorker(n) ==
    /\ db.kind[n] = "worker" /\ db.status[n] = "not_started"
    /\ \E p \in ParentsOf(db.edges, n) : db.status[p] \in {"failed", "cancelled"}

\* A running workflow comes to rest in two ways only: behind a worker that
\* can never start, or with every node over and a coordinator as one of
\* several leaves, which the stuck detector does not classify.
QuietExplained ==
    Quiet => \/ \E n \in Node : BlockedWorker(n)
             \/ /\ \A n \in Present(db) : IsOver(db, n)
                /\ \E n \in Leaves(db) \cap Coords(db) : Leaves(db) # {n}

\* The sealing rule (WorkflowNodeNotMutableError): once a node has left
\* not_started its row stays, its kind, agent and retry data never change, the
\* edges into it stay as they were if it was started, and its end is final;
\* so is the workflow's.
SealedStep ==
    /\ db.wf \in Terminal => db'.wf = db.wf
    /\ \A n \in Node : db.status[n] \in {"running"} \cup Terminal =>
         /\ db.status[n] # "cancelled" => ParentsOf(db'.edges, n) = ParentsOf(db.edges, n)
         /\ db'.kind[n] = db.kind[n] /\ db'.agent[n] = db.agent[n]
         /\ db'.attempt[n] = db.attempt[n] /\ db'.retryOf[n] = db.retryOf[n]
         /\ IF IsOver(db, n) THEN db'.status[n] = db.status[n]
                             ELSE db'.status[n] \in {"running"} \cup Terminal
Sealed == [][SealedStep]_vars

\* Workflow keeps the contract of WorkflowContract.
Life == [n \in Node |-> IF db.status[n] # "absent" THEN db.status[n]
                        ELSE IF n <= db.lastId THEN "removed" ELSE "unborn"]
Contract == INSTANCE WorkflowContract WITH wf <- db.wf, life <- Life
KeepsContract == Contract!Spec

\* An eligible node does not stay eligible for ever (tickOnce and the eager
\* dispatches run it, or an edit or the end of the workflow intervenes).
EligibleIsDispatched == \A n \in Node : Eligible(db, n) ~> ~Eligible(db, n) \/ crashes > 0
=============================================================================
