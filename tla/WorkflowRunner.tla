--------------------------- MODULE WorkflowRunner ---------------------------
(***************************************************************************)
(* The node runners of packages/api/src/wiring, between one workflow and    *)
(* the task service.  A runner dispatches a task for a node, polls its row  *)
(* and reports its end; the two runners of the repository differ in what    *)
(* they ask of a spec and are one machine otherwise.  The workflow behaves  *)
(* as WorkflowContract promises, tasks as TaskLedger does; the task of a    *)
(* node bears the node's name, because a node is dispatched once.           *)
(*                                                                         *)
(* Grain.  Rows are read and written at once; waits are the launch of an    *)
(* agent, its end, and the metadata that the poll of a running task reads.  *)
(***************************************************************************)
EXTENDS Naturals, FiniteSets

CONSTANTS
    Worker, Coord,   \* the nodes a workflow may come to have
    MaxPollErrors,   \* consecutive reads that may fail, 3 in the code
    MaxPolls,        \* bound: polls of one task that wait at the same time
    MaxRestarts      \* bound: how often the server is killed

ASSUME KindAssumption == Worker \cap Coord = {} /\ "nobody" \notin Worker \cup Coord
ASSUME BudgetAssumption == MaxPollErrors \in Nat \ {0}
ASSUME PollsAssumption == MaxPolls \in Nat /\ MaxRestarts \in Nat

VARIABLES
    wf, life,          \* the workflow, as its contract has it
    status, working,   \* the tasks, as their ledger has them
    dispatch,          \* the call of runner.dispatch for a node
    timer,             \* nodes with a handle in intervals
    errors,            \* consecutivePollErrors
    polls,             \* polls under way that read a running row
    reports,           \* how often onTerminal was called
    kill,              \* the call of runner.cancel for a node
    sweep, sweeping,   \* reconcileCancel: nodes to visit, and the one it is at
    lost, restarts     \* history: nodes that ran when the server was killed

workflow == <<wf, life>>
tasks == <<status, working>>
poller == <<timer, errors, polls, reports>>
cancels == <<kill, sweep, sweeping>>
vars == <<workflow, tasks, dispatch, poller, cancels, lost, restarts>>

Node == Worker \cup Coord
Nobody == "nobody"
Contract == INSTANCE WorkflowContract
Ledger == INSTANCE TaskLedger WITH Task <- Node
Ended == {"succeeded", "failed", "cancelled"}

Init ==
    /\ Contract!Init
    /\ Ledger!Init
    /\ dispatch = [n \in Node |-> "none"]
    /\ timer = {}
    /\ errors = [n \in Node |-> 0]
    /\ polls = [n \in Node |-> 0]
    /\ reports = [n \in Node |-> 0]
    /\ kill = [n \in Node |-> "none"]
    /\ sweep = {} /\ sweeping = Nobody
    /\ lost = {} /\ restarts = 0

-----------------------------------------------------------------------------
(* The workflow: rows come, are started, and are cancelled. *)

Create(n) ==
    /\ life[n] = "unborn"
    /\ wf \in {"none", "running"} /\ wf' = "running"
    /\ life' = [life EXCEPT ![n] = "not_started"]
    /\ UNCHANGED <<tasks, dispatch, poller, cancels, lost, restarts>>

\* dispatchAtomic flips the row and calls runner.dispatch in one turn.
Start(n) ==
    /\ wf = "running" /\ life[n] = "not_started"
    /\ life' = [life EXCEPT ![n] = "running"]
    /\ dispatch' = [dispatch EXCEPT ![n] = "resolving"]
    /\ UNCHANGED <<wf, tasks, poller, cancels, lost, restarts>>

\* Bug: what is over is written over.
Terminal_Overwrites(n, outcome) == life' = [life EXCEPT ![n] = outcome]

\* markNodeTerminal: a node that is over stays as it is.
Terminal(n, outcome) ==
    life' = IF life[n] = "running" THEN [life EXCEPT ![n] = outcome] ELSE life

-----------------------------------------------------------------------------
(* dispatch *)

\* tasks.dispatch has resolved the agent and saved a row ...
SaveRow(n) ==
    /\ dispatch[n] = "resolving"
    /\ dispatch' = [dispatch EXCEPT ![n] = "launching"]
    /\ Ledger!Begin(n)
    /\ UNCHANGED <<workflow, poller, cancels, lost, restarts>>

Launch(n) ==
    /\ dispatch[n] = "launching" /\ Ledger!Work(n)
    /\ UNCHANGED <<workflow, dispatch, poller, cancels, lost, restarts>>

\* ... or fails, before the row or after it, which it leaves behind, and with
\* it, when the save of the session id threw, an agent that works for nobody;
\* dispatchAtomic catches what the runner throws.
DispatchThrows(n) ==
    /\ dispatch[n] \in {"resolving", "launching"}
    /\ dispatch' = [dispatch EXCEPT ![n] = "threw"]
    /\ working' = working \ {n}
    /\ Terminal(n, "failed")
    /\ UNCHANGED <<wf, status, poller, cancels, lost, restarts>>

\* Bug: clearForNode comes after the handle is stored, not before.
DispatchReturns_ClearsLast(n) ==
    /\ dispatch[n] = "launching" /\ n \in working
    /\ dispatch' = [dispatch EXCEPT ![n] = "returned"]
    /\ timer' = timer \ {n}
    /\ UNCHANGED <<workflow, tasks, errors, polls, reports, cancels, lost, restarts>>

\* The interval is installed, whatever has become of the node meanwhile.
DispatchReturns(n) ==
    /\ dispatch[n] = "launching" /\ n \in working
    /\ dispatch' = [dispatch EXCEPT ![n] = "returned"]
    /\ timer' = timer \cup {n}
    /\ UNCHANGED <<workflow, tasks, errors, polls, reports, cancels, lost, restarts>>

-----------------------------------------------------------------------------
(* The tick of an interval.  tasks.get answers at once unless the row says  *)
(* running, when it goes on to read the metadata of the runtime.            *)

Fire(n, outcome) ==
    /\ timer' = timer \ {n}
    /\ reports' = [reports EXCEPT ![n] = @ + 1]
    /\ Terminal(n, outcome)

PollFails(n) ==
    /\ errors' = [errors EXCEPT ![n] = @ + 1]
    /\ \/ errors'[n] < MaxPollErrors /\ UNCHANGED <<timer, reports, life>>
       \/ errors'[n] >= MaxPollErrors /\ Fire(n, "failed")
    /\ UNCHANGED polls

\* Bug: a row that is gone is taken for one that is not there yet.
PollReads_IgnoresGone(n) ==
    \/ /\ status[n] = "running" /\ polls[n] < MaxPolls
       /\ polls' = [polls EXCEPT ![n] = @ + 1]
       /\ UNCHANGED <<timer, errors, reports, life>>
    \/ /\ status[n] = "gone"
       /\ errors' = [errors EXCEPT ![n] = 0]
       /\ UNCHANGED <<timer, reports, life, polls>>
    \/ /\ status[n] \in Ended
       /\ errors' = [errors EXCEPT ![n] = 0]
       /\ Fire(n, status[n])
       /\ UNCHANGED polls

PollReads(n) ==
    \/ /\ status[n] = "running" /\ polls[n] < MaxPolls
       /\ polls' = [polls EXCEPT ![n] = @ + 1]
       /\ UNCHANGED <<timer, errors, reports, life>>
    \/ /\ status[n] # "running"
       /\ errors' = [errors EXCEPT ![n] = 0]
       /\ Fire(n, IF status[n] \in Ended THEN status[n] ELSE "failed")
       /\ UNCHANGED polls

Poll(n) ==
    /\ n \in timer
    /\ PollFails(n) \/ PollReads(n)
    /\ UNCHANGED <<wf, tasks, dispatch, cancels, lost, restarts>>

\* Bug: the row is read again after the metadata, and its end reported.
PollReturns_ReadsAgain(n) ==
    /\ polls[n] > 0
    /\ polls' = [polls EXCEPT ![n] = @ - 1]
    /\ errors' = [errors EXCEPT ![n] = 0]
    /\ \/ status[n] \in Ended /\ Fire(n, status[n])
       \/ status[n] \notin Ended /\ UNCHANGED <<life, timer, reports>>
    /\ UNCHANGED <<wf, tasks, dispatch, cancels, lost, restarts>>

\* The metadata is there; the row was running when it was read.
PollReturns(n) ==
    /\ polls[n] > 0
    /\ polls' = [polls EXCEPT ![n] = @ - 1]
    /\ errors' = [errors EXCEPT ![n] = 0]
    /\ UNCHANGED <<workflow, tasks, dispatch, timer, reports, cancels, lost, restarts>>

-----------------------------------------------------------------------------
(* cancel *)

\* What tasks.cancel refuses: it throws, and the runner logs it.
InDispatch(n) == dispatch[n] = "launching"

\* Bug: only the interval goes.
RunnerCancel_IntervalOnly(n) ==
    /\ timer' = timer \ {n}
    /\ kill' = [kill EXCEPT ![n] = "over"]
    /\ UNCHANGED <<tasks, dispatch, errors, polls, reports, lost, restarts>>

\* The interval goes first; then the task that is in flight, if there is one
\* and the task service lets it be cancelled.  While the dispatch is under way
\* the call is in vain.
RunnerCancel(n) ==
    /\ timer' = timer \ {n}
    /\ \/ /\ status[n] # "running" \/ InDispatch(n)
          /\ kill' = [kill EXCEPT ![n] = IF dispatch[n] \in {"resolving", "launching"} THEN "vain" ELSE "over"]
          /\ UNCHANGED status
       \/ /\ status[n] = "running" /\ dispatch[n] = "returned"
          /\ kill' = [kill EXCEPT ![n] = "killing"]
          /\ UNCHANGED status
       \/ /\ status[n] = "running" /\ dispatch[n] \notin {"launching", "returned"}
          /\ kill' = [kill EXCEPT ![n] = "over"]
          /\ status' = [status EXCEPT ![n] = "cancelled"]
    /\ UNCHANGED <<working, dispatch, errors, polls, reports, lost, restarts>>

\* cancelNode commits first and asks the runner then.
CancelNode(n) ==
    /\ wf = "running" /\ n \in Worker
    /\ life[n] \in {"not_started", "running"}
    /\ life' = [life EXCEPT ![n] = "cancelled"]
    /\ \/ life[n] = "running" /\ RunnerCancel(n)
       \/ life[n] = "not_started" /\ UNCHANGED <<tasks, dispatch, poller, kill, lost, restarts>>
    /\ UNCHANGED <<wf, sweep, sweeping>>

\* finishWorkflow and cancelWorkflow; finish spares coordinators that run.
EndWorkflow(outcome) ==
    /\ wf = "running" /\ wf' = outcome
    /\ sweep' = {n \in Node : \/ life[n] = "not_started"
                              \/ life[n] = "running" /\ (n \in Worker \/ outcome = "cancelled")}
    /\ UNCHANGED <<life, tasks, dispatch, poller, kill, sweeping, lost, restarts>>

\* reconcileCancel asks the runner first, one node after another.
Reconcile(n) ==
    /\ sweeping = Nobody /\ n \in sweep
    /\ sweep' = sweep \ {n}
    /\ \/ /\ life[n] = "not_started"
          /\ life' = [life EXCEPT ![n] = "cancelled"]
          /\ UNCHANGED <<tasks, dispatch, poller, kill, sweeping, lost, restarts>>
       \/ /\ life[n] # "not_started"
          /\ RunnerCancel(n)
          /\ sweeping' = n
          /\ UNCHANGED life
    /\ UNCHANGED wf

Reconciled(n) ==
    /\ sweeping = n /\ kill[n] \in {"over", "vain"}
    /\ sweeping' = Nobody
    /\ Terminal(n, "cancelled")
    /\ UNCHANGED <<wf, tasks, dispatch, poller, kill, sweep, lost, restarts>>

CancelReturns(n) ==
    /\ kill[n] = "killing" /\ status[n] # "running"
    /\ kill' = [kill EXCEPT ![n] = "over"]
    /\ UNCHANGED <<workflow, tasks, dispatch, poller, sweep, sweeping, lost, restarts>>

-----------------------------------------------------------------------------
(* The tasks, and the death of the server. *)

\* The agent ends, and its watcher saves the outcome: cancelled if the runner or
\* a user has cancelled the task, unless it had ended well by then.
AgentEnds(n) ==
    /\ dispatch[n] = "returned" /\ Ledger!Rest(n)
    /\ UNCHANGED <<workflow, dispatch, poller, cancels, lost, restarts>>

OutcomeSaved(n) ==
    /\ dispatch[n] = "returned" /\ Ledger!End(n)
    /\ UNCHANGED <<workflow, dispatch, poller, cancels, lost, restarts>>

\* A user cancels the row that a dispatch which threw has left behind.
CancelRow(n) ==
    /\ dispatch[n] = "threw" /\ Ledger!End(n)
    /\ status'[n] = "cancelled"
    /\ UNCHANGED <<workflow, dispatch, poller, cancels, lost, restarts>>

\* A user deletes the task.
DeleteTask(n) ==
    /\ status[n] \in Ended /\ status' = [status EXCEPT ![n] = "gone"]
    /\ UNCHANGED <<working, workflow, dispatch, poller, cancels, lost, restarts>>

\* The next start fails the rows that run; engine.start does nothing.
Restart ==
    /\ restarts < MaxRestarts /\ restarts' = restarts + 1
    /\ lost' = lost \cup {n \in Node : life[n] = "running"}
    /\ working' = {}
    /\ status' = [n \in Node |-> IF status[n] = "running" THEN "failed" ELSE status[n]]
    /\ dispatch' = [n \in Node |-> IF dispatch[n] \in {"resolving", "launching"} THEN "over" ELSE dispatch[n]]
    /\ timer' = {}
    /\ errors' = [n \in Node |-> 0]
    /\ polls' = [n \in Node |-> 0]
    /\ kill' = [n \in Node |-> IF kill[n] = "killing" THEN "over" ELSE kill[n]]
    /\ sweep' = {} /\ sweeping' = Nobody
    /\ UNCHANGED <<workflow, reports>>

-----------------------------------------------------------------------------
Dispatching(n) == SaveRow(n) \/ Launch(n) \/ DispatchThrows(n) \/ DispatchReturns(n)

Next ==
    \/ \E n \in Node :
         \/ Create(n) \/ Start(n) \/ Dispatching(n)
         \/ Poll(n) \/ PollReturns(n)
         \/ CancelNode(n) \/ Reconcile(n) \/ Reconciled(n) \/ CancelReturns(n)
         \/ AgentEnds(n) \/ OutcomeSaved(n) \/ CancelRow(n) \/ DeleteTask(n)
    \/ \E outcome \in Ended : EndWorkflow(outcome)
    \/ Restart

Spec == Init /\ [][Next]_vars

\* Launches come to an end, intervals tick, metadata is read, agents that are
\* told to stop do, outcomes are saved, and reconcileCancel goes on.
Fairness ==
    \A n \in Node :
        /\ WF_vars(Dispatching(n))
        /\ WF_vars(Poll(n))
        /\ WF_vars(PollReturns(n))
        /\ WF_vars(kill[n] = "killing" /\ AgentEnds(n))
        /\ WF_vars(OutcomeSaved(n))
        /\ WF_vars(CancelReturns(n))
        /\ WF_vars(Reconcile(n))
        /\ WF_vars(Reconciled(n))

FairSpec == Spec /\ Fairness

-----------------------------------------------------------------------------
(* Properties *)

\* Every variable has its type; the handles are those of dispatches that returned.
TypeOK ==
    /\ wf \in {"none", "running"} \cup Ended
    /\ life \in [Node -> {"unborn", "not_started", "running"} \cup Ended]
    /\ status \in [Node -> {"absent", "running", "gone"} \cup Ended]
    /\ working \subseteq Node
    /\ dispatch \in [Node -> {"none", "resolving", "launching", "returned", "threw", "over"}]
    /\ timer \subseteq {n \in Node : dispatch[n] = "returned"}
    /\ errors \in [Node -> 0..MaxPollErrors]
    /\ polls \in [Node -> 0..MaxPolls]
    /\ reports \in [Node -> Nat]
    /\ kill \in [Node -> {"none", "killing", "vain", "over"}]
    /\ sweep \subseteq Node /\ sweeping \in Node \cup {Nobody}
    /\ lost \subseteq Node /\ restarts \in 0..MaxRestarts

\* onTerminal is called at most once per node (workflow-task-runner.ts:58),
\* although polls overlap and one that read the row early may come back last.
ReportedOnce == \A n \in Node : reports[n] <= 1

\* Somebody will end every node that runs: its dispatch, its interval, or the
\* reconciliation that is asking its runner; those that ran when the server was
\* killed are lost.
NodeIsWatched ==
    \A n \in Node : life[n] = "running" /\ n \notin lost =>
        dispatch[n] \in {"resolving", "launching"} \/ n \in timer \/ sweeping = n

\* No agent the ledger knows of works for a node that is over, unless it is being
\* killed, the cancel came while the dispatch was under way, or the runner gave
\* up reading the row.
WorkIsExplained ==
    \A n \in working : life[n] \in Ended =>
        \/ life[n] = "cancelled" /\ kill[n] \in {"killing", "vain"}
        \/ life[n] = "failed" /\ reports[n] = 1

\* The workflow keeps its contract whatever the runners report and when.
KeepsContract == Contract!Spec

\* A node whose task has ended comes to an end, and a reconciliation gets to
\* every node it has to visit, unless the server is killed.
NodesComeToAnEnd ==
    \A n \in Node :
        /\ life[n] = "running" /\ status[n] \in Ended \cup {"gone"} ~> life[n] # "running" \/ n \in lost
        /\ n \in sweep ~> n \notin sweep
=============================================================================
