------------------------ MODULE WorkflowRunnerProofs ------------------------
(***************************************************************************)
(* For any number of nodes, polls and deaths of the server: a runner        *)
(* reports the end of a node once, each node that runs has somebody to end  *)
(* it, no agent works for a node that is over without a reason, and the     *)
(* workflow keeps its contract.                                             *)
(***************************************************************************)
EXTENDS WorkflowRunner, TLAPS

(* How the row of a node, the call that dispatches it, its task, its       *)
(* interval and the call that cancels it go together.  A cancel that finds *)
(* nothing to kill ("over") leaves nothing that could still be launched;   *)
(* one that comes during the dispatch ("vain") is the only one that does.  *)
Linked ==
    /\ wf = "none" => \A n \in Node : life[n] = "unborn"
    /\ \A n \in Node :
        /\ life[n] \in {"unborn", "not_started"} => dispatch[n] = "none"
        /\ dispatch[n] \in {"none", "resolving"} => status[n] = "absent"
        /\ dispatch[n] \in {"none", "resolving", "launching"} \/ n \in timer => reports[n] = 0
        /\ reports[n] = 0 => errors[n] < MaxPollErrors
        /\ n \in working => status[n] = "running" /\ dispatch[n] \in {"launching", "returned"}
        /\ kill[n] = "killing" => dispatch[n] = "returned"
        /\ kill[n] = "over" => n \notin working /\ dispatch[n] \notin {"resolving", "launching"}
                                  /\ life[n] \notin {"unborn", "not_started"}
        /\ dispatch[n] \in {"resolving", "launching"} /\ life[n] \in Ended =>
               life[n] = "cancelled" /\ kill[n] = "vain"
        /\ n \in sweep => life[n] # "unborn"

Safe == ReportedOnce /\ NodeIsWatched /\ WorkIsExplained
IInv == TypeOK /\ Linked /\ Safe

(* The invariant holds at the beginning. *)
LEMMA Initially == Init => IInv
BY BudgetAssumption, PollsAssumption DEF Init, Contract!Init, Ledger!Init, IInv,
   TypeOK, Linked, Safe, ReportedOnce, NodeIsWatched, WorkIsExplained, Ended

(* Each step keeps the types. *)
LEMMA TypeStep ==
    ASSUME IInv, [Next]_vars
    PROVE  TypeOK'
<1> USE BudgetAssumption, PollsAssumption DEF IInv, TypeOK, Linked, Safe, Ended,
    workflow, tasks, poller, cancels
<1>1. ASSUME NEW n \in Node, Create(n) PROVE TypeOK'
    BY <1>1 DEF Create
<1>2. ASSUME NEW n \in Node, Start(n) PROVE TypeOK'
    BY <1>2 DEF Start
<1>3. ASSUME NEW n \in Node, SaveRow(n) PROVE TypeOK'
    BY <1>3 DEF SaveRow, Ledger!Begin
<1>4. ASSUME NEW n \in Node, Launch(n) PROVE TypeOK'
    BY <1>4 DEF Launch, Ledger!Work
<1>5. ASSUME NEW n \in Node, DispatchThrows(n) PROVE TypeOK'
    BY <1>5 DEF DispatchThrows, Terminal
<1>6. ASSUME NEW n \in Node, DispatchReturns(n) PROVE TypeOK'
    BY <1>6 DEF DispatchReturns
<1>7. ASSUME NEW n \in Node, Poll(n) PROVE TypeOK'
    BY <1>7 DEF Poll, PollFails, PollReads, Fire, Terminal
<1>8. ASSUME NEW n \in Node, PollReturns(n) PROVE TypeOK'
    BY <1>8 DEF PollReturns
<1>9. ASSUME NEW n \in Node, CancelNode(n) PROVE TypeOK'
    BY <1>9 DEF CancelNode, RunnerCancel, InDispatch
<1>10. ASSUME NEW n \in Node, Reconcile(n) PROVE TypeOK'
    BY <1>10 DEF Reconcile, RunnerCancel, InDispatch
<1>11. ASSUME NEW n \in Node, Reconciled(n) PROVE TypeOK'
    BY <1>11 DEF Reconciled, Terminal
<1>12. ASSUME NEW n \in Node, CancelReturns(n) PROVE TypeOK'
    BY <1>12 DEF CancelReturns
<1>13. ASSUME NEW n \in Node, AgentEnds(n) PROVE TypeOK'
    BY <1>13 DEF AgentEnds, Ledger!Rest
<1>14. ASSUME NEW n \in Node, OutcomeSaved(n) PROVE TypeOK'
    BY <1>14 DEF OutcomeSaved, Ledger!End, Ledger!Outcomes
<1>15. ASSUME NEW n \in Node, DeleteTask(n) PROVE TypeOK'
    BY <1>15 DEF DeleteTask
<1>16. ASSUME NEW outcome \in Ended, EndWorkflow(outcome) PROVE TypeOK'
    BY <1>16 DEF EndWorkflow
<1>17. CASE Restart
    BY <1>17 DEF Restart
<1>18. CASE UNCHANGED vars
    BY <1>18 DEF vars
<1>19. ASSUME NEW n \in Node, CancelRow(n) PROVE TypeOK'
    BY <1>19 DEF CancelRow, Ledger!End, Ledger!Outcomes
<1>20. QED
    BY <1>1, <1>2, <1>3, <1>4, <1>5, <1>6, <1>7, <1>8, <1>9, <1>10, <1>11, <1>12,
       <1>13, <1>14,
       <1>15, <1>16, <1>17, <1>18, <1>19 DEF Next, Dispatching

(* Each step keeps rows, calls, tasks and intervals together. *)
LEMMA LinkedStep ==
    ASSUME IInv, [Next]_vars
    PROVE  Linked'
<1> USE BudgetAssumption, PollsAssumption DEF IInv, TypeOK, Linked, Safe, Ended,
    workflow, tasks, poller, cancels
<1>1. ASSUME NEW n \in Node, Create(n) PROVE Linked'
    BY <1>1 DEF Create
<1>2. ASSUME NEW n \in Node, Start(n) PROVE Linked'
    BY <1>2 DEF Start
<1>3. ASSUME NEW n \in Node, SaveRow(n) PROVE Linked'
    BY <1>3 DEF SaveRow, Ledger!Begin
<1>4. ASSUME NEW n \in Node, Launch(n) PROVE Linked'
    BY <1>4 DEF Launch, Ledger!Work
<1>5. ASSUME NEW n \in Node, DispatchThrows(n) PROVE Linked'
    BY <1>5 DEF DispatchThrows, Terminal
<1>6. ASSUME NEW n \in Node, DispatchReturns(n) PROVE Linked'
    BY <1>6 DEF DispatchReturns
<1>7. ASSUME NEW n \in Node, Poll(n) PROVE Linked'
    BY <1>7 DEF Poll, PollFails, PollReads, Fire, Terminal
<1>8. ASSUME NEW n \in Node, PollReturns(n) PROVE Linked'
    BY <1>8 DEF PollReturns
<1>9. ASSUME NEW n \in Node, CancelNode(n) PROVE Linked'
    BY <1>9 DEF CancelNode, RunnerCancel, InDispatch
<1>10. ASSUME NEW n \in Node, Reconcile(n) PROVE Linked'
    BY <1>10 DEF Reconcile, RunnerCancel, InDispatch
<1>11. ASSUME NEW n \in Node, Reconciled(n) PROVE Linked'
    BY <1>11 DEF Reconciled, Terminal
<1>12. ASSUME NEW n \in Node, CancelReturns(n) PROVE Linked'
    BY <1>12 DEF CancelReturns
<1>13. ASSUME NEW n \in Node, AgentEnds(n) PROVE Linked'
    BY <1>13 DEF AgentEnds, Ledger!Rest
<1>14. ASSUME NEW n \in Node, OutcomeSaved(n) PROVE Linked'
    BY <1>14 DEF OutcomeSaved, Ledger!End, Ledger!Outcomes
<1>15. ASSUME NEW n \in Node, DeleteTask(n) PROVE Linked'
    BY <1>15 DEF DeleteTask
<1>16. ASSUME NEW outcome \in Ended, EndWorkflow(outcome) PROVE Linked'
    BY <1>16 DEF EndWorkflow
<1>17. CASE Restart
    BY <1>17 DEF Restart
<1>18. CASE UNCHANGED vars
    BY <1>18 DEF vars
<1>19. ASSUME NEW n \in Node, CancelRow(n) PROVE Linked'
    BY <1>19 DEF CancelRow, Ledger!End, Ledger!Outcomes
<1>20. QED
    BY <1>1, <1>2, <1>3, <1>4, <1>5, <1>6, <1>7, <1>8, <1>9, <1>10, <1>11, <1>12,
       <1>13, <1>14,
       <1>15, <1>16, <1>17, <1>18, <1>19 DEF Next, Dispatching

(* Each step keeps what the runs check. *)
LEMMA SafetyStep ==
    ASSUME IInv, [Next]_vars
    PROVE  Safe'
<1> USE BudgetAssumption, PollsAssumption DEF IInv, TypeOK, Linked, Safe, Ended,
    workflow, tasks, poller, cancels
<1>1. ASSUME NEW n \in Node, Create(n) PROVE Safe'
    BY <1>1 DEF Create, ReportedOnce, NodeIsWatched, WorkIsExplained
<1>2. ASSUME NEW n \in Node, Start(n) PROVE Safe'
    BY <1>2 DEF Start, ReportedOnce, NodeIsWatched, WorkIsExplained
<1>3. ASSUME NEW n \in Node, SaveRow(n) PROVE Safe'
    BY <1>3 DEF SaveRow, Ledger!Begin, ReportedOnce, NodeIsWatched, WorkIsExplained
<1>4. ASSUME NEW n \in Node, Launch(n) PROVE Safe'
    BY <1>4 DEF Launch, Ledger!Work, ReportedOnce, NodeIsWatched, WorkIsExplained
<1>5. ASSUME NEW n \in Node, DispatchThrows(n) PROVE Safe'
    BY <1>5 DEF DispatchThrows, Terminal, ReportedOnce, NodeIsWatched, WorkIsExplained
<1>6. ASSUME NEW n \in Node, DispatchReturns(n) PROVE Safe'
    BY <1>6 DEF DispatchReturns, ReportedOnce, NodeIsWatched, WorkIsExplained
<1>7. ASSUME NEW n \in Node, Poll(n) PROVE Safe'
    BY <1>7 DEF Poll, PollFails, PollReads, Fire, Terminal, ReportedOnce,
       NodeIsWatched, WorkIsExplained
<1>8. ASSUME NEW n \in Node, PollReturns(n) PROVE Safe'
    BY <1>8 DEF PollReturns, ReportedOnce, NodeIsWatched, WorkIsExplained
<1>9. ASSUME NEW n \in Node, CancelNode(n) PROVE Safe'
    BY <1>9 DEF CancelNode, RunnerCancel, InDispatch, ReportedOnce, NodeIsWatched,
       WorkIsExplained
<1>10. ASSUME NEW n \in Node, Reconcile(n) PROVE Safe'
    <2>1. Nobody \notin Node
        BY KindAssumption DEF Nobody, Node
    <2>2. ReportedOnce'
        BY <1>10 DEF Reconcile, RunnerCancel, InDispatch, ReportedOnce
    <2>3. NodeIsWatched'
        BY <1>10, <2>1 DEF Reconcile, RunnerCancel, InDispatch, NodeIsWatched
    <2>4. WorkIsExplained'
        BY <1>10 DEF Reconcile, RunnerCancel, InDispatch, WorkIsExplained
    <2>5. QED
        BY <2>2, <2>3, <2>4
<1>11. ASSUME NEW n \in Node, Reconciled(n) PROVE Safe'
    BY <1>11 DEF Reconciled, Terminal, ReportedOnce, NodeIsWatched, WorkIsExplained
<1>12. ASSUME NEW n \in Node, CancelReturns(n) PROVE Safe'
    BY <1>12 DEF CancelReturns, ReportedOnce, NodeIsWatched, WorkIsExplained
<1>13. ASSUME NEW n \in Node, AgentEnds(n) PROVE Safe'
    BY <1>13 DEF AgentEnds, Ledger!Rest, ReportedOnce, NodeIsWatched, WorkIsExplained
<1>14. ASSUME NEW n \in Node, OutcomeSaved(n) PROVE Safe'
    BY <1>14 DEF OutcomeSaved, Ledger!End, Ledger!Outcomes, ReportedOnce,
       NodeIsWatched, WorkIsExplained
<1>15. ASSUME NEW n \in Node, DeleteTask(n) PROVE Safe'
    BY <1>15 DEF DeleteTask, ReportedOnce, NodeIsWatched, WorkIsExplained
<1>16. ASSUME NEW outcome \in Ended, EndWorkflow(outcome) PROVE Safe'
    BY <1>16 DEF EndWorkflow, ReportedOnce, NodeIsWatched, WorkIsExplained
<1>17. CASE Restart
    BY <1>17 DEF Restart, ReportedOnce, NodeIsWatched, WorkIsExplained
<1>18. CASE UNCHANGED vars
    BY <1>18 DEF vars, ReportedOnce, NodeIsWatched, WorkIsExplained
<1>19. ASSUME NEW n \in Node, CancelRow(n) PROVE Safe'
    BY <1>19 DEF CancelRow, Ledger!End, Ledger!Outcomes, ReportedOnce, NodeIsWatched, WorkIsExplained
<1>20. QED
    BY <1>1, <1>2, <1>3, <1>4, <1>5, <1>6, <1>7, <1>8, <1>9, <1>10, <1>11, <1>12,
       <1>13, <1>14,
       <1>15, <1>16, <1>17, <1>18, <1>19 DEF Next, Dispatching


(* Every step keeps the invariant. *)
LEMMA Inductive == IInv /\ [Next]_vars => IInv'
BY TypeStep, LinkedStep, SafetyStep DEF IInv

(* The types of the state; the handles in intervals are of dispatches that *)
(* returned.                                                               *)
THEOREM TypeCorrect == Spec => []TypeOK
<1>1. IInv => TypeOK
    BY DEF IInv
<1>2. QED
    BY Initially, Inductive, <1>1, PTL DEF Spec

(* onTerminal is called at most once per node.  Because a handle is stored *)
(* only by a dispatch that returns, which it does once, and is cleared by  *)
(* the call itself.                                                        *)
THEOREM NodesAreReportedOnce == Spec => []ReportedOnce
<1>1. IInv => ReportedOnce
    BY DEF IInv, Safe
<1>2. QED
    BY Initially, Inductive, <1>1, PTL DEF Spec

(* A node that runs has a dispatch under way, an interval, or the          *)
(* reconciliation at its runner, unless it ran when the server was killed. *)
THEOREM NodesAreWatched == Spec => []NodeIsWatched
<1>1. IInv => NodeIsWatched
    BY DEF IInv, Safe
<1>2. QED
    BY Initially, Inductive, <1>1, PTL DEF Spec

(* An agent that works for a node that is over is being killed, was        *)
(* launched by a dispatch that the cancel met, or the runner could not     *)
(* read its row.                                                           *)
THEOREM AgentsAreExplained == Spec => []WorkIsExplained
<1>1. IInv => WorkIsExplained
    BY DEF IInv, Safe
<1>2. QED
    BY Initially, Inductive, <1>1, PTL DEF Spec

(* What a step does to the workflow is a step of its contract, or none. *)
LEMMA ContractStep ==
    ASSUME IInv, [Next]_vars
    PROVE  [Contract!Next]_<<wf, life>>
<1> USE DEF IInv, TypeOK, Linked, Ended, workflow, Contract!Next, Contract!Ended
<1> SUFFICES ASSUME ~ UNCHANGED <<wf, life>>
             PROVE  Contract!Next
    BY DEF Contract!Next
<1>1. ASSUME NEW n \in Node, Create(n) PROVE Contract!Next
    BY <1>1 DEF Create, Contract!Create, Contract!Edit, Contract!Born
<1>2. ASSUME NEW n \in Node, Start(n) PROVE Contract!Next
    BY <1>2 DEF Start, Contract!Start, Contract!Started
<1>3. ASSUME NEW n \in Node, DispatchThrows(n) PROVE Contract!Next
    BY <1>3 DEF DispatchThrows, Terminal, Contract!Edit, Contract!Ends,
       Contract!WindDown
<1>4. ASSUME NEW n \in Node, Poll(n) PROVE Contract!Next
    BY <1>4 DEF Poll, PollFails, PollReads, Fire, Terminal, Contract!Edit,
       Contract!Ends, Contract!WindDown
<1>5. ASSUME NEW n \in Node, CancelNode(n) PROVE Contract!Next
    BY <1>5 DEF CancelNode, Contract!Edit, Contract!Ends, Contract!WindDown
<1>6. ASSUME NEW n \in Node, Reconcile(n) PROVE Contract!Next
    BY <1>6 DEF Reconcile, Contract!Edit, Contract!Ends, Contract!WindDown
<1>7. ASSUME NEW n \in Node, Reconciled(n) PROVE Contract!Next
    BY <1>7 DEF Reconciled, Terminal, Contract!Edit, Contract!Ends, Contract!WindDown
<1>8. ASSUME NEW outcome \in Ended, EndWorkflow(outcome) PROVE Contract!Next
    BY <1>8 DEF EndWorkflow, Contract!Close
<1>9. QED
    BY <1>1, <1>2, <1>3, <1>4, <1>5, <1>6, <1>7, <1>8 DEF Next, Dispatching, vars,
       SaveRow, Launch, DispatchReturns,
       PollReturns, CancelReturns, AgentEnds, OutcomeSaved, CancelRow,
       DeleteTask, Restart

(* With the runners reporting, cancelling and failing as they do, the      *)
(* workflow implements WorkflowContract.                                   *)
THEOREM ContractIsKept == Spec => KeepsContract
<1>1. Init => Contract!Init
    BY DEF Init, Contract!Init
<1>2. QED
    BY Initially, Inductive, ContractStep, <1>1, PTL DEF Spec, KeepsContract,
       Contract!Spec
=============================================================================
