-------------------------------- MODULE Task --------------------------------
(***************************************************************************)
(* TaskService of packages/task: one agent process per task, the row that   *)
(* tells others how it fares, and the memory that links the two.            *)
(*                                                                         *)
(* Grain.  The repository is asynchronous in its signatures only: better-   *)
(* sqlite3 answers at once, so a call of it and the code up to the next     *)
(* file, process or network operation make one step.  At those operations   *)
(* every other call may come in between.  A call that is refused changes    *)
(* nothing and is not a step.                                               *)
(***************************************************************************)
EXTENDS Integers, FiniteSets, Sequences

CONSTANTS
    Task,           \* ids generateTaskId may mint
    OfSchedule,     \* those whose metadata names the schedule under test
    Canceller,      \* callers of cancel, each calls once
    Stopper,        \* callers of shutdown
    Exits,          \* what handle.exit may resolve to
    SaveFaults,     \* which later saves may fail: of the session id, of the outcome
    ClientMayDrop,  \* may the runtime's client die without a session.idle
    MaxReboots      \* bound: how often the server is started again

ASSUME ScheduleAssumption == OfSchedule \subseteq Task /\ IsFiniteSet(OfSchedule)
ASSUME ExitsAssumption == Exits \subseteq {"zero", "nonzero", "signal"}
ASSUME FaultsAssumption == SaveFaults \subseteq {"session", "terminal"}
ASSUME DropAssumption == ClientMayDrop \in BOOLEAN
ASSUME RebootsAssumption == MaxReboots \in Nat

VARIABLES
    row,           \* table tasks
    workdir,       \* tasks whose directory exists
    process,       \* the agent process and its handle.exit
    dispatch,      \* where the call of dispatch that minted the id is
    live,          \* ctx.live: no entry, or the entry's killReason
    watcher,       \* the post-exit IIFE of the entry
    cancels,       \* the calls of cancel
    shuttingDown,  \* ctx.shuttingDown
    stops,         \* the calls of shutdown
    purgeQueue,    \* the tasks chained on ctx.purgeQueue
    reboots

memory == <<dispatch, live, watcher, cancels, shuttingDown, stops, purgeQueue>>
vars == <<row, workdir, process, memory, reboots>>

Terminal == {"succeeded", "failed", "cancelled"}
Status == Terminal \cup {"none", "running"}
Row == [status : Status,
        kind   : {"none", "user", "cascade", "shutdown", "exited", "signal", "orphan"}]
Stage == {"idle", "resolving", "preparing", "launching", "stopping", "undoing", "returned", "threw", "over"}
ProcessState == Exits \cup {"none", "working", "idle", "dropped"}
LiveEntry == {"absent", "alive", "cancel", "shutdown"}
WatcherState == {"off", "armed", "collecting"}
StopCall == [at : {"ready", "waiting", "back"}, awaits : SUBSET Task]
CancelCall == [task : Task, at : {"ready", "killing", "queued", "refused", "lost"} \cup Status]
Bare(s) == [status |-> s, kind |-> "none"]
NoRow == Bare("none")
Failed(k) == [status |-> "failed", kind |-> k]
Cancelled(k) == [status |-> "cancelled", kind |-> k]

Working == {t \in Task : process[t] \in {"working", "idle", "dropped"}}
Live == {t \in Task : live[t] # "absent"}

DispatchInProgressLate ==
    {t \in Task : dispatch[t] \in {"preparing", "stopping", "undoing"}}
\* ctx.dispatchInProgress: from the mkdir of the workdir to the finally.
DispatchInProgress ==
    {t \in Task : dispatch[t] \in {"preparing", "launching", "stopping", "undoing"}}
\* What liveCount counts.
Supervised == Live \cup DispatchInProgress

\* Agents dispatch left to themselves: the save of the session id threw after
\* the launch, which is not rolled back; the next boot recovers the row.
Forsaken == {t \in Working : dispatch[t] = "threw"}
Attended == Working \ Forsaken

Init ==
    /\ row = [t \in Task |-> NoRow]
    /\ workdir = {}
    /\ process = [t \in Task |-> "none"]
    /\ dispatch = [t \in Task |-> "idle"]
    /\ live = [t \in Task |-> "absent"]
    /\ watcher = [t \in Task |-> "off"]
    /\ cancels \in [Canceller -> [task : Task, at : {"ready"}]]
    /\ shuttingDown = FALSE
    /\ stops = [s \in Stopper |-> [at |-> "ready", awaits |-> {}]]
    /\ purgeQueue = <<>>
    /\ reboots = 0

(***************************************************************************)
(* dispatch                                                                *)
(***************************************************************************)
At(t, stage) == dispatch[t] = stage
Goto(t, stage) == dispatch' = [dispatch EXCEPT ![t] = stage]
SaveRow(t, r) == row' = [row EXCEPT ![t] = r]

Dispatch(t) ==
    /\ ~shuttingDown
    /\ At(t, "idle")
    /\ Goto(t, "resolving")
    /\ UNCHANGED <<row, workdir, process, live, watcher, cancels, shuttingDown, stops, purgeQueue, reboots>>

\* No such agent, an agent that is blocked or does not resolve, a runtime that
\* runs no tasks, or no directory to be had.
ResolveFails(t) ==
    /\ At(t, "resolving")
    /\ Goto(t, "threw")
    /\ UNCHANGED <<row, workdir, process, live, watcher, cancels, shuttingDown, stops, purgeQueue, reboots>>

\* The workdir is made; the caller's env and prompt are accepted and the row
\* is saved, or one of the three fails.
Reserve(t) ==
    /\ At(t, "resolving")
    /\ workdir' = workdir \cup {t}
    /\ \/ SaveRow(t, Bare("running")) /\ Goto(t, "preparing")
       \/ UNCHANGED row /\ Goto(t, "undoing")
    /\ UNCHANGED <<process, live, watcher, cancels, shuttingDown, stops, purgeQueue, reboots>>

\* TASK.md and the two directories in the workdir.
Prepare(t) ==
    /\ At(t, "preparing")
    /\ Goto(t, "launching") \/ Goto(t, "undoing")
    /\ UNCHANGED <<row, workdir, process, live, watcher, cancels, shuttingDown, stops, purgeQueue, reboots>>

\* runtime.launchHeadless starts a client and a session ...
Spawn(t) ==
    /\ At(t, "launching") /\ process[t] = "none"
    /\ process' = [process EXCEPT ![t] = "working"]
    /\ UNCHANGED <<row, workdir, memory, reboots>>

\* ... or fails on the way, and then stops what it had started.
LaunchFails(t) ==
    /\ At(t, "launching")
    /\ process[t] \in {"none", "working", "dropped"}
    /\ process' = [process EXCEPT ![t] = "none"]
    /\ Goto(t, "undoing")
    /\ UNCHANGED <<row, workdir, live, watcher, cancels, shuttingDown, stops, purgeQueue, reboots>>

Supervise(t) ==
    /\ live' = [live EXCEPT ![t] = "alive"]
    /\ watcher' = [watcher EXCEPT ![t] = "armed"]

LaunchReturnsUnchecked(t) ==
    /\ At(t, "launching") /\ process[t] # "none"
    /\ SaveRow(t, Bare("running"))
    /\ Supervise(t)
    /\ Goto(t, "returned")
    /\ UNCHANGED <<workdir, process, cancels, shuttingDown, stops, purgeQueue, reboots>>

\* The handle is there: killed if the service is shutting down, registered in
\* ctx.live otherwise, unless the save of the session id throws.
LaunchReturns(t) ==
    /\ At(t, "launching") /\ process[t] # "none"
    /\ \/ /\ shuttingDown
          /\ Goto(t, "stopping")
          /\ UNCHANGED <<row, live, watcher>>
       \/ /\ ~shuttingDown
          /\ SaveRow(t, Bare("running"))
          /\ Supervise(t)
          /\ Goto(t, "returned")
       \/ /\ ~shuttingDown /\ "session" \in SaveFaults
          /\ Goto(t, "threw")
          /\ UNCHANGED <<row, live, watcher>>
    /\ UNCHANGED <<workdir, process, cancels, shuttingDown, stops, purgeQueue, reboots>>

Stopped(t) ==
    /\ At(t, "stopping") /\ process[t] \in Exits
    /\ Goto(t, "undoing")
    /\ UNCHANGED <<row, workdir, process, live, watcher, cancels, shuttingDown, stops, purgeQueue, reboots>>

\* safeRm: the removal may fail, the row is not touched.
Undo(t) ==
    /\ At(t, "undoing")
    /\ workdir' \in {workdir, workdir \ {t}}
    /\ Goto(t, "threw")
    /\ UNCHANGED <<row, process, live, watcher, cancels, shuttingDown, stops, purgeQueue, reboots>>

(***************************************************************************)
(* The agent process: it finishes its work, by itself or because of kill(), *)
(* the client is stopped and handle.exit resolves.  When the client dies    *)
(* first, no session.idle comes and nothing resolves handle.exit.           *)
(***************************************************************************)
Process(t, from, to) ==
    /\ process[t] = from
    /\ process' = [process EXCEPT ![t] = to]
    /\ UNCHANGED <<row, workdir, memory, reboots>>

GoIdle(t) == Process(t, "working", "idle")
Exit(t) == \E e \in Exits : Process(t, "idle", e)
Drop(t) == ClientMayDrop /\ Process(t, "working", "dropped")

Killed(t) == live[t] \in {"cancel", "shutdown"} \/ At(t, "stopping")

DecideTerminalByKill(exit, killReason) ==
    CASE killReason = "cancel" -> Cancelled("user")
      [] killReason = "shutdown" -> Failed("shutdown")
      [] OTHER -> Bare("succeeded")
DecideTerminal(exit, killReason) ==
    CASE killReason = "cancel" -> Cancelled("user")
      [] killReason = "shutdown" -> Failed("shutdown")
      [] exit = "zero" -> Bare("succeeded")
      [] exit = "signal" -> Failed("signal")
      [] OTHER -> Failed("exited")

\* applyTerminal, the end of the watcher, and the calls of cancel that waited
\* for it: the one that killed reads the row, the others throw.
TellCancels(t) ==
    cancels' = [c \in Canceller |->
                  IF cancels[c].task # t THEN cancels[c]
                  ELSE CASE cancels[c].at = "killing" -> [cancels[c] EXCEPT !.at = row'[t].status]
                         [] cancels[c].at = "queued" -> [cancels[c] EXCEPT !.at = "refused"]
                         [] OTHER -> cancels[c]]

SettleSaved(t, outcome) ==
    /\ \/ SaveRow(t, outcome) /\ live' = [live EXCEPT ![t] = "absent"]
       \/ "terminal" \in SaveFaults /\ UNCHANGED <<row, live>>
    /\ watcher' = [watcher EXCEPT ![t] = "off"]
    /\ TellCancels(t)
    /\ UNCHANGED <<workdir, process, dispatch, shuttingDown, stops, purgeQueue, reboots>>
Settle(t, outcome) ==
    /\ \/ SaveRow(t, outcome)
       \/ "terminal" \in SaveFaults /\ UNCHANGED row
    /\ live' = [live EXCEPT ![t] = "absent"]
    /\ watcher' = [watcher EXCEPT ![t] = "off"]
    /\ TellCancels(t)
    /\ UNCHANGED <<workdir, process, dispatch, shuttingDown, stops, purgeQueue, reboots>>

\* A success first collects the last utterance and the artifacts.
ExitSeen(t) ==
    /\ watcher[t] = "armed" /\ process[t] \in Exits
    /\ LET outcome == DecideTerminal(process[t], live[t])
       IN  IF outcome.status = "succeeded"
           THEN /\ watcher' = [watcher EXCEPT ![t] = "collecting"]
                /\ UNCHANGED <<row, workdir, process, dispatch, live, cancels, shuttingDown, stops, purgeQueue, reboots>>
           ELSE Settle(t, outcome)

Collected(t) == watcher[t] = "collecting" /\ Settle(t, Bare("succeeded"))

(***************************************************************************)
(* cancel                                                                  *)
(***************************************************************************)
Answer(c, a) == cancels' = [cancels EXCEPT ![c].at = a]

CancelAdmittedEarly(t) == ~shuttingDown /\ row[t].status = "running"
CancelAdmitted(t) == ~shuttingDown /\ t \notin DispatchInProgress /\ row[t].status = "running"

FirstToCancel(t) == live[t] = "alive"

CancelLive(c, t) ==
    /\ t \in Live
    /\ \/ /\ FirstToCancel(t)
          /\ live' = [live EXCEPT ![t] = "cancel"]
          /\ Answer(c, "killing")
       \/ /\ ~FirstToCancel(t)
          /\ Answer(c, "queued")
          /\ UNCHANGED live
    /\ UNCHANGED row

\* A running row nobody works on.
CancelOrphan(c, t) ==
    /\ t \notin Live
    /\ \/ SaveRow(t, Cancelled("cascade"))
       \/ "terminal" \in SaveFaults /\ UNCHANGED row
    /\ Answer(c, row'[t].status)
    /\ UNCHANGED live

Cancel(c) ==
    LET t == cancels[c].task
    IN  /\ cancels[c].at = "ready"
        /\ CancelAdmitted(t)
        /\ CancelLive(c, t) \/ CancelOrphan(c, t)
        /\ UNCHANGED <<workdir, process, dispatch, watcher, shuttingDown, stops, purgeQueue, reboots>>

(***************************************************************************)
(* shutdown                                                                *)
(***************************************************************************)
\* The first call kills every entry; any other only waits for the entries.
Shutdown(s) ==
    /\ stops[s].at = "ready"
    /\ shuttingDown' = TRUE
    /\ live' = [t \in Task |-> IF t \in Live /\ ~shuttingDown THEN "shutdown" ELSE live[t]]
    /\ stops' = [stops EXCEPT ![s] = [at |-> "waiting", awaits |-> Live]]
    /\ UNCHANGED <<row, workdir, process, dispatch, watcher, cancels, purgeQueue, reboots>>

ShutdownReturns(s) ==
    /\ stops[s].at = "waiting"
    /\ stops[s].awaits \cap Live = {}
    /\ stops' = [stops EXCEPT ![s].at = "back"]
    /\ UNCHANGED <<row, workdir, process, dispatch, live, watcher, cancels, shuttingDown, purgeQueue, reboots>>

(***************************************************************************)
(* delete, deleteTasksForSchedule and the purges                           *)
(***************************************************************************)
MayDelete(t) == row[t].status \in Terminal

\* The orders in which the rows of a set can be listed.
Orders(S) == {q \in [1..Cardinality(S) -> S] : \A t \in S : \E i \in DOMAIN q : q[i] = t}

Delete(t, purge) ==
    /\ MayDelete(t)
    /\ SaveRow(t, NoRow)
    /\ purgeQueue' = IF purge THEN Append(purgeQueue, t) ELSE purgeQueue
    /\ UNCHANGED <<workdir, process, dispatch, live, watcher, cancels, shuttingDown, stops, reboots>>

DeleteForSchedule ==
    LET deleted == {t \in OfSchedule : MayDelete(t)}
    IN  /\ deleted # {}
        /\ row' = [t \in Task |-> IF t \in deleted THEN NoRow ELSE row[t]]
        /\ \E q \in Orders(deleted) : purgeQueue' = purgeQueue \o q
        /\ UNCHANGED <<workdir, process, dispatch, live, watcher, cancels, shuttingDown, stops, reboots>>

\* runtime.deleteState and the removal of the workdir, each best-effort.
Purge ==
    /\ purgeQueue # <<>>
    /\ workdir' \in {workdir, workdir \ {Head(purgeQueue)}}
    /\ purgeQueue' = Tail(purgeQueue)
    /\ UNCHANGED <<row, process, dispatch, live, watcher, cancels, shuttingDown, stops, reboots>>

(***************************************************************************)
(* The server dies at any point, or is stopped; the agents die with it, and *)
(* the next start runs recoverOrphaned before anything else.                *)
(***************************************************************************)
RecoverOrphaned ==
    \E kept \in SUBSET {t \in Task : row[t].status = "running"} :
        /\ kept = {} \/ "terminal" \in SaveFaults
        /\ row' = [t \in Task |-> IF row[t].status = "running" /\ t \notin kept
                                  THEN Failed("orphan") ELSE row[t]]

Reboot ==
    /\ reboots < MaxReboots
    /\ reboots' = reboots + 1
    /\ RecoverOrphaned
    /\ process' = [t \in Task |-> "none"]
    /\ dispatch' = [t \in Task |-> IF At(t, "idle") THEN "idle" ELSE "over"]
    /\ live' = [t \in Task |-> "absent"]
    /\ watcher' = [t \in Task |-> "off"]
    /\ cancels' = [c \in Canceller |-> IF cancels[c].at \in {"killing", "queued"}
                                       THEN [cancels[c] EXCEPT !.at = "lost"] ELSE cancels[c]]
    /\ shuttingDown' = FALSE
    /\ stops' = [s \in Stopper |-> [at |-> "ready", awaits |-> {}]]
    /\ purgeQueue' = <<>>
    /\ UNCHANGED workdir

Launching(t) == Spawn(t) \/ LaunchFails(t) \/ LaunchReturns(t)

Next ==
    \/ \E t \in Task :
        \/ Dispatch(t) \/ ResolveFails(t) \/ Reserve(t) \/ Prepare(t) \/ Launching(t)
        \/ Stopped(t) \/ Undo(t)
        \/ GoIdle(t) \/ Exit(t) \/ Drop(t)
        \/ ExitSeen(t) \/ Collected(t)
        \/ Delete(t, TRUE) \/ Delete(t, FALSE)
    \/ \E c \in Canceller : Cancel(c)
    \/ \E s \in Stopper : Shutdown(s) \/ ShutdownReturns(s)
    \/ DeleteForSchedule
    \/ Purge
    \/ Reboot

Spec == Init /\ [][Next]_vars

\* What the code and the runtime owe: a call goes on when its file or process
\* operation is over, and an agent that was told to stop becomes idle.  An agent
\* nobody stops may work for ever, and nobody has to call anything.
Fairness ==
    /\ \A t \in Task : /\ WF_vars(ResolveFails(t) \/ Reserve(t))
                       /\ WF_vars(Prepare(t))
                       /\ WF_vars(LaunchFails(t) \/ LaunchReturns(t))
                       /\ WF_vars(Stopped(t))
                       /\ WF_vars(Undo(t))
                       /\ WF_vars(Killed(t) /\ GoIdle(t))
                       /\ WF_vars(Exit(t))
                       /\ WF_vars(ExitSeen(t))
                       /\ WF_vars(Collected(t))
    /\ \A s \in Stopper : WF_vars(ShutdownReturns(s))

FairSpec == Spec /\ Fairness

(***************************************************************************)
(* Properties                                                              *)
(***************************************************************************)
\* Every variable has the type the schema and the class declare.
TypeOK ==
    /\ row \in [Task -> Row]
    /\ workdir \in SUBSET Task
    /\ process \in [Task -> ProcessState]
    /\ dispatch \in [Task -> Stage]
    /\ live \in [Task -> LiveEntry]
    /\ watcher \in [Task -> WatcherState]
    /\ cancels \in [Canceller -> CancelCall]
    /\ shuttingDown \in BOOLEAN
    /\ stops \in [Stopper -> StopCall]
    /\ purgeQueue \in Seq(Task)
    /\ reboots \in 0..MaxReboots

\* liveCount (queries.ts) counts every process that is there, but for those a
\* dispatch abandoned when the save of the session id threw: an eviction it
\* allows kills or orphans none that still has a watcher or is to get one.
LiveCountSeesWork == Attended \subseteq Supervised

\* Once shutdown() has set its flag every entry of ctx.live is one it killed:
\* no dispatch that was under way adds another.
NothingEscapesShutdown == shuttingDown => \A t \in Live : live[t] = "shutdown"

\* An entry of ctx.live, its watcher and a running row go together, also when
\* cancel, shutdown, deletions and failing launches meet.
EntriesAreRunning ==
    \A t \in Task : /\ t \in Live <=> watcher[t] # "off"
                    /\ t \in Live => row[t].status = "running" /\ At(t, "returned")

\* Of the calls that cancel one task at most one is told that it did
\* (cancelTask: the first call owns the kill).
OneCallCancels ==
    \A c, d \in Canceller :
        cancels[c].task = cancels[d].task /\ cancels[c].at = "cancelled" /\ cancels[d].at = "cancelled" => c = d

\* An outcome tells what happened: "user" and "cascade" that somebody called
\* cancel, "shutdown" that the server was stopped, success that the agent ended
\* with code 0 - the last two as far as this process can know.
OutcomeHasCause ==
    \A t \in Task :
        /\ row[t].status = "cancelled" => \E c \in Canceller : cancels[c].task = t /\ cancels[c].at # "ready"
        /\ row[t].kind = "shutdown" => shuttingDown \/ reboots > 0
        /\ row[t].status = "succeeded" => process[t] = "zero" \/ reboots > 0

\* What dispatchers and readers of the rows rely on.  An agent that dispatch
\* has abandoned no longer works for them.
LedgerStatus ==
    [t \in Task |-> IF row[t] # NoRow THEN row[t].status
                    ELSE IF dispatch[t] \in {"idle", "resolving"} THEN "absent" ELSE "gone"]
Ledger == INSTANCE TaskLedger WITH status <- LedgerStatus, working <- Attended
KeepsLedger == Ledger!Spec

\* cancel and shutdown answer, whatever else goes on, unless they wait for a
\* client that died without a word.
CallsReturn ==
    /\ \A c \in Canceller : cancels[c].at \in {"killing", "queued"} ~>
          \/ cancels[c].at \notin {"killing", "queued"}
          \/ process[cancels[c].task] = "dropped"
    /\ \A s \in Stopper : stops[s].at = "waiting" ~>
          stops[s].at # "waiting" \/ \E t \in Task : process[t] = "dropped"
=============================================================================
