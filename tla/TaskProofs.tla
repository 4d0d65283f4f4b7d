----------------------------- MODULE TaskProofs -----------------------------
(***************************************************************************)
(* Theorems about Task, for any number of tasks and callers, any exits and  *)
(* any number of restarts.  The invariants come in layers, each proved with *)
(* the ones before it: types, then what the stage of dispatch says of the   *)
(* row and the process (Staged), then that each process is somebody's       *)
(* (Handled), which is what the refinement of TaskLedger needs.             *)
(***************************************************************************)
EXTENDS Task, FiniteSetTheorems, SequenceTheorems, TLAPS

\* What the stage dispatch is at says of the row and the process.
Staged ==
    \A t \in Task :
        /\ dispatch[t] \in {"idle", "resolving"} => row[t] = NoRow
        /\ dispatch[t] \in {"preparing", "launching", "stopping"} => row[t].status = "running"
        /\ dispatch[t] \in {"idle", "resolving", "preparing"} => process[t] = "none"
        /\ dispatch[t] = "undoing" => process[t] \notin {"working", "idle", "dropped"}
        /\ watcher[t] = "collecting" => process[t] \in Exits
        /\ row[t].status = "none" => row[t] = NoRow

\* A process that may still work has an entry, a dispatch that will see it, or
\* was abandoned by its dispatch.
Handled ==
    \A t \in Attended : t \in Live \/ dispatch[t] \in {"launching", "stopping"}

\* Whoever was told "cancelled" saw the row leave running for good, and only
\* the owner of a kill still waits for that.
Told ==
    \A c \in Canceller :
        /\ cancels[c].at = "killing" =>
             /\ live[cancels[c].task] \in {"cancel", "shutdown"}
             /\ \A d \in Canceller : cancels[d].task = cancels[c].task /\ cancels[d].at = "killing" => d = c
        /\ cancels[c].at = "cancelled" =>
             /\ row[cancels[c].task].status # "running"
             /\ dispatch[cancels[c].task] \in {"returned", "threw", "over"}

LEMMA RowTypes ==
    /\ NoRow \in Row /\ NoRow.status = "none"
    /\ Bare("running") \in Row /\ Bare("running").status = "running"
    /\ Bare("succeeded") \in Row /\ Bare("succeeded").status = "succeeded"
    /\ \A k \in {"shutdown", "exited", "signal", "orphan"} : Failed(k) \in Row /\ Failed(k).status = "failed"
    /\ \A k \in {"user", "cascade"} : Cancelled(k) \in Row /\ Cancelled(k).status = "cancelled"
BY DEF NoRow, Bare, Failed, Cancelled, Row, Status, Terminal

LEMMA OutcomeType ==
    ASSUME NEW e \in Exits, NEW k \in {"alive", "cancel", "shutdown", "absent"}
    PROVE  DecideTerminal(e, k) \in Row /\ DecideTerminal(e, k).status \in Terminal
BY RowTypes DEF DecideTerminal, Terminal

-----------------------------------------------------------------------------
(* Types *)

LEMMA ExitStates == Exits \subseteq ProcessState /\ Exits \cap {"none", "working", "idle", "dropped"} = {}
BY ExitsAssumption DEF ProcessState

\* What writes to one place of a variable leave of its type.
LEMMA RowWrite ==
    ASSUME TypeOK, NEW t \in Task, NEW r \in Row, SaveRow(t, r)
    PROVE  row' \in [Task -> Row] /\ row'[t] = r /\ row'[t].status \in Status
<1>1. r.status \in Status
    BY DEF Row
<1> QED BY <1>1 DEF TypeOK, SaveRow

LEMMA StageWrite ==
    ASSUME TypeOK, NEW t \in Task, NEW s \in Stage, Goto(t, s)
    PROVE  dispatch' \in [Task -> Stage]
BY DEF TypeOK, Goto

LEMMA ProcessWrite ==
    ASSUME TypeOK, NEW t \in Task, NEW p \in ProcessState, process' = [process EXCEPT ![t] = p]
    PROVE  process' \in [Task -> ProcessState]
BY DEF TypeOK

LEMMA CancelWrite ==
    ASSUME TypeOK, NEW c \in Canceller, NEW a \in {"killing", "queued"} \cup Status, Answer(c, a)
    PROVE  cancels' \in [Canceller -> CancelCall]
BY DEF TypeOK, Answer, CancelCall

\* Every variable keeps the type the schema of table tasks and the fields of
\* TaskServiceContext declare, whatever calls, exits, failing saves and
\* restarts meet.
THEOREM TypeCorrect == Spec => []TypeOK
<1>1. Init => TypeOK
    <2> SUFFICES ASSUME Init PROVE TypeOK
        OBVIOUS
    <2>1. row \in [Task -> Row]
        BY RowTypes DEF Init
    <2>2. /\ process \in [Task -> ProcessState] /\ dispatch \in [Task -> Stage]
          /\ live \in [Task -> LiveEntry] /\ watcher \in [Task -> WatcherState]
        BY DEF Init, ProcessState, Stage, LiveEntry, WatcherState
    <2>3. cancels \in [Canceller -> CancelCall] /\ stops \in [Stopper -> StopCall]
        BY DEF Init, CancelCall, StopCall
    <2>4. purgeQueue \in Seq(Task) /\ reboots \in 0..MaxReboots /\ workdir \subseteq Task
        BY RebootsAssumption DEF Init
    <2> QED BY <2>1, <2>2, <2>3, <2>4 DEF Init, TypeOK
<1>2. TypeOK /\ [Next]_vars => TypeOK'
    <2> SUFFICES ASSUME TypeOK, [Next]_vars PROVE TypeOK'
        OBVIOUS
    <2>1. ASSUME NEW t \in Task,
                 Dispatch(t) \/ ResolveFails(t) \/ Reserve(t) \/ Prepare(t) \/ Stopped(t) \/ Undo(t)
          PROVE  TypeOK'
        <3>1. dispatch' \in [Task -> Stage]
            BY <2>1, StageWrite
               DEF Stage, Dispatch, ResolveFails, Reserve, Prepare, Stopped, Undo
        <3>2. row' \in [Task -> Row]
            BY <2>1, RowWrite, RowTypes
               DEF TypeOK, Dispatch, ResolveFails, Reserve, Prepare, Stopped, Undo
        <3>3. workdir' \subseteq Task
            BY <2>1 DEF TypeOK, Dispatch, ResolveFails, Reserve, Prepare, Stopped, Undo
        <3>4. UNCHANGED <<process, live, watcher, cancels, shuttingDown, stops, purgeQueue, reboots>>
            BY <2>1 DEF Dispatch, ResolveFails, Reserve, Prepare, Stopped, Undo
        <3> QED BY <3>1, <3>2, <3>3, <3>4 DEF TypeOK
    <2>2. ASSUME NEW t \in Task, Spawn(t) \/ LaunchFails(t) \/ GoIdle(t) \/ Exit(t) \/ Drop(t)
          PROVE  TypeOK'
        <3>1. process' \in [Task -> ProcessState]
            BY <2>2, ProcessWrite, ExitStates
               DEF ProcessState, Spawn, LaunchFails, GoIdle, Exit, Drop, Process
        <3>2. dispatch' \in [Task -> Stage]
            BY <2>2, StageWrite
               DEF TypeOK, Stage, Spawn, LaunchFails, GoIdle, Exit, Drop, Process, memory
        <3>3. UNCHANGED <<row, workdir, live, watcher, cancels, shuttingDown, stops, purgeQueue, reboots>>
            BY <2>2 DEF Spawn, LaunchFails, GoIdle, Exit, Drop, Process, memory
        <3> QED BY <3>1, <3>2, <3>3 DEF TypeOK
    <2>3. ASSUME NEW t \in Task, LaunchReturns(t)
          PROVE  TypeOK'
        <3>1. dispatch' \in [Task -> Stage]
            BY <2>3, StageWrite DEF Stage, LaunchReturns
        <3>2. row' \in [Task -> Row]
            BY <2>3, RowWrite, RowTypes DEF TypeOK, LaunchReturns
        <3>3. live' \in [Task -> LiveEntry] /\ watcher' \in [Task -> WatcherState]
            BY <2>3 DEF TypeOK, LaunchReturns, Supervise, LiveEntry, WatcherState
        <3> QED BY <2>3, <3>1, <3>2, <3>3 DEF TypeOK, LaunchReturns
    <2>4. ASSUME NEW t \in Task, NEW r \in Row, Settle(t, r)
          PROVE  TypeOK'
        <3>1. row' \in [Task -> Row]
            BY <2>4, RowWrite DEF TypeOK, Settle
        <3>2. row'[t].status \in Status
            BY <3>1 DEF Row
        <3>3. cancels' \in [Canceller -> CancelCall]
            BY <2>4, <3>2 DEF TypeOK, Settle, TellCancels, CancelCall
        <3>4. live' \in [Task -> LiveEntry] /\ watcher' \in [Task -> WatcherState]
            BY <2>4 DEF TypeOK, Settle, LiveEntry, WatcherState
        <3> QED BY <2>4, <3>1, <3>3, <3>4 DEF TypeOK, Settle
    <2>5. ASSUME NEW t \in Task, ExitSeen(t)
          PROVE  TypeOK'
        <3> DEFINE outcome == DecideTerminal(process[t], live[t])
        <3>1. outcome \in Row
            BY <2>5, OutcomeType DEF TypeOK, ExitSeen, LiveEntry
        <3>2. CASE outcome.status = "succeeded"
            <4>1. watcher' \in [Task -> WatcherState]
                BY <2>5, <3>2 DEF TypeOK, ExitSeen, WatcherState
            <4>2. UNCHANGED <<row, workdir, process, dispatch, live, cancels, shuttingDown, stops, purgeQueue, reboots>>
                BY <2>5, <3>2 DEF ExitSeen
            <4> QED BY <4>1, <4>2 DEF TypeOK
        <3>3. CASE outcome.status # "succeeded"
            BY <2>4, <2>5, <3>1, <3>3 DEF ExitSeen
        <3> QED BY <3>2, <3>3
    <2>6. ASSUME NEW t \in Task, Collected(t)
          PROVE  TypeOK'
        BY <2>4, <2>6, RowTypes DEF Collected
    <2>7. ASSUME NEW t \in Task, Delete(t, TRUE) \/ Delete(t, FALSE)
          PROVE  TypeOK'
        <3>1. row' \in [Task -> Row]
            BY <2>7, RowWrite, RowTypes DEF Delete
        <3>2. purgeQueue' \in Seq(Task)
            <4>1. purgeQueue \in Seq(Task) /\ Append(purgeQueue, t) \in Seq(Task)
                BY DEF TypeOK
            <4>2. purgeQueue' \in {purgeQueue, Append(purgeQueue, t)}
                BY <2>7 DEF Delete
            <4> QED BY <4>1, <4>2
        <3> QED BY <2>7, <3>1, <3>2 DEF TypeOK, Delete
    <2>8. ASSUME NEW c \in Canceller, Cancel(c)
          PROVE  TypeOK'
        <3> DEFINE t == cancels[c].task
        <3>1. t \in Task
            BY DEF TypeOK, CancelCall
        <3> HIDE DEF t
        <3>2. CancelLive(c, t) \/ CancelOrphan(c, t)
            BY <2>8 DEF Cancel, t
        <3>3. row' \in [Task -> Row]
            BY <3>1, <3>2, RowWrite, RowTypes DEF TypeOK, CancelLive, CancelOrphan
        <3>4. live' \in [Task -> LiveEntry]
            BY <3>1, <3>2 DEF TypeOK, CancelLive, CancelOrphan, LiveEntry
        <3>5. row'[t].status \in Status
            BY <3>1, <3>3 DEF Row
        <3>6. cancels' \in [Canceller -> CancelCall]
            BY <3>2, <3>5, CancelWrite DEF CancelLive, CancelOrphan
        <3>7. UNCHANGED <<workdir, process, dispatch, watcher, shuttingDown, stops, purgeQueue, reboots>>
            BY <2>8 DEF Cancel
        <3> QED BY <3>3, <3>4, <3>6, <3>7 DEF TypeOK
    <2>9. ASSUME NEW s \in Stopper, Shutdown(s) \/ ShutdownReturns(s)
          PROVE  TypeOK'
        <3>1. Live \in SUBSET Task
            BY DEF Live
        <3>2. stops' \in [Stopper -> StopCall]
            BY <2>9, <3>1 DEF TypeOK, Shutdown, ShutdownReturns, StopCall
        <3>3. live' \in [Task -> LiveEntry]
            BY <2>9 DEF TypeOK, Shutdown, ShutdownReturns, LiveEntry
        <3> QED BY <2>9, <3>2, <3>3 DEF TypeOK, Shutdown, ShutdownReturns
    <2>10. CASE DeleteForSchedule
        <3> DEFINE deleted == {t \in OfSchedule : MayDelete(t)}
        <3>1. ASSUME NEW q \in Orders(deleted) PROVE q \in Seq(Task)
            <4>1. Cardinality(deleted) \in Nat
                BY ScheduleAssumption, FS_Subset, FS_CardinalityType
            <4>2. q \in [1..Cardinality(deleted) -> Task]
                BY ScheduleAssumption DEF Orders
            <4> HIDE DEF deleted
            <4> QED BY <4>1, <4>2, SeqDef
        <3>2. purgeQueue' \in Seq(Task)
            BY <2>10, <3>1 DEF TypeOK, DeleteForSchedule
        <3>3. row' \in [Task -> Row]
            BY <2>10, RowTypes DEF TypeOK, DeleteForSchedule
        <3> QED BY <2>10, <3>2, <3>3 DEF TypeOK, DeleteForSchedule
    <2>11. CASE Purge
        BY <2>11 DEF TypeOK, Purge
    <2>12. CASE Reboot
        <3>1. row' \in [Task -> Row]
            BY <2>12, RowTypes DEF TypeOK, Reboot, RecoverOrphaned
        <3>2. reboots' \in 0..MaxReboots
            BY <2>12, RebootsAssumption DEF TypeOK, Reboot
        <3>3. cancels' \in [Canceller -> CancelCall]
            <4>1. \A c \in Canceller : cancels[c] \in CancelCall /\ [cancels[c] EXCEPT !.at = "lost"] \in CancelCall
                BY DEF TypeOK, CancelCall
            <4> QED BY <2>12, <4>1 DEF Reboot
        <3>4. /\ process' \in [Task -> ProcessState] /\ dispatch' \in [Task -> Stage]
              /\ live' \in [Task -> LiveEntry] /\ watcher' \in [Task -> WatcherState]
            BY <2>12 DEF Reboot, ProcessState, Stage, LiveEntry, WatcherState
        <3>5. stops' \in [Stopper -> StopCall]
            BY <2>12 DEF Reboot, StopCall
        <3>6. workdir' = workdir /\ shuttingDown' = FALSE /\ purgeQueue' \in Seq(Task)
            BY <2>12 DEF Reboot
        <3> QED BY <3>1, <3>2, <3>3, <3>4, <3>5, <3>6 DEF TypeOK
    <2>13. CASE UNCHANGED vars
        BY <2>13 DEF TypeOK, vars, memory
    <2> QED
        BY <2>1, <2>2, <2>3, <2>5, <2>6, <2>7, <2>8, <2>9, <2>10, <2>11, <2>12, <2>13
           DEF Next, Launching
<1> QED BY <1>1, <1>2, PTL DEF Spec

-----------------------------------------------------------------------------
(* Entries, rows and stages *)

LEMMA StagedInit == Init => Staged /\ EntriesAreRunning /\ NothingEscapesShutdown
BY RowTypes DEF Init, Staged, EntriesAreRunning, NothingEscapesShutdown, Live, At

\* A settled task has no entry, no watcher and an ended or, if the save fails,
\* a running row; nothing else about tasks moves.
LEMMA SettleStaged ==
    ASSUME TypeOK, Staged, EntriesAreRunning,
           NEW t \in Task, NEW r \in Row, r.status \in Terminal,
           watcher[t] # "off", Settle(t, r)
    PROVE  Staged' /\ EntriesAreRunning'
<1>1. /\ row' \in [Task -> Row] /\ row'[t].status # "none"
      /\ \A u \in Task \ {t} : row'[u] = row[u]
    BY RowWrite DEF TypeOK, Settle, SaveRow, EntriesAreRunning, Terminal
<1>2. /\ live' = [live EXCEPT ![t] = "absent"] /\ watcher' = [watcher EXCEPT ![t] = "off"]
      /\ dispatch' = dispatch /\ process' = process
    BY DEF Settle
<1>3. At(t, "returned")
    BY DEF EntriesAreRunning
<1> QED BY <1>1, <1>2, <1>3 DEF TypeOK, Staged, EntriesAreRunning, Live, At, LiveEntry, WatcherState, Stage

LEMMA StagedStep ==
    ASSUME TypeOK, Staged, EntriesAreRunning, [Next]_vars
    PROVE  Staged' /\ EntriesAreRunning'
<1> USE RowTypes DEF Goto, At, SaveRow
<1>1. ASSUME NEW t \in Task,
             Dispatch(t) \/ ResolveFails(t) \/ Reserve(t) \/ Prepare(t) \/ Stopped(t) \/ Undo(t)
      PROVE  Staged' /\ EntriesAreRunning'
    BY <1>1, ExitStates DEF TypeOK, Staged, EntriesAreRunning, Live, Stage,
                Dispatch, ResolveFails, Reserve, Prepare, Stopped, Undo
<1>2. ASSUME NEW t \in Task, Spawn(t) \/ LaunchFails(t)
      PROVE  Staged' /\ EntriesAreRunning'
    BY <1>2, ExitStates DEF TypeOK, Staged, EntriesAreRunning, Live, Spawn, LaunchFails, memory
<1>3. ASSUME NEW t \in Task, LaunchReturns(t)
      PROVE  Staged' /\ EntriesAreRunning'
    BY <1>3 DEF TypeOK, Staged, EntriesAreRunning, Live, LaunchReturns, Supervise
<1>4. ASSUME NEW t \in Task, GoIdle(t) \/ Exit(t) \/ Drop(t)
      PROVE  Staged' /\ EntriesAreRunning'
    <2>1. process[t] \in {"working", "idle"} /\ \E p \in ProcessState : process' = [process EXCEPT ![t] = p]
        BY <1>4, ExitStates DEF GoIdle, Exit, Drop, Process, ProcessState
    <2>2. UNCHANGED <<row, dispatch, live, watcher>>
        BY <1>4 DEF GoIdle, Exit, Drop, Process, memory
    <2>3. process[t] \notin Exits /\ process[t] # "none"
        BY <2>1, ExitStates
    <2> QED BY <2>1, <2>2, <2>3 DEF TypeOK, Staged, EntriesAreRunning, Live
<1>5. ASSUME NEW t \in Task, ExitSeen(t)
      PROVE  Staged' /\ EntriesAreRunning'
    <2> DEFINE outcome == DecideTerminal(process[t], live[t])
    <2>1. outcome \in Row /\ outcome.status \in Terminal
        BY <1>5, OutcomeType DEF TypeOK, ExitSeen, LiveEntry
    <2>2. CASE outcome.status = "succeeded"
        BY <1>5, <2>2 DEF TypeOK, Staged, EntriesAreRunning, Live, ExitSeen
    <2>3. CASE outcome.status # "succeeded"
        BY <1>5, <2>1, <2>3, SettleStaged DEF ExitSeen
    <2> QED BY <2>2, <2>3
<1>6. ASSUME NEW t \in Task, Collected(t)
      PROVE  Staged' /\ EntriesAreRunning'
    BY <1>6, SettleStaged DEF Collected, Terminal
<1>7. ASSUME NEW t \in Task, Delete(t, TRUE) \/ Delete(t, FALSE)
      PROVE  Staged' /\ EntriesAreRunning'
    <2>1. /\ row[t].status \in Terminal /\ row' = [row EXCEPT ![t] = NoRow]
          /\ UNCHANGED <<process, dispatch, live, watcher>>
        BY <1>7 DEF Delete, MayDelete
    <2>2. t \notin Live /\ dispatch[t] \notin {"preparing", "launching", "stopping"}
        BY <2>1 DEF Staged, EntriesAreRunning, Terminal
    <2> QED BY <2>1, <2>2 DEF TypeOK, Staged, EntriesAreRunning, Live
<1>8. ASSUME NEW c \in Canceller, Cancel(c)
      PROVE  Staged' /\ EntriesAreRunning'
    <2> DEFINE t == cancels[c].task
    <2>1. t \in Task
        BY DEF TypeOK, CancelCall
    <2> HIDE DEF t
    <2>2. /\ row[t].status = "running" /\ t \notin DispatchInProgress
          /\ CancelLive(c, t) \/ CancelOrphan(c, t)
          /\ UNCHANGED <<process, dispatch, watcher>>
        BY <1>8 DEF Cancel, CancelAdmitted, t
    <2>3. CASE CancelLive(c, t)
        BY <2>1, <2>2, <2>3 DEF TypeOK, Staged, EntriesAreRunning, Live, CancelLive
    <2>4. CASE CancelOrphan(c, t)
        BY <2>1, <2>2, <2>4 DEF TypeOK, Staged, EntriesAreRunning, Live, CancelOrphan, DispatchInProgress
    <2> QED BY <2>2, <2>3, <2>4
<1>9. ASSUME NEW s \in Stopper, Shutdown(s) \/ ShutdownReturns(s)
      PROVE  Staged' /\ EntriesAreRunning'
    BY <1>9 DEF TypeOK, Staged, EntriesAreRunning, Live, Shutdown, ShutdownReturns
<1>10. CASE DeleteForSchedule
    BY <1>10 DEF TypeOK, Staged, EntriesAreRunning, Live, DeleteForSchedule, MayDelete, Terminal
<1>11. CASE Purge
    BY <1>11 DEF TypeOK, Staged, EntriesAreRunning, Live, Purge
<1>12. CASE Reboot
    BY <1>12 DEF TypeOK, Staged, EntriesAreRunning, Live, Reboot, RecoverOrphaned
<1>13. CASE UNCHANGED vars
    BY <1>13 DEF TypeOK, Staged, EntriesAreRunning, Live, vars, memory
<1> QED
    BY <1>1, <1>2, <1>3, <1>4, <1>5, <1>6, <1>7, <1>8, <1>9, <1>10, <1>11, <1>12, <1>13
       DEF Next, Launching

LEMMA StagedAlways == Spec => [](TypeOK /\ Staged /\ EntriesAreRunning)
<1>1. TypeOK /\ (TypeOK /\ Staged /\ EntriesAreRunning) /\ [Next]_vars
        => (TypeOK' => (TypeOK /\ Staged /\ EntriesAreRunning)')
    BY StagedStep
<1> QED BY <1>1, StagedInit, TypeCorrect, PTL DEF Spec

\* dispatch, cancel, the watcher, delete and shutdown agree about a task: an
\* entry in ctx.live has its watcher and a running row, until both end in the
\* same step (applyTerminal).
THEOREM EntriesStayRunning == Spec => []EntriesAreRunning
BY StagedAlways, PTL

\* Once ctx.shuttingDown is set, every entry was told to stop: a dispatch that
\* was under way kills its process instead of registering it (dispatch.ts).
THEOREM ShutdownReachesAll == Spec => []NothingEscapesShutdown
<1>1. TypeOK /\ NothingEscapesShutdown /\ [Next]_vars => NothingEscapesShutdown'
    <2> SUFFICES ASSUME TypeOK, NothingEscapesShutdown, [Next]_vars
                 PROVE  NothingEscapesShutdown'
        OBVIOUS
    <2>1. ASSUME live' = live, shuttingDown' = shuttingDown
          PROVE  NothingEscapesShutdown'
        BY <2>1 DEF NothingEscapesShutdown, Live
    <2>2. ASSUME NEW t \in Task, NEW r, Settle(t, r)
          PROVE  NothingEscapesShutdown'
        BY <2>2 DEF TypeOK, NothingEscapesShutdown, Live, Settle
    <2>3. ASSUME NEW t \in Task, LaunchReturns(t)
          PROVE  NothingEscapesShutdown'
        BY <2>3 DEF TypeOK, NothingEscapesShutdown, Live, LaunchReturns, Supervise
    <2>4. ASSUME NEW t \in Task, ExitSeen(t) \/ Collected(t)
          PROVE  NothingEscapesShutdown'
        BY <2>1, <2>2, <2>4 DEF ExitSeen, Collected
    <2>5. ASSUME NEW t \in Task,
                 \/ Dispatch(t) \/ ResolveFails(t) \/ Reserve(t) \/ Prepare(t) \/ Spawn(t) \/ LaunchFails(t)
                 \/ Stopped(t) \/ Undo(t) \/ GoIdle(t) \/ Exit(t) \/ Drop(t)
                 \/ Delete(t, TRUE) \/ Delete(t, FALSE)
          PROVE  NothingEscapesShutdown'
        <3>1. live' = live /\ shuttingDown' = shuttingDown
            BY <2>5 DEF Dispatch, ResolveFails, Reserve, Prepare, Spawn, LaunchFails,
                        Stopped, Undo, GoIdle, Exit, Drop, Process, Delete, memory
        <3> QED BY <2>1, <3>1
    <2>6. ASSUME NEW c \in Canceller, Cancel(c)
          PROVE  NothingEscapesShutdown'
        BY <2>6 DEF NothingEscapesShutdown, Cancel, CancelAdmitted
    <2>7. ASSUME NEW s \in Stopper, Shutdown(s)
          PROVE  NothingEscapesShutdown'
        BY <2>7 DEF TypeOK, NothingEscapesShutdown, Live, Shutdown, LiveEntry
    <2>8. ASSUME (\E s \in Stopper : ShutdownReturns(s)) \/ DeleteForSchedule \/ Purge \/ UNCHANGED vars
          PROVE  NothingEscapesShutdown'
        BY <2>1, <2>8 DEF ShutdownReturns, DeleteForSchedule, Purge, vars, memory
    <2>9. CASE Reboot
        BY <2>9 DEF NothingEscapesShutdown, Reboot
    <2> QED BY <2>3, <2>4, <2>5, <2>6, <2>7, <2>8, <2>9 DEF Next, Launching
<1> QED BY <1>1, StagedInit, TypeCorrect, PTL DEF Spec

-----------------------------------------------------------------------------
(* Every process is somebody's *)

\* Only Spawn adds to Working, and that for a dispatch which will see the
\* process; an entry or a dispatch goes when its process has ended, or when
\* the save of the session id throws.
LEMMA HandledStep ==
    ASSUME TypeOK, Staged, EntriesAreRunning, Handled, [Next]_vars
    PROVE  Handled'
<1> USE DEF Goto, At, Attended, Forsaken, Working, Live
<1>1. ASSUME NEW t \in Task,
             Dispatch(t) \/ ResolveFails(t) \/ Reserve(t) \/ Prepare(t) \/ Undo(t)
      PROVE  Handled'
    BY <1>1 DEF TypeOK, Handled, Dispatch, ResolveFails, Reserve, Prepare, Undo
<1>2. ASSUME NEW t \in Task, Spawn(t) \/ LaunchFails(t)
      PROVE  Handled'
    BY <1>2 DEF TypeOK, Handled, Spawn, LaunchFails, memory
<1>3. ASSUME NEW t \in Task, LaunchReturns(t)
      PROVE  Handled'
    BY <1>3 DEF TypeOK, Handled, LaunchReturns, Supervise
<1>4. ASSUME NEW t \in Task, Stopped(t)
      PROVE  Handled'
    BY <1>4, ExitStates DEF TypeOK, Handled, Stopped
<1>5. ASSUME NEW t \in Task, GoIdle(t) \/ Exit(t) \/ Drop(t)
      PROVE  Handled'
    <2>1. Working' \subseteq Working
        BY <1>5 DEF TypeOK, GoIdle, Exit, Drop, Process
    <2>2. UNCHANGED <<dispatch, live>>
        BY <1>5 DEF GoIdle, Exit, Drop, Process, memory
    <2> QED BY <2>1, <2>2 DEF Handled
<1>6. ASSUME NEW t \in Task, NEW r, process[t] \in Exits, Settle(t, r)
      PROVE  Handled'
    BY <1>6, ExitStates DEF TypeOK, Handled, Settle
<1>7. ASSUME NEW t \in Task, ExitSeen(t) \/ Collected(t)
      PROVE  Handled'
    <2>1. CASE UNCHANGED <<process, dispatch, live>>
        BY <2>1 DEF Handled
    <2>2. process[t] \in Exits
        BY <1>7 DEF ExitSeen, Collected, Staged
    <2>3. UNCHANGED <<process, dispatch, live>> \/ \E r : Settle(t, r)
        BY <1>7 DEF ExitSeen, Collected
    <2> QED BY <1>6, <2>1, <2>2, <2>3
<1>8. ASSUME NEW c \in Canceller, Cancel(c)
      PROVE  Handled'
    BY <1>8 DEF TypeOK, Handled, Cancel, CancelLive, CancelOrphan, FirstToCancel
<1>9. ASSUME NEW s \in Stopper, Shutdown(s) \/ ShutdownReturns(s)
      PROVE  Handled'
    BY <1>9 DEF TypeOK, Handled, Shutdown, ShutdownReturns
<1>10. ASSUME NEW t \in Task, Delete(t, TRUE) \/ Delete(t, FALSE)
       PROVE  Handled'
    BY <1>10 DEF Handled, Delete
<1>11. CASE DeleteForSchedule \/ Purge \/ UNCHANGED vars
    <2>1. UNCHANGED <<process, dispatch, live>>
        BY <1>11 DEF DeleteForSchedule, Purge, vars, memory
    <2> QED BY <2>1 DEF Handled
<1>12. CASE Reboot
    BY <1>12 DEF Handled, Reboot
<1> QED
    BY <1>1, <1>2, <1>3, <1>4, <1>5, <1>7, <1>8, <1>9, <1>10, <1>11, <1>12
       DEF Next, Launching

LEMMA HandledAlways == Spec => []Handled
<1>1. Init => Handled
    BY DEF Init, Handled, Attended, Working
<1>2. (TypeOK /\ Staged /\ EntriesAreRunning) /\ Handled /\ [Next]_vars => Handled'
    BY HandledStep
<1> QED BY <1>1, <1>2, StagedAlways, PTL DEF Spec

\* liveCount, which decides whether a workspace may be evicted, counts every
\* process there is, also while its launch, its exit and a shutdown are under
\* way; the one it misses is the agent whose dispatch threw when the save of
\* the session id failed, which is left behind with no entry.
THEOREM LiveCountIsComplete == Spec => []LiveCountSeesWork
<1>1. Handled => LiveCountSeesWork
    BY DEF Handled, LiveCountSeesWork, Supervised, DispatchInProgress, Attended, Working
<1> QED BY <1>1, HandledAlways, PTL

-----------------------------------------------------------------------------
(* One caller is told that it cancelled *)

\* What keeps Told when no call of cancel moves.
Undisturbed ==
    /\ cancels' = cancels
    /\ \A t \in Task :
         /\ live[t] \in {"cancel", "shutdown"} => live'[t] \in {"cancel", "shutdown"}
         /\ dispatch[t] \in {"returned", "threw", "over"} =>
              /\ dispatch'[t] \in {"returned", "threw", "over"}
              /\ row[t].status # "running" => row'[t].status # "running"

LEMMA UndisturbedTold ==
    ASSUME TypeOK, Told, Undisturbed
    PROVE  Told'
BY DEF TypeOK, CancelCall, Told, Undisturbed

LEMMA SettleTold ==
    ASSUME TypeOK, Staged, EntriesAreRunning, Told,
           NEW t \in Task, NEW r \in Row, watcher[t] # "off", Settle(t, r)
    PROVE  Told'
<1>1. live[t] # "absent" /\ row[t].status = "running" /\ dispatch[t] = "returned"
    BY DEF EntriesAreRunning, Live, At
<1>2. /\ \A u \in Task \ {t} : row'[u] = row[u] /\ live'[u] = live[u]
      /\ dispatch' = dispatch
    BY DEF TypeOK, Settle, SaveRow
<1>3. \A c \in Canceller : cancels[c].task # t => cancels'[c] = cancels[c]
    BY DEF Settle, TellCancels
<1>4. ASSUME NEW c \in Canceller, cancels[c].task = t
      PROVE  /\ cancels'[c].task = t /\ cancels'[c].at # "killing"
             /\ cancels'[c].at = "cancelled" => row'[t].status = "cancelled"
    <2>1. cancels[c] \in CancelCall
        BY DEF TypeOK
    <2>2. cancels[c].at # "cancelled"
        BY <1>1, <1>4 DEF Told
    <2>3. row'[t].status \in Status
        BY RowWrite DEF TypeOK, Row, Settle
    <2> QED BY <1>4, <2>1, <2>2, <2>3 DEF Settle, TellCancels, CancelCall, Status, Terminal
<1>5. \A c \in Canceller : cancels[c].task \in Task /\ cancels'[c].task = cancels[c].task
    BY <1>3, <1>4 DEF TypeOK, CancelCall
<1> QED BY <1>1, <1>2, <1>3, <1>4, <1>5 DEF Told

LEMMA CancelTold ==
    ASSUME TypeOK, Staged, EntriesAreRunning, Told, NEW c \in Canceller, Cancel(c)
    PROVE  Told'
<1> DEFINE t == cancels[c].task
<1>1. t \in Task /\ \A d \in Canceller : cancels[d].task \in Task
    BY DEF TypeOK, CancelCall
<1> HIDE DEF t
<1>2. /\ cancels[c].at = "ready" /\ row[t].status = "running"
      /\ CancelLive(c, t) \/ CancelOrphan(c, t)
      /\ dispatch' = dispatch
    BY DEF Cancel, CancelAdmitted, t
<1>3. dispatch[t] \in {"returned", "threw", "over"}
    BY <1>1, <1>2 DEF TypeOK, Stage, Cancel, CancelAdmitted, DispatchInProgress, Staged, NoRow, Bare, t
<1>4. /\ \A d \in Canceller \ {c} : cancels'[d] = cancels[d]
      /\ cancels'[c].task = t
    BY <1>2 DEF TypeOK, CancelCall, CancelLive, CancelOrphan, Answer, t
<1>5. CASE CancelLive(c, t)
    <2>1. row' = row /\ cancels'[c].at \in {"killing", "queued"}
        BY <1>5 DEF TypeOK, CancelCall, CancelLive, Answer
    <2>2. \A u \in Task \ {t} : live'[u] = live[u]
        BY <1>5 DEF TypeOK, CancelLive
    <2>3. cancels'[c].at = "killing" => live[t] = "alive" /\ live'[t] = "cancel"
        BY <1>1, <1>5 DEF TypeOK, CancelCall, CancelLive, FirstToCancel, Answer
    <2>4. live'[t] = live[t] \/ live[t] = "alive"
        BY <1>5 DEF CancelLive, FirstToCancel
    <2>5. \A d \in Canceller : cancels[d].task = t => cancels[d].at # "cancelled"
        BY <1>2 DEF Told
    <2> QED BY <1>1, <1>2, <1>3, <1>4, <2>1, <2>2, <2>3, <2>4, <2>5 DEF Told
<1>6. CASE CancelOrphan(c, t)
    <2>1. live' = live /\ live[t] = "absent" /\ cancels'[c].at = row'[t].status
        BY <1>1, <1>6 DEF TypeOK, CancelCall, CancelOrphan, Live, Answer
    <2>2. \A u \in Task \ {t} : row'[u] = row[u]
        BY <1>6 DEF TypeOK, CancelOrphan, SaveRow
    <2>3. row'[t].status \in {"running", "cancelled"}
        BY <1>1, <1>2, <1>6, RowTypes DEF TypeOK, CancelOrphan, SaveRow
    <2>4. \A d \in Canceller : cancels[d].task = t => cancels[d].at \notin {"killing", "cancelled"}
        BY <1>2, <2>1 DEF Told
    <2> QED BY <1>1, <1>2, <1>3, <1>4, <2>1, <2>2, <2>3, <2>4 DEF Told
<1> QED BY <1>2, <1>5, <1>6

LEMMA ToldStep ==
    ASSUME TypeOK, Staged, EntriesAreRunning, Told, [Next]_vars
    PROVE  Told'
<1> USE RowTypes DEF Goto, At, SaveRow
<1>1. ASSUME NEW t \in Task,
             Dispatch(t) \/ ResolveFails(t) \/ Reserve(t) \/ Prepare(t) \/ Stopped(t) \/ Undo(t)
      PROVE  Undisturbed
    BY <1>1 DEF TypeOK, Undisturbed, Dispatch, ResolveFails, Reserve, Prepare, Stopped, Undo
<1>2. ASSUME NEW t \in Task,
             Spawn(t) \/ LaunchFails(t) \/ GoIdle(t) \/ Exit(t) \/ Drop(t)
      PROVE  Undisturbed
    BY <1>2 DEF TypeOK, Undisturbed, Spawn, LaunchFails, GoIdle, Exit, Drop, Process, memory
<1>3. ASSUME NEW t \in Task, LaunchReturns(t)
      PROVE  Undisturbed
    BY <1>3 DEF TypeOK, EntriesAreRunning, Live, Undisturbed, LaunchReturns, Supervise
<1>4. ASSUME NEW t \in Task, Delete(t, TRUE) \/ Delete(t, FALSE)
      PROVE  Undisturbed
    BY <1>4 DEF TypeOK, Undisturbed, Delete
<1>5. ASSUME NEW s \in Stopper, Shutdown(s) \/ ShutdownReturns(s)
      PROVE  Undisturbed
    BY <1>5 DEF TypeOK, Undisturbed, Shutdown, ShutdownReturns
<1>6. ASSUME DeleteForSchedule PROVE Undisturbed
    BY <1>6 DEF TypeOK, Undisturbed, DeleteForSchedule
<1>7. ASSUME Purge \/ UNCHANGED vars PROVE Undisturbed
    BY <1>7 DEF TypeOK, Undisturbed, Purge, vars, memory
<1>8. ASSUME NEW t \in Task, ExitSeen(t)
      PROVE  Told'
    <2> DEFINE outcome == DecideTerminal(process[t], live[t])
    <2>1. outcome \in Row
        BY <1>8, OutcomeType DEF TypeOK, ExitSeen, LiveEntry
    <2>2. CASE outcome.status = "succeeded"
        BY <1>8, <2>2, UndisturbedTold DEF Undisturbed, ExitSeen
    <2>3. CASE outcome.status # "succeeded"
        BY <1>8, <2>1, <2>3, SettleTold DEF ExitSeen
    <2> QED BY <2>2, <2>3
<1>9. ASSUME NEW t \in Task, Collected(t)
      PROVE  Told'
    BY <1>9, SettleTold DEF Collected
<1>10. CASE Reboot
    <2>1. \A c \in Canceller : /\ cancels[c].task \in Task /\ cancels'[c].task = cancels[c].task
                               /\ cancels'[c].at # "killing"
                               /\ cancels'[c].at = "cancelled" => cancels[c].at = "cancelled"
        BY <1>10 DEF TypeOK, CancelCall, Reboot
    <2>2. \A t \in Task : row[t].status # "running" => row'[t].status # "running"
        BY <1>10 DEF Reboot, RecoverOrphaned
    <2>3. \A t \in Task : dispatch[t] # "idle" => dispatch'[t] = "over"
        BY <1>10 DEF Reboot
    <2> QED BY <2>1, <2>2, <2>3 DEF Told
<1> QED
    BY <1>1, <1>2, <1>3, <1>4, <1>5, <1>6, <1>7, <1>8, <1>9, <1>10, UndisturbedTold, CancelTold
       DEF Next, Launching

\* Of any number of concurrent calls that cancel one task at most one is
\* answered with the cancelled task; a failing save of the outcome, which lets
\* a later call try again, does not make it two (cancelTask in mutations.ts).
THEOREM OneCallIsTold == Spec => []OneCallCancels
<1> DEFINE Inv == TypeOK /\ Staged /\ EntriesAreRunning
           Single == Told /\ OneCallCancels
<1>1. Init => Single
    BY DEF Init, Told, OneCallCancels
<1>2. Inv /\ Single /\ [Next]_vars => Single'
    <2> SUFFICES ASSUME Inv, Single, [Next]_vars PROVE Single'
        OBVIOUS
    <2>1. Told'
        BY ToldStep
    <2>2. CASE \E c \in Canceller : Cancel(c)
        <3> PICK c \in Canceller : Cancel(c)
            BY <2>2
        <3>1. /\ \A d \in Canceller \ {c} : cancels'[d] = cancels[d]
              /\ cancels'[c].task = cancels[c].task
            BY DEF TypeOK, CancelCall, Cancel, CancelLive, CancelOrphan, Answer
        <3>2. row[cancels[c].task].status = "running"
            BY DEF Cancel, CancelAdmitted
        <3> QED BY <2>1, <3>1, <3>2 DEF Told, OneCallCancels
    <2>3. ASSUME NEW t \in Task, NEW r \in Row, watcher[t] # "off", Settle(t, r)
          PROVE  OneCallCancels'
        <3>1. row[t].status = "running"
            BY <2>3 DEF EntriesAreRunning, Live
        <3>2. \A c \in Canceller : cancels[c].task # t => cancels'[c] = cancels[c]
            BY <2>3 DEF Settle, TellCancels
        <3>3. ASSUME NEW c \in Canceller, cancels[c].task = t
              PROVE  /\ cancels'[c].task = t
                     /\ cancels'[c].at = "cancelled" => cancels[c].at = "killing"
            <4>1. cancels[c] \in CancelCall
                BY DEF TypeOK
            <4>2. cancels[c].at # "cancelled"
                BY <3>1, <3>3 DEF Told
            <4> QED BY <2>3, <3>3, <4>1, <4>2 DEF Settle, TellCancels, CancelCall
        <3> QED BY <3>2, <3>3 DEF Told, OneCallCancels
    <2>4. ASSUME cancels' = cancels PROVE OneCallCancels'
        BY <2>4 DEF OneCallCancels
    <2>5. ASSUME NEW t \in Task, ExitSeen(t) \/ Collected(t)
          PROVE  OneCallCancels'
        <3>1. \/ cancels' = cancels
              \/ watcher[t] # "off" /\ \E r \in Row : Settle(t, r)
            BY <2>5, OutcomeType, RowTypes DEF TypeOK, LiveEntry, ExitSeen, Collected
        <3> QED BY <2>3, <2>4, <3>1
    <2>6. CASE Reboot
        <3>1. \A c \in Canceller : /\ cancels'[c].task = cancels[c].task
                                   /\ cancels'[c].at = "cancelled" => cancels[c].at = "cancelled"
            BY <2>6 DEF TypeOK, CancelCall, Reboot
        <3> QED BY <2>1, <3>1 DEF OneCallCancels
    <2>7. \/ cancels' = cancels
          \/ \E c \in Canceller : Cancel(c)
          \/ \E t \in Task : ExitSeen(t) \/ Collected(t)
          \/ Reboot
        BY DEF Next, Launching, Dispatch, ResolveFails, Reserve, Prepare, Spawn, LaunchFails,
               LaunchReturns, Stopped, Undo, GoIdle, Exit, Drop, Process, Delete,
               Shutdown, ShutdownReturns, DeleteForSchedule, Purge, vars, memory
    <2> QED BY <2>1, <2>2, <2>4, <2>5, <2>6, <2>7
<1>3. Single => OneCallCancels
    OBVIOUS
<1> QED BY <1>1, <1>2, <1>3, StagedAlways, PTL DEF Spec

-----------------------------------------------------------------------------
(* The service keeps what TaskLedger promises *)

LEMMA LedgerWrite ==
    ASSUME TypeOK, NEW t \in Task, NEW r \in Row, NEW s \in Stage,
           row' = [row EXCEPT ![t] = r], dispatch' = [dispatch EXCEPT ![t] = s]
    PROVE  LedgerStatus' = [LedgerStatus EXCEPT ![t] =
                IF r # NoRow THEN r.status ELSE IF s \in {"idle", "resolving"} THEN "absent" ELSE "gone"]
BY DEF TypeOK, LedgerStatus

LEMMA LedgerQuiet ==
    ASSUME row' = row, dispatch' = dispatch
    PROVE  LedgerStatus' = LedgerStatus
BY DEF LedgerStatus

\* The stages before a launch: the row appears, or the id is burnt.
LEMMA BeginRefines ==
    ASSUME TypeOK, Staged, NEW t \in Task,
           Dispatch(t) \/ ResolveFails(t) \/ Reserve(t) \/ Prepare(t) \/ Stopped(t) \/ Undo(t)
    PROVE  [Ledger!Next]_<<LedgerStatus, Attended>>
<1> USE DEF Goto, At
<1>1. Attended' = Attended
    <2>1. process' = process /\ \A u \in Task \ {t} : dispatch'[u] = dispatch[u]
        BY DEF TypeOK, Dispatch, ResolveFails, Reserve, Prepare, Stopped, Undo
    <2>2. dispatch[t] # "threw" /\ (dispatch'[t] = "threw" => process[t] \notin {"working", "idle", "dropped"})
        BY DEF TypeOK, Staged, Dispatch, ResolveFails, Reserve, Prepare, Stopped, Undo
    <2> QED BY <2>1, <2>2 DEF Attended, Forsaken, Working
<1>2. LedgerStatus \in [Task -> STRING \cup Status \cup {"absent", "gone"}]
    BY DEF TypeOK, Row, LedgerStatus
<1>3. CASE Dispatch(t)
    <2>1. row[t] = NoRow /\ row' = row /\ dispatch[t] = "idle" /\ dispatch' = [dispatch EXCEPT ![t] = "resolving"]
        BY <1>3 DEF Dispatch, Staged
    <2>2. \A u \in Task : LedgerStatus'[u] = LedgerStatus[u]
        BY <2>1 DEF TypeOK, LedgerStatus
    <2>3. LedgerStatus' = LedgerStatus
        BY <2>2 DEF LedgerStatus
    <2> QED BY <1>1, <2>3
<1>4. CASE ResolveFails(t) \/ Reserve(t)
    <2>1. row[t] = NoRow /\ LedgerStatus[t] = "absent"
        BY <1>4 DEF ResolveFails, Reserve, Staged, LedgerStatus
    <2>2. \/ row' = row /\ \E s \in {"threw", "undoing"} : dispatch' = [dispatch EXCEPT ![t] = s]
          \/ row' = [row EXCEPT ![t] = Bare("running")] /\ dispatch' = [dispatch EXCEPT ![t] = "preparing"]
        BY <1>4 DEF ResolveFails, Reserve, SaveRow
    <2>3. CASE row' = row
        <3>1. PICK s \in {"threw", "undoing"} : dispatch' = [dispatch EXCEPT ![t] = s]
            BY <2>1, <2>2, <2>3, RowTypes DEF TypeOK
        <3>2. row' = [row EXCEPT ![t] = NoRow] /\ s \in Stage /\ s \notin {"idle", "resolving"}
            BY <2>1, <2>3 DEF TypeOK, Stage
        <3>3. LedgerStatus' = [LedgerStatus EXCEPT ![t] = "gone"]
            BY <3>1, <3>2, LedgerWrite, RowTypes
        <3>4. Ledger!Refuse(t)
            BY <1>1, <2>1, <3>3 DEF Ledger!Refuse
        <3> QED BY <3>4 DEF Ledger!Next
    <2>4. CASE row' = [row EXCEPT ![t] = Bare("running")] /\ dispatch' = [dispatch EXCEPT ![t] = "preparing"]
        <3>1. "preparing" \in Stage /\ Bare("running") # NoRow
            BY RowTypes DEF Stage
        <3>2. LedgerStatus' = [LedgerStatus EXCEPT ![t] = "running"]
            BY <2>4, <3>1, LedgerWrite, RowTypes
        <3>3. Ledger!Begin(t)
            BY <1>1, <2>1, <3>2 DEF Ledger!Begin
        <3> QED BY <3>3 DEF Ledger!Next
    <2> QED BY <2>2, <2>3, <2>4
<1>5. CASE Prepare(t) \/ Stopped(t) \/ Undo(t)
    <2>1. row' = row /\ dispatch[t] \notin {"idle", "resolving"}
        BY <1>5 DEF Prepare, Stopped, Undo
    <2>2. \E s \in {"launching", "undoing", "threw"} : dispatch' = [dispatch EXCEPT ![t] = s]
        BY <1>5 DEF Prepare, Stopped, Undo
    <2>3. \A u \in Task : LedgerStatus'[u] = LedgerStatus[u]
        BY <2>1, <2>2 DEF TypeOK, LedgerStatus
    <2>4. LedgerStatus' = LedgerStatus
        BY <2>3 DEF LedgerStatus
    <2> QED BY <1>1, <2>4
<1> QED BY <1>3, <1>4, <1>5

\* The process: it starts to work for a running row only, and rests, or is
\* given up by its dispatch.
LEMMA WorkRefines ==
    ASSUME TypeOK, Staged, EntriesAreRunning, NEW t \in Task,
           Spawn(t) \/ LaunchFails(t) \/ LaunchReturns(t) \/ GoIdle(t) \/ Exit(t) \/ Drop(t)
    PROVE  [Ledger!Next]_<<LedgerStatus, Attended>>
<1> USE DEF Goto, At
<1>1. LedgerStatus' = LedgerStatus
    <2>1. /\ dispatch[t] \in {"idle", "resolving"} <=> dispatch'[t] \in {"idle", "resolving"}
          /\ \A u \in Task \ {t} : dispatch'[u] = dispatch[u] /\ row'[u] = row[u]
        BY DEF TypeOK, Spawn, LaunchFails, LaunchReturns, GoIdle, Exit, Drop, Process, memory, SaveRow
    <2>2. row'[t] = row[t] \/ (row[t].status = "running" /\ row'[t] = Bare("running"))
        <3>1. row' = row \/ LaunchReturns(t)
            BY DEF Spawn, LaunchFails, GoIdle, Exit, Drop, Process
        <3>2. ASSUME LaunchReturns(t)
              PROVE  /\ row[t].status = "running"
                     /\ row' = row \/ row' = [row EXCEPT ![t] = Bare("running")]
            BY <3>2 DEF Staged, LaunchReturns, SaveRow
        <3> QED BY <3>1, <3>2 DEF TypeOK
    <2>3. (row[t] # NoRow <=> row'[t] # NoRow) /\ row'[t].status = row[t].status
        BY <2>2, RowTypes
    <2>4. \A u \in Task : LedgerStatus'[u] = LedgerStatus[u]
        BY <2>1, <2>3 DEF LedgerStatus
    <2> QED BY <2>4 DEF LedgerStatus
<1>2. CASE Spawn(t)
    <2>1. LedgerStatus[t] = "running"
        BY <1>2, RowTypes DEF Spawn, Staged, LedgerStatus
    <2>2. t \notin Attended /\ Attended' = Attended \cup {t}
        BY <1>2 DEF TypeOK, Spawn, Attended, Forsaken, Working, memory
    <2>3. Ledger!Work(t)
        BY <1>1, <2>1, <2>2 DEF Ledger!Work
    <2> QED BY <2>3 DEF Ledger!Next
<1>3. CASE LaunchFails(t) \/ LaunchReturns(t) \/ GoIdle(t) \/ Exit(t) \/ Drop(t)
    <2>1. Attended' = Attended \/ Attended' = Attended \ {t}
        BY <1>3, ExitStates DEF TypeOK, LaunchFails, LaunchReturns, GoIdle, Exit, Drop, Process, memory,
                                Attended, Forsaken, Working
    <2>2. CASE t \in Attended
        BY <1>1, <2>1, <2>2 DEF Ledger!Rest, Ledger!Next
    <2>3. CASE t \notin Attended
        BY <1>1, <2>1, <2>3
    <2> QED BY <2>2, <2>3
<1> QED BY <1>2, <1>3

\* A running row nothing works for takes an outcome, or keeps its place.
LEMMA EndRefines ==
    ASSUME TypeOK, NEW t \in Task, NEW r \in Row,
           r.status \in Terminal, row[t].status = "running", t \notin Attended,
           row' = row \/ SaveRow(t, r), dispatch' = dispatch, process' = process
    PROVE  [Ledger!Next]_<<LedgerStatus, Attended>>
<1>1. Attended' = Attended
    BY DEF Attended, Forsaken, Working
<1>2. CASE row' = row
    BY <1>1, <1>2, LedgerQuiet
<1>3. CASE SaveRow(t, r)
    <2>1. LedgerStatus[t] = "running" /\ r # NoRow
        BY RowTypes DEF LedgerStatus, Terminal
    <2>2. row'[t] = r /\ \A u \in Task \ {t} : row'[u] = row[u]
        BY <1>3 DEF TypeOK, SaveRow
    <2>3. LedgerStatus' = [LedgerStatus EXCEPT ![t] = r.status]
        BY <2>1, <2>2 DEF LedgerStatus
    <2>4. Ledger!End(t)
        BY <1>1, <2>1, <2>3 DEF Ledger!End, Ledger!Outcomes, Terminal
    <2> QED BY <2>4 DEF Ledger!Next
<1> QED BY <1>2, <1>3

\* Rows of ended tasks go.
LEMMA ForgetRefines ==
    ASSUME TypeOK, Staged, NEW S \in SUBSET Task, \A t \in S : MayDelete(t),
           row' = [t \in Task |-> IF t \in S THEN NoRow ELSE row[t]],
           dispatch' = dispatch, process' = process
    PROVE  Ledger!Next
<1>1. \A t \in Task \ S : LedgerStatus'[t] = LedgerStatus[t]
    BY DEF LedgerStatus
<1>2. ASSUME NEW t \in S
      PROVE  LedgerStatus[t] \in Terminal /\ LedgerStatus'[t] = "gone"
    <2>1. row[t].status \in Terminal /\ row[t] # NoRow
        BY RowTypes DEF MayDelete, Terminal
    <2>2. dispatch[t] \notin {"idle", "resolving"}
        BY <2>1 DEF Staged
    <2> QED BY <2>1, <2>2 DEF LedgerStatus
<1>3. Attended' = Attended
    BY DEF Attended, Forsaken, Working
<1> QED BY <1>1, <1>2, <1>3 DEF Ledger!Next, Ledger!Forget, Ledger!Outcomes, Terminal

\* The next start of the server takes stock.
LEMMA RestartRefines ==
    ASSUME TypeOK, Staged, Reboot
    PROVE  Ledger!Next
<1>1. Attended' = {}
    BY DEF TypeOK, Reboot, Attended, Working
<1>2. ASSUME NEW t \in Task
      PROVE  \/ LedgerStatus'[t] = LedgerStatus[t]
             \/ LedgerStatus[t] = "absent" /\ LedgerStatus'[t] = "gone"
             \/ LedgerStatus[t] = "running" /\ LedgerStatus'[t] = "failed"
    <2>1. \/ row'[t] = row[t]
          \/ row[t].status = "running" /\ row'[t] = Failed("orphan")
        BY DEF Reboot, RecoverOrphaned
    <2>2. dispatch'[t] = IF dispatch[t] = "idle" THEN "idle" ELSE "over"
        BY DEF Reboot, At
    <2> QED BY <2>1, <2>2, RowTypes DEF LedgerStatus
<1> QED BY <1>1, <1>2 DEF Ledger!Next, Ledger!Restart

\* Whatever the calls, processes, failing saves and restarts do, a reader of
\* the rows sees what TaskLedger says: an outcome or a removal is final, and
\* nothing works for a task that has no running row, but for an agent that its
\* dispatch abandoned when the save of the session id threw after the launch.
THEOREM LedgerIsKept == Spec => KeepsLedger
<1> DEFINE Inv == (TypeOK /\ Staged /\ EntriesAreRunning) /\ Handled
           LedgerStep == [Ledger!Next]_<<LedgerStatus, Attended>>
<1>1. Init => Ledger!Init
    BY DEF Init, Ledger!Init, LedgerStatus, Attended, Working
<1>2. Inv /\ [Next]_vars => LedgerStep
    <2> SUFFICES ASSUME Inv, [Next]_vars PROVE LedgerStep
        OBVIOUS
    <2>1. ASSUME UNCHANGED <<row, dispatch, process>> PROVE LedgerStep
        BY <2>1, LedgerQuiet DEF Attended, Forsaken, Working
    <2>2. ASSUME NEW t \in Task,
                 Dispatch(t) \/ ResolveFails(t) \/ Reserve(t) \/ Prepare(t) \/ Stopped(t) \/ Undo(t)
          PROVE  LedgerStep
        BY <2>2, BeginRefines
    <2>3. ASSUME NEW t \in Task,
                 Launching(t) \/ GoIdle(t) \/ Exit(t) \/ Drop(t)
          PROVE  LedgerStep
        BY <2>3, WorkRefines DEF Launching
    <2>4. ASSUME NEW t \in Task, NEW r \in Row, r.status \in Terminal,
                 watcher[t] # "off", process[t] \in Exits, Settle(t, r)
          PROVE  LedgerStep
        <3>1. row[t].status = "running" /\ t \notin Attended
            BY <2>4, ExitStates DEF EntriesAreRunning, Attended, Working
        <3> QED BY <2>4, <3>1, EndRefines DEF Settle
    <2>5. ASSUME NEW t \in Task, ExitSeen(t) \/ Collected(t)
          PROVE  LedgerStep
        <3>1. watcher[t] # "off" /\ process[t] \in Exits
            BY <2>5 DEF Staged, ExitSeen, Collected
        <3>2. \/ UNCHANGED <<row, dispatch, process>>
              \/ \E r \in Row : r.status \in Terminal /\ Settle(t, r)
            BY <2>5, OutcomeType, RowTypes DEF TypeOK, LiveEntry, ExitSeen, Collected, Terminal
        <3> QED BY <2>1, <2>4, <3>1, <3>2
    <2>6. ASSUME NEW t \in Task, Delete(t, TRUE) \/ Delete(t, FALSE)
          PROVE  LedgerStep
        <3>1. MayDelete(t) /\ UNCHANGED <<dispatch, process>>
            BY <2>6 DEF Delete
        <3>2. row' = [u \in Task |-> IF u \in {t} THEN NoRow ELSE row[u]]
            BY <2>6 DEF TypeOK, Delete, SaveRow
        <3>3. {t} \in SUBSET Task /\ \A u \in {t} : MayDelete(u)
            BY <3>1
        <3>4. Ledger!Next
            BY <3>1, <3>2, <3>3, ForgetRefines
        <3> QED BY <3>4
    <2>7. CASE DeleteForSchedule
        <3> DEFINE deleted == {t \in OfSchedule : MayDelete(t)}
        <3>1. deleted \in SUBSET Task /\ \A t \in deleted : MayDelete(t)
            BY ScheduleAssumption
        <3>2. /\ row' = [t \in Task |-> IF t \in deleted THEN NoRow ELSE row[t]]
              /\ dispatch' = dispatch /\ process' = process
            BY <2>7 DEF DeleteForSchedule
        <3> HIDE DEF deleted
        <3>3. Ledger!Next
            BY <3>1, <3>2, ForgetRefines
        <3> QED BY <3>3
    <2>8. ASSUME NEW c \in Canceller, Cancel(c)
          PROVE  LedgerStep
        <3> DEFINE t == cancels[c].task
        <3>1. t \in Task
            BY DEF TypeOK, CancelCall
        <3> HIDE DEF t
        <3>2. /\ row[t].status = "running" /\ t \notin DispatchInProgress
              /\ CancelLive(c, t) \/ CancelOrphan(c, t)
              /\ UNCHANGED <<process, dispatch>>
            BY <2>8 DEF Cancel, CancelAdmitted, t
        <3>3. CASE CancelLive(c, t)
            BY <2>1, <3>2, <3>3 DEF CancelLive
        <3>4. CASE CancelOrphan(c, t)
            <4>1. t \notin Attended
                BY <3>1, <3>2, <3>4 DEF Handled, CancelOrphan, DispatchInProgress
            <4>2. row' = row \/ SaveRow(t, Cancelled("cascade"))
                BY <3>4 DEF CancelOrphan
            <4> QED BY <3>1, <3>2, <4>1, <4>2, RowTypes, EndRefines DEF Terminal
        <3> QED BY <3>2, <3>3, <3>4
    <2>9. ASSUME (\E s \in Stopper : Shutdown(s) \/ ShutdownReturns(s)) \/ Purge \/ UNCHANGED vars
          PROVE  LedgerStep
        BY <2>1, <2>9 DEF Shutdown, ShutdownReturns, Purge, vars, memory
    <2>10. CASE Reboot
        BY <2>10, RestartRefines
    <2> HIDE DEF LedgerStep
    <2> QED BY <2>2, <2>3, <2>5, <2>6, <2>7, <2>8, <2>9, <2>10 DEF Next
<1> QED BY <1>1, <1>2, StagedAlways, HandledAlways, PTL DEF Spec, KeepsLedger, Ledger!Spec
-----------------------------------------------------------------------------
(* Causes *)

\* Some cancel of the task was admitted.
CalledOff(t) == \E c \in Canceller : cancels[c].task = t /\ cancels[c].at # "ready"

\* A kill has a reason before it has an outcome, and what is collected is the
\* work of an agent that ended well.
Caused ==
    /\ \A t \in Task :
         /\ live[t] = "cancel" => CalledOff(t)
         /\ live[t] = "shutdown" => shuttingDown
         /\ watcher[t] = "collecting" => process[t] = "zero"
    /\ OutcomeHasCause

\* Rows, entries, watchers and the exits of processes stay as they are, and
\* so do the reasons.
Uneventful ==
    /\ UNCHANGED <<row, live>>
    /\ \A t \in Task : /\ watcher'[t] = "collecting" => process'[t] = "zero"
                       /\ process[t] = "zero" => process'[t] = "zero"
    /\ shuttingDown => shuttingDown'
    /\ reboots' = reboots
    /\ \A t \in Task : CalledOff(t) => CalledOff(t)'

LEMMA UneventfulCaused ==
    ASSUME TypeOK, Caused, Uneventful
    PROVE  Caused'
BY DEF Caused, OutcomeHasCause, Uneventful, CalledOff

LEMMA RowChange ==
    ASSUME TypeOK, NEW t \in Task, NEW r, row' = row \/ SaveRow(t, r)
    PROVE  \A u \in Task : row'[u] = row[u] \/ (u = t /\ row'[u] = r)
<1>1. \A u \in Task \ {t} : row'[u] = row[u]
    BY DEF TypeOK, SaveRow
<1>2. row'[t] = row[t] \/ row'[t] = r
    BY DEF TypeOK, SaveRow
<1>3. ASSUME NEW u \in Task PROVE row'[u] = row[u] \/ (u = t /\ row'[u] = r)
    <2>1. CASE u = t
        BY <1>2, <2>1
    <2>2. CASE u # t
        BY <1>1, <2>2
    <2> QED BY <2>1, <2>2
<1> QED BY <1>3

\* An outcome that is written has its cause.
LEMMA SettleCaused ==
    ASSUME TypeOK, Staged, EntriesAreRunning, Caused, NEW t \in Task, NEW r \in Row,
           r.status = "cancelled" => live[t] = "cancel",
           r.kind = "shutdown" => live[t] = "shutdown",
           r.status = "succeeded" => process[t] = "zero",
           Settle(t, r)
    PROVE  Caused'
<1>0. row' = row \/ row' = [row EXCEPT ![t] = r]
    BY DEF Settle, SaveRow
<1>1. \A u \in Task : CalledOff(u) => CalledOff(u)'
    <2>1. row'[t].status # "ready"
        BY <1>0 DEF TypeOK, Row, Status, Terminal
    <2>2. \A c \in Canceller : cancels'[c].task = cancels[c].task /\ (cancels[c].at # "ready" => cancels'[c].at # "ready")
        <3> SUFFICES ASSUME NEW c \in Canceller
                     PROVE  /\ cancels'[c].task = cancels[c].task
                            /\ cancels[c].at # "ready" => cancels'[c].at # "ready"
            OBVIOUS
        <3>1. cancels[c] \in CancelCall
            BY DEF TypeOK
        <3>2. CASE cancels[c].task # t
            BY <3>2 DEF Settle, TellCancels
        <3>3. CASE cancels[c].task = t
            BY <2>1, <3>1, <3>3 DEF Settle, TellCancels, CancelCall
        <3> QED BY <3>2, <3>3
    <2> QED BY <2>2 DEF CalledOff
<1>2. /\ UNCHANGED <<process, shuttingDown, reboots>>
      /\ watcher' = [watcher EXCEPT ![t] = "off"]
      /\ live' = [live EXCEPT ![t] = "absent"]
      /\ \A u \in Task : row'[u] = row[u] \/ (u = t /\ row'[u] = r)
    <2>1. \A u \in Task : row'[u] = row[u] \/ (u = t /\ row'[u] = r)
        BY RowChange DEF Settle
    <2> QED BY <2>1 DEF Settle
<1>3. \A u \in Task : row'[u].status = "cancelled" => CalledOff(u)'
    BY <1>1, <1>2 DEF Caused, OutcomeHasCause, CalledOff
<1>4. \A u \in Task : row'[u].kind = "shutdown" => shuttingDown' \/ reboots' > 0
    BY <1>2 DEF Caused, OutcomeHasCause
<1>5. \A u \in Task : row'[u].status = "succeeded" => process'[u] = "zero" \/ reboots' > 0
    BY <1>2 DEF Caused, OutcomeHasCause
<1>6. OutcomeHasCause'
    BY <1>3, <1>4, <1>5 DEF OutcomeHasCause, CalledOff
<1>7. \A u \in Task : /\ live'[u] = "cancel" => CalledOff(u)'
                      /\ live'[u] = "shutdown" => shuttingDown'
                      /\ watcher'[u] = "collecting" => process'[u] = "zero"
    BY <1>1, <1>2 DEF Caused, TypeOK
<1> QED BY <1>6, <1>7 DEF Caused

LEMMA Kinds ==
    /\ NoRow.kind = "none" /\ \A s \in Status : Bare(s).kind = "none"
    /\ \A k \in {"shutdown", "exited", "signal", "orphan"} : Failed(k).kind = k
    /\ \A k \in {"user", "cascade"} : Cancelled(k).kind = k
BY DEF NoRow, Bare, Failed, Cancelled

LEMMA CausedStep ==
    ASSUME TypeOK, Staged, EntriesAreRunning, Caused, [Next]_vars
    PROVE  Caused'
<1> USE RowTypes, Kinds DEF Goto, At, SaveRow
<1>1. ASSUME NEW t \in Task, Dispatch(t) \/ ResolveFails(t) \/ Prepare(t) \/ Stopped(t) \/ Undo(t)
      PROVE  Uneventful
    BY <1>1 DEF Caused, Uneventful, CalledOff, Dispatch, ResolveFails, Prepare, Stopped, Undo
<1>2. ASSUME NEW t \in Task, Reserve(t)
      PROVE  Caused'
    BY <1>2 DEF TypeOK, Caused, OutcomeHasCause, CalledOff, Reserve, Status
<1>3. ASSUME NEW t \in Task, Spawn(t) \/ LaunchFails(t)
      PROVE  Uneventful
    BY <1>3, ExitStates DEF TypeOK, EntriesAreRunning, Live, Caused, Uneventful, CalledOff,
                            Spawn, LaunchFails, memory
<1>4. ASSUME NEW t \in Task, LaunchReturns(t)
      PROVE  Caused'
    BY <1>4 DEF TypeOK, Caused, OutcomeHasCause, CalledOff, LaunchReturns, Supervise, Status
<1>5. ASSUME NEW t \in Task, GoIdle(t) \/ Exit(t) \/ Drop(t)
      PROVE  Uneventful
    <2>1. process[t] # "zero" /\ \E p \in ProcessState : process' = [process EXCEPT ![t] = p]
        BY <1>5, ExitStates DEF GoIdle, Exit, Drop, Process, ProcessState
    <2>2. UNCHANGED <<row, live, watcher, shuttingDown, reboots, cancels>>
        BY <1>5 DEF GoIdle, Exit, Drop, Process, memory
    <2> QED BY <2>1, <2>2 DEF TypeOK, Caused, Uneventful, CalledOff
<1>6. ASSUME NEW t \in Task, ExitSeen(t)
      PROVE  Caused'
    <2> DEFINE outcome == DecideTerminal(process[t], live[t])
    <2>1. outcome \in Row
        BY <1>6, OutcomeType DEF TypeOK, ExitSeen, LiveEntry
    <2>2. /\ outcome.status = "cancelled" => live[t] = "cancel"
          /\ outcome.kind = "shutdown" => live[t] = "shutdown"
          /\ outcome.status = "succeeded" => process[t] = "zero"
        BY DEF DecideTerminal, Status, Terminal
    <2>3. CASE outcome.status = "succeeded"
        <3>1. /\ watcher' = [watcher EXCEPT ![t] = "collecting"]
              /\ UNCHANGED <<row, process, live, cancels, shuttingDown, reboots>>
            BY <1>6, <2>3 DEF ExitSeen
        <3>2. Uneventful
            BY <2>2, <2>3, <3>1 DEF TypeOK, Caused, Uneventful, CalledOff
        <3> QED BY <3>2, UneventfulCaused
    <2>4. CASE outcome.status # "succeeded"
        BY <1>6, <2>1, <2>2, <2>4, SettleCaused DEF ExitSeen
    <2> QED BY <2>3, <2>4
<1>7. ASSUME NEW t \in Task, Collected(t)
      PROVE  Caused'
    <2>1. process[t] = "zero" /\ Settle(t, Bare("succeeded"))
        BY <1>7 DEF Caused, Collected
    <2>2. Bare("succeeded").kind = "none"
        BY DEF Status, Terminal
    <2> QED BY <2>1, <2>2, SettleCaused
<1>8. ASSUME NEW t \in Task, Delete(t, TRUE) \/ Delete(t, FALSE)
      PROVE  Caused'
    <2>1. /\ row' = [row EXCEPT ![t] = NoRow]
          /\ UNCHANGED <<process, live, watcher, cancels, shuttingDown, reboots>>
        BY <1>8 DEF Delete
    <2>2. NoRow.kind = "none" /\ NoRow.status = "none"
        OBVIOUS
    <2> HIDE DEF NoRow
    <2>3. \A u \in Task : row'[u] = row[u] \/ row'[u] = NoRow
        BY <2>1 DEF TypeOK
    <2> QED BY <2>1, <2>2, <2>3 DEF Caused, OutcomeHasCause, CalledOff
<1>9. ASSUME NEW c \in Canceller, Cancel(c)
      PROVE  Caused'
    <2>1. PICK t \in Task : t = cancels[c].task
        BY DEF TypeOK, CancelCall
    <2>2. /\ CancelLive(c, t) \/ CancelOrphan(c, t)
          /\ UNCHANGED <<process, watcher, shuttingDown, reboots>>
        BY <1>9, <2>1 DEF Cancel
    <2>3. \E a \in {"killing", "queued"} \cup Status : Answer(c, a)
        <3>1. CASE CancelLive(c, t)
            BY <3>1 DEF CancelLive
        <3>2. CASE CancelOrphan(c, t)
            <4>1. row' \in [Task -> Row]
                BY <2>1, <3>2, RowWrite DEF TypeOK, CancelOrphan
            <4> QED BY <2>1, <3>2, <4>1 DEF CancelOrphan, Row
        <3> QED BY <2>2, <3>1, <3>2
    <2>4. "ready" \notin {"killing", "queued"} \cup Status
        BY DEF Status, Terminal
    <2>5. \A u \in Task : CalledOff(u) => CalledOff(u)'
        BY <2>3, <2>4 DEF TypeOK, CancelCall, CalledOff, Answer
    <2>6. CalledOff(t)'
        BY <2>1, <2>3, <2>4 DEF TypeOK, CancelCall, CalledOff, Answer
    <2>7. CASE CancelLive(c, t)
        BY <2>1, <2>2, <2>5, <2>6, <2>7 DEF TypeOK, Caused, OutcomeHasCause, CalledOff, CancelLive
    <2>8. CASE CancelOrphan(c, t)
        <3>1. \A u \in Task : row'[u] = row[u] \/ (u = t /\ row'[u] = Cancelled("cascade"))
            BY <2>1, <2>8, RowChange DEF CancelOrphan
        <3>2. UNCHANGED live
            BY <2>8 DEF CancelOrphan
        <3>3. \A u \in Task : row'[u].status = "cancelled" => CalledOff(u)'
            BY <2>5, <2>6, <3>1 DEF Caused, OutcomeHasCause, CalledOff
        <3>4. \A u \in Task : /\ row'[u].kind = "shutdown" => shuttingDown' \/ reboots' > 0
                              /\ row'[u].status = "succeeded" => process'[u] = "zero" \/ reboots' > 0
            BY <2>2, <3>1 DEF Caused, OutcomeHasCause
        <3>5. OutcomeHasCause'
            BY <3>3, <3>4 DEF OutcomeHasCause, CalledOff
        <3> QED BY <2>2, <2>5, <3>2, <3>5 DEF Caused
    <2> QED BY <2>2, <2>7, <2>8
<1>10. ASSUME NEW s \in Stopper, Shutdown(s) \/ ShutdownReturns(s)
      PROVE  Caused'
    BY <1>10 DEF TypeOK, Caused, OutcomeHasCause, CalledOff, Shutdown, ShutdownReturns
<1>11. CASE DeleteForSchedule
    BY <1>11 DEF TypeOK, Caused, OutcomeHasCause, CalledOff, DeleteForSchedule
<1>12. CASE Purge \/ UNCHANGED vars
    BY <1>12 DEF Caused, OutcomeHasCause, CalledOff, Purge, vars, memory
<1>13. CASE Reboot
    <2>1. reboots' > 0
        BY <1>13, RebootsAssumption DEF TypeOK, Reboot
    <2>2. \A t \in Task : live'[t] = "absent" /\ watcher'[t] = "off"
        BY <1>13 DEF Reboot
    <2>3. \A t \in Task : CalledOff(t) => CalledOff(t)'
        BY <1>13 DEF TypeOK, CancelCall, CalledOff, Reboot
    <2>4. \A t \in Task : row'[t].status = "cancelled" => row[t].status = "cancelled"
        BY <1>13 DEF Reboot, RecoverOrphaned
    <2>5. OutcomeHasCause'
        BY <2>1, <2>3, <2>4 DEF Caused, OutcomeHasCause, CalledOff
    <2> QED BY <2>2, <2>5 DEF Caused
<1> QED
    BY <1>1, <1>2, <1>3, <1>4, <1>5, <1>6, <1>7, <1>8, <1>9, <1>10, <1>11, <1>12, <1>13,
       UneventfulCaused DEF Next, Launching

\* An outcome tells what happened: a task is recorded as cancelled only if
\* somebody called cancel, as shut down only if the server was stopped, and as
\* succeeded only if its agent ended with code 0 (decideTerminal).
THEOREM OutcomesHaveCauses == Spec => []OutcomeHasCause
<1> DEFINE Inv == TypeOK /\ Staged /\ EntriesAreRunning
<1>1. Init => Caused
    BY RowTypes, Kinds DEF Init, Caused, OutcomeHasCause
<1>2. Inv /\ Inv' /\ Caused /\ [Next]_vars => Caused'
    BY CausedStep
<1>3. Spec => []Inv
    BY StagedAlways
<1>4. Caused => OutcomeHasCause
    BY DEF Caused
<1> QED BY <1>1, <1>2, <1>3, <1>4, PTL DEF Spec
=============================================================================
