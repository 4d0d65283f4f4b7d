------------------------------ MODULE Schedule ------------------------------
(***************************************************************************)
(* ScheduleService of packages/schedule, for one schedule: its row, the     *)
(* timers armed for it, and the units of work its fires dispatch.  The      *)
(* kind handler of the repository (schedule-task-handler.ts) dispatches     *)
(* tasks; they behave as TaskLedger promises, which Task implements.        *)
(*                                                                         *)
(* Grain.  Only dispatch waits for something outside the process: every     *)
(* other operation runs to its end in one turn of the event loop and is one *)
(* step.  A timer may be late, and the clock may stand still between steps. *)
(***************************************************************************)
EXTENDS Integers, FiniteSets

CONSTANTS
    MaxTime,    \* bound: the last instant
    Trigger,    \* the cron triggers a caller gives, each the set of its slots
    MaxDelay,   \* the longest delay setTimeout keeps; a longer one is over at once
    Runner,     \* callers of run, each calls once
    MaxUnits,   \* bound: how many dispatches there may be
    MaxPatches, \* bound: how often the schedule is patched
    MaxCrashes  \* bound: how often the process is killed

ASSUME BoundsAssumption ==
    MaxTime \in Nat \ {0} /\ MaxDelay \in Nat /\ MaxUnits \in Nat /\ MaxPatches \in Nat /\ MaxCrashes \in Nat
ASSUME TriggerAssumption == Trigger \subseteq SUBSET (1..MaxTime)

VARIABLES
    clock,
    row,        \* its row in table schedules
    chain,      \* each: a timer that is armed, or the fire() it became
    mapped,     \* the chain whose timer is in this.timers, or 0
    run,        \* the calls of run
    boot,       \* the life of the service: down, in recover, or up
    shutdown,   \* shutdownCalled
    status,     \* the units, as the table tasks tells
    cause,      \* the slot a unit was dispatched for, or Manual
    cut,        \* history: units whose dispatch was cut off by a crash
    overlapped, \* history: a patch or delete came while a dispatch was under way
    patches, crashes

service == <<chain, mapped, run, boot, shutdown>>
units == <<status, cause>>
history == <<cut, overlapped>>
vars == <<clock, row, service, units, history, patches, crashes>>

None == 0
Unused == 0
Manual == -1
Unit == 1..MaxUnits
Chain == 1..MaxPatches + 1

Ledger == INSTANCE TaskLedger WITH Task <- Unit, working <- {}

Row == [there : {"unborn", "kept", "deleted"}, enabled : BOOLEAN,
        trigger : Trigger \cup {{}}, next : 0..MaxTime]
Idle == [at |-> "off", slot |-> None, due |-> None, saw |-> {}, unit |-> 0]
Firing(u) == [at |-> "firing", slot |-> None, due |-> None, saw |-> row.trigger, unit |-> u]
Ready == [at |-> "ready", saw |-> {}, unit |-> 0]
Over == [at |-> "over", saw |-> {}, unit |-> 0]
Up == [at |-> "up", now |-> None, unit |-> 0]
Down == [at |-> "down", now |-> None, unit |-> 0]

Init ==
    /\ clock = 1
    /\ row = [there |-> "unborn", enabled |-> FALSE, trigger |-> {}, next |-> None]
    /\ chain = [c \in Chain |-> Idle]
    /\ mapped = 0
    /\ run = [r \in Runner |-> Ready]
    /\ boot = Up
    /\ shutdown = FALSE
    /\ status = [u \in Unit |-> "absent"]
    /\ cause = [u \in Unit |-> Unused]
    /\ cut = {} /\ overlapped = FALSE
    /\ patches = 0 /\ crashes = 0

-----------------------------------------------------------------------------
(* nextRuns(expr, tz, after, 1) *)
Earliest(S) == CHOOSE s \in S : \A x \in S : s <= x
NextRunFrom(trigger, after) ==
    LET later == {s \in trigger : s >= after} IN IF later = {} THEN None ELSE Earliest(later)
NextRun(trigger, after) ==
    LET later == {s \in trigger : s > after} IN IF later = {} THEN None ELSE Earliest(later)

Kept == row.there = "kept"
Open == boot.at = "up" /\ ~shutdown

UnderWay(u) ==
    \/ \E c \in Chain : chain[c].at = "firing" /\ chain[c].unit = u
    \/ \E r \in Runner : run[r].at = "dispatching" /\ run[r].unit = u
    \/ boot.at = "recovering" /\ boot.unit = u
UnitsUnderWay == {u \in Unit : UnderWay(u)}

\* handler.hasInFlightForSchedule: a row that is not terminal.
HasInFlight == \E u \in Unit : status[u] = "running"

Dispatch(u, for) ==
    /\ cause[u] = Unused /\ \A v \in 1..u - 1 : cause[v] # Unused
    /\ cause' = [cause EXCEPT ![u] = for]
DispatchOver(u) == status[u] # "absent"

\* setTimeout(fire, delay) of armNext.
Timer(slot) ==
    [at |-> "armed", slot |-> slot, due |-> IF slot - clock > MaxDelay THEN clock ELSE slot,
     saw |-> {}, unit |-> 0]

\* chains with armNext done for chain c, and what this.timers holds then.
ArmNext(chains, c, trigger, inMap) ==
    LET slot == NextRun(trigger, clock)
    IN  IF shutdown \/ slot = None
        THEN chain' = [chains EXCEPT ![c] = Idle] /\ mapped' = inMap
        ELSE chain' = [chains EXCEPT ![c] = Timer(slot)] /\ mapped' = c

CancelNoTimer == chain
CancelTimer == IF mapped = 0 THEN chain ELSE [chain EXCEPT ![mapped] = Idle]

FirstOff(chains, c) == chains[c].at = "off" /\ \A b \in 1..c - 1 : chains[b].at # "off"

(* create, patch, delete *)
NextFireAtKept(enabled, trigger) ==
    IF enabled /\ row.next = None THEN NextRun(trigger, clock) ELSE row.next
NextFireAt(enabled, trigger) == IF enabled THEN NextRun(trigger, clock) ELSE None

Upsert(enabled, trigger) ==
    /\ row' = [there |-> "kept", enabled |-> enabled, trigger |-> trigger,
               next |-> NextFireAt(enabled, trigger)]
    /\ \/ /\ enabled
          /\ \E c \in Chain : FirstOff(CancelTimer, c) /\ ArmNext(CancelTimer, c, trigger, 0)
       \/ ~enabled /\ chain' = CancelTimer /\ mapped' = 0

Create(enabled, trigger) ==
    /\ Open /\ row.there = "unborn"
    /\ Upsert(enabled, trigger)
    /\ UNCHANGED <<clock, run, boot, shutdown, units, history, patches, crashes>>

Overlapping == overlapped' = (overlapped \/ UnitsUnderWay # {})

\* A patch of the trigger or of enabled; any other leaves the timers, the
\* trigger and the fires alone.  Setting enabled alone acts like giving the
\* trigger the row has.
Patch(enabled, trigger) ==
    /\ Open /\ Kept /\ patches < MaxPatches
    /\ Upsert(enabled, trigger)
    /\ Overlapping
    /\ patches' = patches + 1
    /\ UNCHANGED <<clock, run, boot, shutdown, units, cut, crashes>>

MayDelete == ~row.enabled /\ ~HasInFlight
Delete ==
    /\ Open /\ Kept /\ MayDelete
    /\ row' = [row EXCEPT !.there = "deleted"]
    /\ chain' = CancelTimer /\ mapped' = 0
    /\ status' = [u \in Unit |-> IF status[u] \in Ledger!Outcomes THEN "gone" ELSE status[u]]
    /\ Overlapping
    /\ UNCHANGED <<clock, run, boot, shutdown, cause, cut, patches, crashes>>

(* run *)
Run(r) ==
    /\ Open /\ Kept /\ run[r].at = "ready"
    /\ \E u \in Unit :
        /\ Dispatch(u, Manual)
        /\ run' = [run EXCEPT ![r] = [at |-> "dispatching", saw |-> row.trigger, unit |-> u]]
    /\ UNCHANGED <<clock, row, chain, mapped, boot, shutdown, status, history, patches, crashes>>

RecordFired(trigger, after) == row' = [row EXCEPT !.next = NextRun(trigger, after)]

\* recordFired throws, and the call with it, when the row is deleted or the
\* database closed; it is not reached when the dispatch failed, which may leave
\* its task running (Task).
RunReturns(r) ==
    /\ run[r].at = "dispatching" /\ DispatchOver(run[r].unit)
    /\ run' = [run EXCEPT ![r] = Over]
    /\ \/ UNCHANGED row
       \/ /\ status[run[r].unit] = "running" /\ Kept /\ ~shutdown
          /\ RecordFired(run[r].saw, clock)
    /\ UNCHANGED <<clock, chain, mapped, boot, shutdown, units, history, patches, crashes>>

FireAdmitted == ~shutdown /\ Kept /\ row.enabled

FireStops(c) ==
    /\ ~FireAdmitted
    /\ chain' = [chain EXCEPT ![c] = Idle]
    /\ mapped' = 0
    /\ UNCHANGED <<units>>

OverlapIgnored == FALSE
Overlap == HasInFlight

FireSkipsForGood(c) ==
    /\ FireAdmitted /\ Overlap
    /\ chain' = [chain EXCEPT ![c] = Idle]
    /\ mapped' = 0
    /\ UNCHANGED <<units>>
FireSkips(c) ==
    /\ FireAdmitted /\ Overlap
    /\ ArmNext(chain, c, row.trigger, 0)
    /\ UNCHANGED <<units>>

FireDispatches(c) ==
    /\ FireAdmitted /\ ~Overlap
    /\ \E u \in Unit :
        /\ Dispatch(u, chain[c].slot)
        /\ chain' = [chain EXCEPT ![c] = Firing(u)]
    /\ mapped' = 0
    /\ UNCHANGED status

Fire(c) ==
    /\ chain[c].at = "armed" /\ chain[c].due <= clock
    /\ FireStops(c) \/ FireSkips(c) \/ FireDispatches(c)
    /\ UNCHANGED <<clock, row, run, boot, shutdown, history, patches, crashes>>

\* What the end of the process leaves: recoverOrphaned of the tasks, which
\* runs before recover, fails the rows nobody works on.
Die ==
    /\ chain' = [c \in Chain |-> Idle] /\ mapped' = 0
    /\ run' = [r \in Runner |-> IF run[r].at = "ready" THEN Ready ELSE Over]
    /\ boot' = Down /\ shutdown' = FALSE
    /\ status' = [u \in Unit |-> CASE status[u] = "running" -> "failed"
                                   [] status[u] = "absent" /\ cause[u] # Unused -> "gone"
                                   [] OTHER -> status[u]]
    /\ cut' = cut \cup UnitsUnderWay
    /\ UNCHANGED <<clock, cause, overlapped, patches>>

\* A dispatch that failed is recorded like one that did not.  Nobody waits for
\* fire(): when recordFired throws the rejection is unhandled and ends the
\* process.
FireReturns(c) ==
    /\ chain[c].at = "firing" /\ DispatchOver(chain[c].unit)
    /\ \/ /\ Kept /\ ~shutdown
          /\ RecordFired(chain[c].saw, clock)
          /\ ArmNext(chain, c, chain[c].saw, mapped)
          /\ UNCHANGED <<clock, run, boot, shutdown, units, history, patches>>
       \/ (~Kept \/ shutdown) /\ Die /\ UNCHANGED row
    /\ UNCHANGED crashes

(* shutdown, the end of the process, recover *)
Shutdown ==
    /\ Open
    /\ shutdown' = TRUE
    /\ chain' = CancelTimer /\ mapped' = 0
    /\ UNCHANGED <<clock, row, run, boot, units, history, patches, crashes>>

Crash ==
    /\ crashes < MaxCrashes /\ boot.at # "down"
    /\ Die
    /\ crashes' = crashes + 1
    /\ UNCHANGED row

Recover ==
    /\ boot.at = "down"
    /\ \/ /\ Kept /\ row.enabled /\ row.next # None /\ row.next <= clock
          /\ \E u \in Unit :
              /\ Dispatch(u, row.next)
              /\ boot' = [at |-> "recovering", now |-> clock, unit |-> u]
          /\ UNCHANGED <<chain, mapped>>
       \/ /\ ~(Kept /\ row.enabled /\ row.next # None /\ row.next <= clock)
          /\ boot' = Up
          /\ IF Kept /\ row.enabled THEN ArmNext(chain, 1, row.trigger, 0)
                                    ELSE UNCHANGED <<chain, mapped>>
          /\ UNCHANGED cause
    /\ UNCHANGED <<clock, row, run, shutdown, status, history, patches, crashes>>

RecoverReturns ==
    /\ boot.at = "recovering" /\ DispatchOver(boot.unit)
    /\ RecordFired(row.trigger, boot.now)
    /\ ArmNext(chain, 1, row.trigger, 0)
    /\ boot' = Up
    /\ UNCHANGED <<clock, run, shutdown, units, history, patches, crashes>>

(* The tasks and the clock *)
TaskStep(u) ==
    /\ \/ cause[u] # Unused /\ (Ledger!Begin(u) \/ Ledger!Refuse(u))
       \/ ~UnderWay(u) /\ Ledger!End(u)
    /\ UNCHANGED <<clock, row, service, cause, history, patches, crashes>>

Tick ==
    /\ clock < MaxTime
    /\ clock' = clock + 1
    /\ UNCHANGED <<row, service, units, history, patches, crashes>>

Next ==
    \/ \E enabled \in BOOLEAN, trigger \in Trigger : Create(enabled, trigger) \/ Patch(enabled, trigger)
    \/ Delete
    \/ \E r \in Runner : Run(r) \/ RunReturns(r)
    \/ \E c \in Chain : Fire(c) \/ FireReturns(c)
    \/ Shutdown \/ Crash \/ Recover \/ RecoverReturns
    \/ \E u \in Unit : TaskStep(u)
    \/ Tick

Spec == Init /\ [][Next]_vars

-----------------------------------------------------------------------------
(* Properties *)

\* Every variable has the type of the row or field it stands for.
TypeOK ==
    /\ clock \in 1..MaxTime
    /\ row \in Row
    /\ chain \in [Chain -> [at : {"off", "armed", "firing"}, slot : 0..MaxTime, due : 0..MaxTime,
                            saw : Trigger \cup {{}}, unit : 0..MaxUnits]]
    /\ mapped \in Chain \cup {0}
    /\ run \in [Runner -> [at : {"ready", "dispatching", "over"}, saw : Trigger \cup {{}}, unit : 0..MaxUnits]]
    /\ boot \in [at : {"up", "recovering", "down"}, now : 0..MaxTime, unit : 0..MaxUnits]
    /\ shutdown \in BOOLEAN
    /\ status \in [Unit -> {"absent", "running", "gone"} \cup Ledger!Outcomes]
    /\ cause \in [Unit -> -1..MaxTime]
    /\ cut \subseteq Unit
    /\ overlapped \in BOOLEAN
    /\ patches \in 0..MaxPatches
    /\ crashes \in 0..MaxCrashes

Busy == {u \in Unit : status[u] = "running" \/ UnderWay(u)}

\* Concurrency 1 (README.md, Invariants 2): of the units dispatched for slots
\* at most one is on its way or at work, manual runs and restarts included, as
\* long as no patch or delete meets a dispatch.
OneAtATimeAlways == Cardinality({u \in Busy : cause[u] > 0}) <= 1
OneAtATime == ~overlapped => OneAtATimeAlways

\* Each slot is dispatched for once, by its timer or by the catch-up, unless a
\* crash came between the dispatch and recordFired.
SlotOnce ==
    ~overlapped => \A u, v \in Unit \ cut : cause[u] = cause[v] /\ cause[u] > 0 => u = v

\* A unit is dispatched for a slot of the trigger the row has, and not before
\* its time.
SlotIsDue(u) == cause'[u] <= clock /\ cause'[u] \in row.trigger
FiresOnTime ==
    [][\A u \in Unit : cause[u] = Unused /\ cause'[u] > 0 => overlapped \/ SlotIsDue(u)]_vars

\* An enabled schedule has a timer for the next slot of its trigger, or a fire
\* that will re-arm it, whatever patches, runs and restarts came before.
SlotIsWatched ==
    LET slot == NextRun(row.trigger, clock)
    IN  Open /\ Kept /\ row.enabled /\ slot # None =>
            \E c \in Chain : \/ chain[c].at = "firing"
                             \/ chain[c].at = "armed" /\ chain[c].due <= slot

\* A next_fire_at in the future is the next slot of the trigger: what users
\* are shown and what the next boot takes for missed.
NextIsNextRun ==
    ~overlapped /\ Kept /\ row.next > clock => row.next = NextRun(row.trigger, clock)

\* A deleted schedule leaves no unit on its way or at work (the guards and the
\* second check of delete), as long as the delete meets no dispatch.
NoOrphanDispatchAlways == row.there = "deleted" => Busy = {}
NoOrphanDispatch == ~overlapped => NoOrphanDispatchAlways

\* Timers that armNext overwrote in this.timers cannot be cancelled; they
\* dispatch nothing for a schedule that is disabled, deleted or shut down.
LostTimersStartNothing ==
    [][\A u \in Unit : cause[u] = Unused /\ cause'[u] > 0 => ~shutdown /\ Kept /\ row.enabled]_vars
=============================================================================
