--------------------------- MODULE ScheduleProofs ---------------------------
(***************************************************************************)
(* Proofs about Schedule, for any triggers, any longest delay and any       *)
(* number of runners, units, patches and crashes.                           *)
(***************************************************************************)
EXTENDS Schedule, FiniteSetTheorems, WellFoundedInduction, TLAPS

AnyTrigger == Trigger \cup {{}}
ChainRecord == [at : {"off", "armed", "firing"}, slot : 0..MaxTime, due : 0..MaxTime,
                saw : AnyTrigger, unit : 0..MaxUnits]
RunRecord == [at : {"ready", "dispatching", "over"}, saw : AnyTrigger, unit : 0..MaxUnits]
BootRecord == [at : {"up", "recovering", "down"}, now : 0..MaxTime, unit : 0..MaxUnits]

\* TypeOK in the records above.
Typed ==
    /\ clock \in 1..MaxTime
    /\ row \in Row
    /\ chain \in [Chain -> ChainRecord]
    /\ mapped \in Chain \cup {0}
    /\ run \in [Runner -> RunRecord]
    /\ boot \in BootRecord
    /\ shutdown \in BOOLEAN
    /\ status \in [Unit -> {"absent", "running", "gone"} \cup Ledger!Outcomes]
    /\ cause \in [Unit -> -1..MaxTime]
    /\ cut \subseteq Unit
    /\ overlapped \in BOOLEAN
    /\ patches \in 0..MaxPatches
    /\ crashes \in 0..MaxCrashes

-----------------------------------------------------------------------------
(* The operators *)

LEMMA LeastNatural ==
    ASSUME NEW S \in SUBSET Nat, S # {}
    PROVE  \E m \in S : \A s \in S : m <= s
<1>1. PICK m \in S : \A s \in S : <<s, m>> \notin OpToRel(<, Nat)
  BY NatLessThanWellFounded, WFMin
<1>2. \A s \in S : ~(s < m)  BY <1>1 DEF OpToRel
<1> QED  BY <1>2

LEMMA NextRunIsNext ==
    ASSUME NEW trigger \in AnyTrigger, NEW after \in Nat
    PROVE  LET next == NextRun(trigger, after)
           IN  \/ next = None /\ \A s \in trigger : s <= after
               \/ /\ next \in trigger /\ next \in 1..MaxTime /\ next > after
                  /\ \A s \in trigger : s > after => next <= s
<1> DEFINE later == {s \in trigger : s > after}
<1>1. trigger \subseteq 1..MaxTime  BY TriggerAssumption DEF AnyTrigger
<1>2. CASE later = {}
  <2>1. NextRun(trigger, after) = None  BY <1>2 DEF NextRun
  <2>2. \A s \in trigger : s \in Nat /\ ~(s > after)  BY <1>1, <1>2
  <2> QED  BY <2>1, <2>2
<1>3. CASE later # {}
  <2>1. \A s \in later : s \in Nat  BY <1>1
  <2> HIDE DEF later
  <2>2. PICK m \in later : \A s \in later : m <= s  BY <1>3, <2>1, LeastNatural
  <2> USE DEF later
  <2>3. \E s \in later : \A x \in later : s <= x  BY <2>2
  <2>4. /\ Earliest(later) \in later
        /\ \A x \in later : Earliest(later) <= x
    BY <2>3 DEF Earliest
  <2>5. NextRun(trigger, after) = Earliest(later)  BY <1>3 DEF NextRun
  <2> QED  BY <1>1, <2>4, <2>5
<1> QED  BY <1>2, <1>3

\* The next run does not change while the clock has not reached it.
LEMMA NextRunLater ==
    ASSUME NEW trigger \in AnyTrigger, NEW a \in Nat, NEW b \in Nat, a <= b
    PROVE  /\ NextRun(trigger, b) # None => /\ NextRun(trigger, a) # None
                                            /\ NextRun(trigger, a) <= NextRun(trigger, b)
           /\ NextRun(trigger, a) > b => NextRun(trigger, b) = NextRun(trigger, a)
<1>1. trigger \subseteq 1..MaxTime  BY TriggerAssumption DEF AnyTrigger
<1>2. \/ NextRun(trigger, a) = None /\ \A s \in trigger : s <= a
      \/ /\ NextRun(trigger, a) \in trigger /\ NextRun(trigger, a) \in 1..MaxTime
         /\ NextRun(trigger, a) > a
         /\ \A s \in trigger : s > a => NextRun(trigger, a) <= s
  BY NextRunIsNext
<1>3. \/ NextRun(trigger, b) = None /\ \A s \in trigger : s <= b
      \/ /\ NextRun(trigger, b) \in trigger /\ NextRun(trigger, b) \in 1..MaxTime
         /\ NextRun(trigger, b) > b
         /\ \A s \in trigger : s > b => NextRun(trigger, b) <= s
  BY NextRunIsNext
<1> HIDE DEF NextRun
<1> QED  BY <1>1, <1>2, <1>3, BoundsAssumption DEF None

\* What armNext leaves: no timer, or one that is due no later than the slot.
LEMMA ArmNextDoes ==
    ASSUME Typed, NEW chains \in [Chain -> ChainRecord], NEW c \in Chain,
           NEW trigger \in AnyTrigger, NEW inMap \in Chain \cup {0},
           ArmNext(chains, c, trigger, inMap)
    PROVE  /\ chain' \in [Chain -> ChainRecord]
           /\ mapped' \in Chain \cup {0}
           /\ \A b \in Chain \ {c} : chain'[b] = chains[b]
           /\ \/ /\ shutdown \/ NextRun(trigger, clock) = None
                 /\ chain'[c] = Idle /\ mapped' = inMap
              \/ /\ ~shutdown /\ NextRun(trigger, clock) # None
                 /\ chain'[c].at = "armed" /\ chain'[c].slot = NextRun(trigger, clock)
                 /\ chain'[c].slot \in 1..MaxTime
                 /\ chain'[c].due <= chain'[c].slot
                 /\ mapped' = c
<1> DEFINE slot == NextRun(trigger, clock)
<1>1. clock \in Nat /\ clock \in 1..MaxTime  BY DEF Typed
<1>2. slot = None \/ (slot \in 1..MaxTime /\ slot > clock)  BY <1>1, NextRunIsNext
<1>3. Idle \in ChainRecord /\ {} \in AnyTrigger
  BY BoundsAssumption DEF Idle, ChainRecord, None, AnyTrigger
<1>4. CASE shutdown \/ slot = None
  <2>1. chain' = [chains EXCEPT ![c] = Idle] /\ mapped' = inMap  BY <1>4 DEF ArmNext
  <2> QED  BY <1>3, <1>4, <2>1
<1>5. CASE ~(shutdown \/ slot = None)
  <2>1. chain' = [chains EXCEPT ![c] = Timer(slot)] /\ mapped' = c  BY <1>5 DEF ArmNext
  <2> HIDE DEF slot
  <2>2. slot \in 1..MaxTime /\ slot > clock  BY <1>2, <1>5
  <2>3. Timer(slot) = [at |-> "armed", slot |-> slot,
                       due |-> IF slot - clock > MaxDelay THEN clock ELSE slot,
                       saw |-> {}, unit |-> 0]
    BY DEF Timer
  <2>4. Timer(slot) \in ChainRecord
    BY <1>1, <1>3, <2>2, <2>3, BoundsAssumption DEF ChainRecord
  <2>5. Timer(slot).due <= slot  BY <1>1, <2>2, <2>3
  <2> QED  BY <1>5, <2>1, <2>2, <2>3, <2>4, <2>5 DEF slot
<1> QED  BY <1>4, <1>5

LEMMA RecordsTyped ==
    /\ Idle \in ChainRecord /\ {} \in AnyTrigger
    /\ Ready \in RunRecord /\ Over \in RunRecord
    /\ Up \in BootRecord /\ Down \in BootRecord
    /\ None \in 0..MaxTime
    /\ \A trigger \in Trigger : trigger \in AnyTrigger
BY BoundsAssumption
   DEF Idle, Ready, Over, Up, Down, None, ChainRecord, RunRecord, BootRecord, AnyTrigger

LEMMA CancelTimerTyped ==
    ASSUME Typed
    PROVE  /\ CancelTimer \in [Chain -> ChainRecord]
           /\ \A c \in Chain : CancelTimer[c] = IF c = mapped THEN Idle ELSE chain[c]
<1>1. /\ chain \in [Chain -> ChainRecord] /\ mapped \in Chain \cup {0}
      /\ Idle \in ChainRecord /\ 0 \notin Chain
  BY RecordsTyped DEF Typed, Chain
<1> QED  BY <1>1 DEF CancelTimer

LEMMA RowTyped ==
    ASSUME Typed
    PROVE  /\ row.trigger \in AnyTrigger /\ row.next \in 0..MaxTime /\ row.enabled \in BOOLEAN
           /\ row.there \in {"unborn", "kept", "deleted"}
           /\ clock \in Nat /\ clock \in 1..MaxTime
BY DEF Typed, Row, AnyTrigger

LEMMA NextRunTyped ==
    ASSUME NEW trigger \in AnyTrigger, NEW after \in Nat
    PROVE  NextRun(trigger, after) \in 0..MaxTime
BY NextRunIsNext, BoundsAssumption DEF None

\* What create and patch do to the row and the timers.
LEMMA UpsertDoes ==
    ASSUME Typed, NEW enabled \in BOOLEAN, NEW trigger \in Trigger, Upsert(enabled, trigger)
    PROVE  /\ row' \in Row /\ row'.there = "kept" /\ row'.enabled = enabled
           /\ row'.trigger = trigger
           /\ row'.next = IF enabled THEN NextRun(trigger, clock) ELSE None
           /\ chain' \in [Chain -> ChainRecord] /\ mapped' \in Chain \cup {0}
           /\ \/ /\ ~enabled
                 /\ chain' = CancelTimer /\ mapped' = 0
              \/ /\ enabled
                 /\ \E c \in Chain : CancelTimer[c].at = "off"
                                     /\ ArmNext(CancelTimer, c, trigger, 0)
<1>1. trigger \in AnyTrigger /\ clock \in Nat /\ None \in 0..MaxTime  BY RowTyped, RecordsTyped
<1>2. NextRun(trigger, clock) \in 0..MaxTime  BY <1>1, NextRunTyped
<1>3. row' = [there |-> "kept", enabled |-> enabled, trigger |-> trigger,
              next |-> NextFireAt(enabled, trigger)]
  BY DEF Upsert
<1>4. NextFireAt(enabled, trigger) = IF enabled THEN NextRun(trigger, clock) ELSE None
  BY DEF NextFireAt
<1>5. CancelTimer \in [Chain -> ChainRecord]  BY CancelTimerTyped
<1>6. CASE enabled /\ \E c \in Chain : FirstOff(CancelTimer, c) /\ ArmNext(CancelTimer, c, trigger, 0)
  <2>1. PICK c \in Chain : FirstOff(CancelTimer, c) /\ ArmNext(CancelTimer, c, trigger, 0)  BY <1>6
  <2>2. CancelTimer[c].at = "off"  BY <2>1 DEF FirstOff
  <2>3. chain' \in [Chain -> ChainRecord] /\ mapped' \in Chain \cup {0}
    BY <1>1, <1>5, <2>1, ArmNextDoes
  <2> QED  BY <1>1, <1>2, <1>3, <1>4, <1>6, <2>1, <2>2, <2>3 DEF Row
<1>7. CASE ~enabled /\ chain' = CancelTimer /\ mapped' = 0
  BY <1>1, <1>2, <1>3, <1>4, <1>5, <1>7 DEF Row
<1> QED  BY <1>6, <1>7 DEF Upsert

-----------------------------------------------------------------------------
(* Types *)

LEMMA InitTyped == Init => Typed
<1> SUFFICES ASSUME Init PROVE Typed  OBVIOUS
<1>1. clock \in 1..MaxTime /\ 0 \in 0..MaxPatches /\ 0 \in 0..MaxCrashes
  BY BoundsAssumption DEF Init
<1>2. row \in Row  BY RecordsTyped DEF Init, Row, AnyTrigger
<1>3. Unused \in -1..MaxTime  BY BoundsAssumption DEF Unused
<1> QED  BY <1>1, <1>2, <1>3, RecordsTyped DEF Typed, Init

LEMMA DispatchTyped ==
    ASSUME Typed, NEW u \in Unit, NEW for \in -1..MaxTime, Dispatch(u, for)
    PROVE  /\ cause' \in [Unit -> -1..MaxTime]
           /\ u \in 0..MaxUnits
           /\ cause[u] = Unused /\ cause'[u] = for
           /\ \A v \in Unit \ {u} : cause'[v] = cause[v]
BY BoundsAssumption DEF Typed, Dispatch, Unit

LEMMA DieTyped ==
    ASSUME Typed, Die
    PROVE  /\ chain' = [c \in Chain |-> Idle] /\ mapped' = 0
           /\ run' \in [Runner -> RunRecord] /\ boot' = Down /\ shutdown' = FALSE
           /\ status' \in [Unit -> {"absent", "running", "gone"} \cup Ledger!Outcomes]
           /\ cut' \subseteq Unit
           /\ UNCHANGED <<clock, cause, overlapped, patches>>
<1>1. run' \in [Runner -> RunRecord]  BY RecordsTyped DEF Die
<1>2. status' \in [Unit -> {"absent", "running", "gone"} \cup Ledger!Outcomes]
  BY DEF Typed, Die, Ledger!Outcomes
<1>3. cut' \subseteq Unit  BY DEF Typed, Die, UnitsUnderWay
<1> QED  BY <1>1, <1>2, <1>3 DEF Die

LEMMA RecordFiredTyped ==
    ASSUME Typed, NEW trigger \in AnyTrigger, NEW after \in Nat, RecordFired(trigger, after)
    PROVE  /\ row' \in Row
           /\ row'.there = row.there /\ row'.enabled = row.enabled /\ row'.trigger = row.trigger
           /\ row'.next = NextRun(trigger, after)
<1>1. NextRun(trigger, after) \in 0..MaxTime  BY NextRunTyped
<1>2. row \in Row  BY DEF Typed 
<1> QED  BY <1>1, <1>2 DEF RecordFired, Row

LEMMA FireTyped ==
    ASSUME Typed, NEW c \in Chain, Fire(c)
    PROVE  Typed'
<1>1. /\ chain \in [Chain -> ChainRecord] /\ Idle \in ChainRecord /\ 0 \in Chain \cup {0}
      /\ row.trigger \in AnyTrigger
  BY RecordsTyped, RowTyped DEF Typed
<1>2. CASE FireStops(c)
  BY <1>1, <1>2 DEF Typed, Fire, FireStops, units, history
<1>3. CASE FireSkips(c)
  BY <1>1, <1>3, ArmNextDoes DEF Typed, Fire, FireSkips, units, history
<1>4. CASE FireDispatches(c)
  <2>1. PICK u \in Unit : Dispatch(u, chain[c].slot) /\ chain' = [chain EXCEPT ![c] = Firing(u)]
    BY <1>4 DEF FireDispatches
  <2>2. chain[c].slot \in -1..MaxTime  BY <1>1, BoundsAssumption DEF ChainRecord
  <2>3. cause' \in [Unit -> -1..MaxTime] /\ u \in 0..MaxUnits  BY <2>1, <2>2, DispatchTyped
  <2>4. Firing(u) \in ChainRecord
    BY <1>1, <2>3, RecordsTyped DEF Firing, ChainRecord
  <2> QED  BY <1>1, <1>4, <2>1, <2>3, <2>4 DEF Typed, Fire, FireDispatches, history
<1> QED  BY <1>2, <1>3, <1>4 DEF Fire

LEMMA RecoverTyped ==
    ASSUME Typed, Recover
    PROVE  Typed'
<1>1. row.trigger \in AnyTrigger /\ clock \in 0..MaxTime /\ row.next \in -1..MaxTime
  BY RowTyped, BoundsAssumption
<1>2. CASE \E u \in Unit : /\ Dispatch(u, row.next)
                           /\ boot' = [at |-> "recovering", now |-> clock, unit |-> u]
                           /\ UNCHANGED <<chain, mapped>>
  <2>1. PICK u \in Unit : /\ Dispatch(u, row.next)
                          /\ boot' = [at |-> "recovering", now |-> clock, unit |-> u]
    BY <1>2
  <2>2. cause' \in [Unit -> -1..MaxTime] /\ u \in 0..MaxUnits  BY <1>1, <2>1, DispatchTyped
  <2>3. boot' \in BootRecord  BY <1>1, <2>1, <2>2 DEF BootRecord
  <2> QED  BY <1>2, <2>2, <2>3 DEF Typed, Recover, history
<1>3. CASE boot' = Up /\ UNCHANGED cause /\ (ArmNext(chain, 1, row.trigger, 0) \/ UNCHANGED <<chain, mapped>>)
  <2>1. chain \in [Chain -> ChainRecord] /\ 1 \in Chain /\ Up \in BootRecord
    BY RecordsTyped, BoundsAssumption DEF Typed, Chain
  <2>2. chain' \in [Chain -> ChainRecord] /\ mapped' \in Chain \cup {0}
    BY <1>1, <1>3, <2>1, ArmNextDoes DEF Typed
  <2> QED  BY <1>3, <2>1, <2>2 DEF Typed, Recover, history
<1> QED  BY <1>2, <1>3 DEF Recover

LEMMA TypeStep == Typed /\ [Next]_vars => Typed'
<1> SUFFICES ASSUME Typed, [Next]_vars PROVE Typed'  OBVIOUS
<1> USE DEF units, history, service
<1>1. ASSUME NEW enabled \in BOOLEAN, NEW trigger \in Trigger, Create(enabled, trigger)
      PROVE  Typed'
  BY <1>1, UpsertDoes DEF Typed, Create
<1>2. ASSUME NEW enabled \in BOOLEAN, NEW trigger \in Trigger, Patch(enabled, trigger)
      PROVE  Typed'
  <2>1. patches' \in 0..MaxPatches  BY <1>2, BoundsAssumption DEF Typed, Patch
  <2>2. overlapped' \in BOOLEAN  BY <1>2 DEF Typed, Patch, Overlapping
  <2> QED  BY <1>2, <2>1, <2>2, UpsertDoes DEF Typed, Patch
<1>3. CASE Delete
  <2>1. row' \in Row  BY <1>3 DEF Typed, Delete, Row
  <2>2. status' \in [Unit -> {"absent", "running", "gone"} \cup Ledger!Outcomes]
    BY <1>3 DEF Typed, Delete
  <2>3. overlapped' \in BOOLEAN  BY <1>3 DEF Typed, Delete, Overlapping
  <2> QED  BY <1>3, <2>1, <2>2, <2>3, CancelTimerTyped DEF Typed, Delete
<1>4. ASSUME NEW r \in Runner, Run(r) PROVE Typed'
  <2>1. PICK u \in Unit :
          /\ Dispatch(u, Manual)
          /\ run' = [run EXCEPT ![r] = [at |-> "dispatching", saw |-> row.trigger, unit |-> u]]
    BY <1>4 DEF Run
  <2>2. Manual \in -1..MaxTime  BY BoundsAssumption DEF Manual
  <2>3. cause' \in [Unit -> -1..MaxTime] /\ u \in 0..MaxUnits  BY <2>1, <2>2, DispatchTyped
  <2>4. run' \in [Runner -> RunRecord]  BY <2>1, <2>3, RowTyped DEF Typed, RunRecord
  <2> QED  BY <1>4, <2>3, <2>4 DEF Typed, Run
<1>5. ASSUME NEW r \in Runner, RunReturns(r) PROVE Typed'
  <2>1. run' \in [Runner -> RunRecord]  BY <1>5, RecordsTyped DEF Typed, RunReturns
  <2>2. run[r].saw \in AnyTrigger  BY DEF Typed, RunRecord
  <2>3. row' \in Row  BY <1>5, <2>2, RecordFiredTyped, RowTyped DEF Typed, RunReturns
  <2> QED  BY <1>5, <2>1, <2>3 DEF Typed, RunReturns
<1>6. ASSUME NEW c \in Chain, Fire(c) PROVE Typed'  BY <1>6, FireTyped
<1>7. ASSUME NEW c \in Chain, FireReturns(c) PROVE Typed'
  <2>1. chain[c].saw \in AnyTrigger /\ mapped \in Chain \cup {0} /\ chain \in [Chain -> ChainRecord]
    BY DEF Typed, ChainRecord
  <2>2. CASE RecordFired(chain[c].saw, clock) /\ ArmNext(chain, c, chain[c].saw, mapped)
             /\ UNCHANGED <<clock, run, boot, shutdown, units, history, patches>>
    BY <1>7, <2>1, <2>2, RecordFiredTyped, ArmNextDoes, RowTyped DEF Typed, FireReturns
  <2>3. CASE Die /\ UNCHANGED row
    BY <1>7, <2>3, DieTyped, RecordsTyped DEF Typed, FireReturns
  <2> QED  BY <1>7, <2>2, <2>3 DEF FireReturns
<1>8. CASE Shutdown  BY <1>8, CancelTimerTyped DEF Typed, Shutdown
<1>9. CASE Crash
  <2>1. crashes' \in 0..MaxCrashes  BY <1>9, BoundsAssumption DEF Typed, Crash
  <2> QED  BY <1>9, <2>1, DieTyped, RecordsTyped DEF Typed, Crash
<1>10. CASE Recover  BY <1>10, RecoverTyped
<1>11. CASE RecoverReturns
  <2>1. chain \in [Chain -> ChainRecord] /\ 1 \in Chain /\ boot.now \in Nat
    BY BoundsAssumption DEF Typed, Chain, BootRecord
  <2>2. chain' \in [Chain -> ChainRecord] /\ mapped' \in Chain \cup {0}
    BY <1>11, <2>1, ArmNextDoes, RowTyped DEF RecoverReturns
  <2>3. row' \in Row  BY <1>11, <2>1, RecordFiredTyped, RowTyped DEF RecoverReturns
  <2> QED  BY <1>11, <2>2, <2>3, RecordsTyped DEF Typed, RecoverReturns
<1>12. ASSUME NEW u \in Unit, TaskStep(u) PROVE Typed'
  <2>1. status' \in [Unit -> {"absent", "running", "gone"} \cup Ledger!Outcomes]
    BY <1>12 DEF Typed, TaskStep, Ledger!Begin, Ledger!Refuse, Ledger!End
  <2> QED  BY <1>12, <2>1 DEF Typed, TaskStep
<1>13. CASE Tick
  <2>1. clock' \in 1..MaxTime  BY <1>13, BoundsAssumption DEF Typed, Tick
  <2> QED  BY <1>13, <2>1 DEF Typed, Tick
<1>14. CASE UNCHANGED vars  BY <1>14 DEF Typed, vars
<1> QED
  BY <1>1, <1>2, <1>3, <1>4, <1>5, <1>6, <1>7, <1>8, <1>9, <1>10, <1>11, <1>12, <1>13, <1>14
     DEF Next

\* Every variable keeps the type of the row or field it stands for, for any
\* triggers and any number of runners, units, patches and crashes.
THEOREM TypeCorrect == Spec => []TypeOK
<1>1. Typed => TypeOK  BY DEF Typed, TypeOK, ChainRecord, RunRecord, BootRecord, AnyTrigger
<1> QED  BY <1>1, InitTyped, TypeStep, PTL DEF Spec

-----------------------------------------------------------------------------
(* Who has which unit *)

IsFiring(c) == chain[c].at = "firing"
Dispatching(r) == run[r].at = "dispatching"

ChainsSound ==
    \A c \in Chain :
        /\ chain[c].at = "armed" => chain[c].slot \in 1..MaxTime
        /\ IsFiring(c) => chain[c].unit \in Unit /\ cause[chain[c].unit] \in 1..MaxTime
        /\ mapped = c => chain[c].at = "armed"

RunsSound == \A r \in Runner : Dispatching(r) => run[r].unit \in Unit /\ cause[run[r].unit] = Manual

\* Before recover is through there is nothing but what it dispatched.
BootSound ==
    /\ boot.at = "recovering" => /\ boot.unit \in Unit /\ cause[boot.unit] \in 1..MaxTime
                                 /\ boot.now \in 1..clock /\ row.there = "kept"
    /\ boot.at # "up" => /\ ~shutdown /\ mapped = 0
                         /\ \A c \in Chain : chain[c].at = "off"
                         /\ \A r \in Runner : ~Dispatching(r)

\* A unit without a row has not been dispatched, or somebody waits for it.
UnitsSound ==
    \A u \in Unit :
        /\ cause[u] = Unused => status[u] = "absent"
        /\ cause[u] # Unused /\ status[u] = "absent" => UnderWay(u)
        /\ boot.at # "up" /\ status[u] = "running" => boot.at = "recovering" /\ boot.unit = u

UnbornSound ==
    row.there = "unborn" => /\ \A c \in Chain : chain[c].at = "off"
                            /\ \A r \in Runner : ~Dispatching(r)

Sound == ChainsSound /\ RunsSound /\ BootSound /\ UnitsSound /\ UnbornSound

\* Only timers change: none turns into a fire, no fire ends.
TimersChange ==
    \A c \in Chain :
        /\ chain'[c].at = "firing" <=> IsFiring(c)
        /\ IsFiring(c) => chain'[c] = chain[c]
        /\ chain'[c].at = "armed" => chain'[c].slot \in 1..MaxTime
        /\ mapped' = c => chain'[c].at = "armed"

LEMMA TimersOnly ==
    ASSUME Typed, Sound, TimersChange, boot.at = "up", UNCHANGED <<clock, run, boot, cause>>,
           \A u \in Unit : /\ status'[u] = "running" <=> status[u] = "running"
                           /\ status'[u] = "absent" <=> status[u] = "absent"
    PROVE  ChainsSound' /\ RunsSound' /\ BootSound' /\ UnitsSound'
<1>1. ChainsSound'  BY DEF Sound, ChainsSound, TimersChange, IsFiring
<1>2. RunsSound' /\ BootSound'  BY DEF Sound, RunsSound, BootSound, Dispatching
<1>3. \A u \in Unit : UnderWay(u)' <=> UnderWay(u)
  BY DEF UnderWay, TimersChange, IsFiring
<1>4. UnitsSound'  BY <1>3 DEF Sound, UnitsSound
<1> QED  BY <1>1, <1>2, <1>4

\* armNext for a chain that is not firing changes timers only.
LEMMA ArmNextTimers ==
    ASSUME Typed, ChainsSound, NEW chains \in [Chain -> ChainRecord],
           \A b \in Chain : chains[b] = chain[b] \/ (~IsFiring(b) /\ chains[b].at = "off"),
           NEW c \in Chain, ~IsFiring(c), NEW trigger \in AnyTrigger,
           ArmNext(chains, c, trigger, 0)
    PROVE  TimersChange
<1>1. 0 \in Chain \cup {0} /\ 0 \notin Chain  BY DEF Chain
<1>2. /\ \A b \in Chain \ {c} : chain'[b] = chains[b]
      /\ \/ chain'[c] = Idle /\ mapped' = 0
         \/ /\ chain'[c].at = "armed" /\ chain'[c].slot \in 1..MaxTime
            /\ mapped' = c
  BY <1>1, ArmNextDoes
<1>3. Idle.at = "off"  BY DEF Idle
<1> QED  BY <1>1, <1>2, <1>3 DEF TimersChange, ChainsSound, IsFiring

LEMMA CancelTimerTimers ==
    ASSUME Typed, ChainsSound
    PROVE  /\ \A b \in Chain : CancelTimer[b] = chain[b] \/ (~IsFiring(b) /\ CancelTimer[b].at = "off")
           /\ chain' = CancelTimer /\ mapped' = 0 => TimersChange
<1>1. Idle.at = "off" /\ 0 \notin Chain  BY DEF Idle, Chain
<1>2. \A b \in Chain : CancelTimer[b] = IF b = mapped THEN Idle ELSE chain[b]  BY CancelTimerTyped
<1> QED  BY <1>1, <1>2 DEF TimersChange, ChainsSound, IsFiring

LEMMA UpsertTimers ==
    ASSUME Typed, ChainsSound, NEW enabled \in BOOLEAN, NEW trigger \in Trigger, Upsert(enabled, trigger)
    PROVE  TimersChange
<1>1. trigger \in AnyTrigger /\ CancelTimer \in [Chain -> ChainRecord]
  BY RecordsTyped, CancelTimerTyped
<1>2. CASE chain' = CancelTimer /\ mapped' = 0  BY <1>2, CancelTimerTimers
<1>3. ASSUME NEW c \in Chain, CancelTimer[c].at = "off", ArmNext(CancelTimer, c, trigger, 0)
      PROVE  TimersChange
  <2>1. ~IsFiring(c)  BY <1>3, CancelTimerTimers DEF IsFiring
  <2> QED  BY <1>1, <1>3, <2>1, CancelTimerTimers, ArmNextTimers
<1> QED  BY <1>2, <1>3, UpsertDoes

LEMMA InitSound == Init => Sound
BY RecordsTyped DEF Init, Sound, ChainsSound, RunsSound, BootSound, UnitsSound, UnbornSound,
   IsFiring, Dispatching, Idle, Ready, Up, Chain, Unused

LEMMA DieSound ==
    ASSUME Typed, Sound, Die, row' = row
    PROVE  Sound'
<1>1. /\ chain' = [c \in Chain |-> Idle] /\ mapped' = 0 /\ boot' = Down /\ shutdown' = FALSE
      /\ cause' = cause
  BY DieTyped
<1>2. Idle.at = "off" /\ Down.at = "down" /\ Ready.at = "ready" /\ Over.at = "over"
  BY DEF Idle, Down, Ready, Over
<1>3. \A r \in Runner : run'[r].at # "dispatching"  BY <1>2 DEF Die
<1>4. \A u \in Unit : /\ status'[u] # "running"
                      /\ status'[u] = "absent" <=> status[u] = "absent" /\ cause[u] = Unused
  <2> SUFFICES ASSUME NEW u \in Unit
               PROVE  /\ status'[u] # "running"
                      /\ status'[u] = "absent" <=> status[u] = "absent" /\ cause[u] = Unused
    OBVIOUS
  <2> QED  BY DEF Die
<1>5. UnitsSound'  BY <1>1, <1>4 DEF Sound, UnitsSound
<1>6. ChainsSound' /\ RunsSound' /\ BootSound' /\ UnbornSound'
  BY <1>1, <1>2, <1>3 DEF ChainsSound, RunsSound, BootSound, UnbornSound, IsFiring, Dispatching, Chain
<1> QED  BY <1>5, <1>6 DEF Sound

LEMMA FireSound ==
    ASSUME Typed, Sound, NEW c \in Chain, Fire(c)
    PROVE  Sound'
<1>1. chain[c].at = "armed" /\ ~IsFiring(c) /\ UNCHANGED <<clock, row, run, boot, shutdown>>
  BY DEF Fire, IsFiring
<1>2. boot.at = "up" /\ row.there # "unborn"
  BY <1>1 DEF Sound, BootSound, UnbornSound
<1>3. UnbornSound'  BY <1>1, <1>2 DEF UnbornSound
<1>4. chain \in [Chain -> ChainRecord] /\ row.trigger \in AnyTrigger  BY RowTyped DEF Typed
<1>5. CASE FireStops(c)
  <2>1. chain' = [chain EXCEPT ![c] = Idle] /\ mapped' = 0 /\ UNCHANGED <<cause, status>>
    BY <1>5 DEF FireStops, units
  <2>2. TimersChange
    BY <1>1, <1>4, <2>1 DEF TimersChange, Sound, ChainsSound, IsFiring, Idle, Chain
  <2> QED  BY <1>1, <1>2, <1>3, <2>1, <2>2, TimersOnly DEF Sound
<1>6. CASE FireSkips(c)
  <2>1. ArmNext(chain, c, row.trigger, 0) /\ UNCHANGED <<cause, status>>
    BY <1>6 DEF FireSkips, units
  <2>2. TimersChange  BY <1>1, <1>4, <2>1, ArmNextTimers DEF Sound
  <2> QED  BY <1>1, <1>2, <1>3, <2>1, <2>2, TimersOnly DEF Sound
<1>7. CASE FireDispatches(c)
  <2>1. PICK u \in Unit : Dispatch(u, chain[c].slot) /\ chain' = [chain EXCEPT ![c] = Firing(u)]
    BY <1>7 DEF FireDispatches
  <2>2. mapped' = 0 /\ status' = status /\ 0 \notin Chain  BY <1>7 DEF FireDispatches, Chain
  <2>3. chain[c].slot \in 1..MaxTime /\ chain[c].slot \in -1..MaxTime
    BY <1>1, BoundsAssumption DEF Sound, ChainsSound
  <2>4. /\ cause[u] = Unused /\ cause'[u] = chain[c].slot
        /\ \A v \in Unit \ {u} : cause'[v] = cause[v]
    BY <2>1, <2>3, DispatchTyped
  <2>5. Firing(u).at = "firing" /\ Firing(u).unit = u  BY DEF Firing
  <2>6. /\ chain'[c].at = "firing" /\ chain'[c].unit = u
        /\ \A b \in Chain \ {c} : chain'[b] = chain[b]
    BY <1>4, <2>1, <2>5
  <2>7. ChainsSound'
    BY <1>1, <2>2, <2>3, <2>4, <2>6 DEF Sound, ChainsSound, IsFiring, Unused
  <2>8. RunsSound'
    BY <1>1, <2>4 DEF Sound, RunsSound, Dispatching, Unused, Manual
  <2>9. BootSound'  BY <1>1, <1>2 DEF BootSound
  <2>10. \A v \in Unit : UnderWay(v) => UnderWay(v)'
    BY <1>1, <2>6 DEF UnderWay, IsFiring
  <2>11. UnderWay(u)'  BY <2>6 DEF UnderWay
  <2>12. UnitsSound'
    BY <1>1, <1>2, <2>2, <2>3, <2>4, <2>10, <2>11 DEF Sound, UnitsSound, Unused
  <2> QED  BY <1>3, <2>7, <2>8, <2>9, <2>12 DEF Sound
<1> QED  BY <1>5, <1>6, <1>7 DEF Fire

LEMMA FireReturnsSound ==
    ASSUME Typed, Sound, NEW c \in Chain, FireReturns(c)
    PROVE  Sound'
<1>1. IsFiring(c) /\ DispatchOver(chain[c].unit)  BY DEF FireReturns, IsFiring
<1>2. boot.at = "up" /\ row.there # "unborn"
  BY <1>1 DEF Sound, BootSound, UnbornSound, IsFiring
<1>3. CASE Die /\ UNCHANGED row  BY <1>3, DieSound
<1>4. CASE /\ RecordFired(chain[c].saw, clock) /\ ArmNext(chain, c, chain[c].saw, mapped)
           /\ UNCHANGED <<clock, run, boot, shutdown, units, history, patches>>
  <2>1. /\ chain[c].saw \in AnyTrigger /\ mapped \in Chain \cup {0}
        /\ chain \in [Chain -> ChainRecord]
    BY DEF Typed, ChainRecord
  <2>2. UNCHANGED <<clock, run, boot, shutdown, status, cause>>  BY <1>4 DEF units
  <2>3. row'.there = row.there  BY <1>4, <2>1, RecordFiredTyped, RowTyped
  <2>4. /\ \A b \in Chain \ {c} : chain'[b] = chain[b]
        /\ \/ chain'[c] = Idle /\ mapped' = mapped
           \/ /\ chain'[c].at = "armed" /\ chain'[c].slot \in 1..MaxTime
              /\ mapped' = c
    BY <1>4, <2>1, ArmNextDoes
  <2>5. Idle.at = "off"  BY DEF Idle
  <2>6. ChainsSound'
    BY <1>1, <2>2, <2>4, <2>5 DEF Sound, ChainsSound, IsFiring
  <2>7. RunsSound' /\ BootSound'
    BY <1>2, <2>2 DEF Sound, RunsSound, BootSound, Dispatching
  <2>8. \A v \in Unit : UnderWay(v) /\ v # chain[c].unit => UnderWay(v)'
    BY <2>2, <2>4 DEF UnderWay
  <2>9. UnitsSound'
    BY <1>1, <1>2, <2>2, <2>8 DEF Sound, UnitsSound, DispatchOver
  <2> QED  BY <1>2, <2>3, <2>6, <2>7, <2>9 DEF Sound, UnbornSound
<1> QED  BY <1>3, <1>4 DEF FireReturns

LEMMA RunSound ==
    ASSUME Typed, Sound, NEW r \in Runner, Run(r)
    PROVE  Sound'
<1>1. PICK u \in Unit :
        /\ Dispatch(u, Manual)
        /\ run' = [run EXCEPT ![r] = [at |-> "dispatching", saw |-> row.trigger, unit |-> u]]
  BY DEF Run
<1>2. /\ boot.at = "up" /\ row.there # "unborn" /\ ~Dispatching(r)
      /\ UNCHANGED <<clock, row, chain, mapped, boot, shutdown, status>>
  BY DEF Run, Open, Kept, Dispatching
<1>3. Manual \in -1..MaxTime /\ Manual # Unused  BY BoundsAssumption DEF Manual, Unused
<1>4. /\ cause[u] = Unused /\ cause'[u] = Manual
      /\ \A v \in Unit \ {u} : cause'[v] = cause[v]
  BY <1>1, <1>3, DispatchTyped
<1>5. /\ run'[r].at = "dispatching" /\ run'[r].unit = u
      /\ \A q \in Runner \ {r} : run'[q] = run[q]
  BY <1>1 DEF Typed
<1>6. ChainsSound'  BY <1>2, <1>4 DEF Sound, ChainsSound, IsFiring, Unused
<1>7. RunsSound' /\ BootSound'
  BY <1>2, <1>3, <1>4, <1>5 DEF Sound, RunsSound, BootSound, Dispatching
<1>8. UnderWay(u)' /\ \A v \in Unit : UnderWay(v) => UnderWay(v)'
  BY <1>2, <1>5 DEF UnderWay, Dispatching
<1>9. UnitsSound'  BY <1>2, <1>3, <1>4, <1>8 DEF Sound, UnitsSound
<1> QED  BY <1>2, <1>6, <1>7, <1>9 DEF Sound, UnbornSound

LEMMA RunReturnsSound ==
    ASSUME Typed, Sound, NEW r \in Runner, RunReturns(r)
    PROVE  Sound'
<1>1. /\ Dispatching(r) /\ DispatchOver(run[r].unit) /\ run[r].saw \in AnyTrigger
      /\ run' = [run EXCEPT ![r] = Over]
      /\ UNCHANGED <<clock, chain, mapped, boot, shutdown, status, cause>>
  BY DEF RunReturns, Dispatching, units, Typed, RunRecord
<1>2. boot.at = "up" /\ row.there # "unborn"
  BY <1>1 DEF Sound, BootSound, UnbornSound
<1>3. row'.there = row.there
  BY <1>1, RecordFiredTyped, RowTyped DEF RunReturns
<1>4. run'[r].at = "over" /\ \A q \in Runner \ {r} : run'[q] = run[q]
  BY <1>1 DEF Typed, Over
<1>5. ChainsSound' /\ RunsSound' /\ BootSound'
  BY <1>1, <1>2, <1>4 DEF Sound, ChainsSound, RunsSound, BootSound, IsFiring, Dispatching
<1>6. \A v \in Unit : UnderWay(v) /\ v # run[r].unit => UnderWay(v)'
  BY <1>1, <1>4 DEF UnderWay
<1>7. UnitsSound'  BY <1>1, <1>2, <1>6 DEF Sound, UnitsSound, DispatchOver
<1> QED  BY <1>2, <1>3, <1>5, <1>7 DEF Sound, UnbornSound

LEMMA RecoverSound ==
    ASSUME Typed, Sound, Recover
    PROVE  Sound'
<1>1. /\ boot.at = "down" /\ UNCHANGED <<clock, row, run, shutdown, status>>
      /\ \A b \in Chain : chain[b].at = "off"
      /\ ~shutdown /\ mapped = 0
      /\ \A r \in Runner : ~Dispatching(r)
  BY DEF Recover, Sound, BootSound
<1>3. \A v \in Unit : ~UnderWay(v)  BY <1>1 DEF UnderWay, Dispatching
<1>4. CASE /\ Kept /\ row.next # None
           /\ \E u \in Unit : /\ Dispatch(u, row.next)
                              /\ boot' = [at |-> "recovering", now |-> clock, unit |-> u]
           /\ UNCHANGED <<chain, mapped>>
  <2>1. PICK u \in Unit : /\ Dispatch(u, row.next)
                          /\ boot' = [at |-> "recovering", now |-> clock, unit |-> u]
    BY <1>4
  <2>2. row.next \in 1..MaxTime /\ row.next \in -1..MaxTime /\ clock \in 1..clock
    BY <1>4, RowTyped, BoundsAssumption DEF None
  <2>3. /\ cause[u] = Unused /\ cause'[u] = row.next
        /\ \A v \in Unit \ {u} : cause'[v] = cause[v]
    BY <2>1, <2>2, DispatchTyped
  <2>4. boot'.at = "recovering" /\ boot'.now = clock /\ boot'.unit = u  BY <2>1
  <2>5. ChainsSound' /\ RunsSound'
    BY <1>1, <1>4 DEF ChainsSound, RunsSound, IsFiring, Dispatching, Chain
  <2>6. BootSound'
    BY <1>1, <1>4, <2>2, <2>3, <2>4 DEF BootSound, Dispatching, Kept
  <2>7. UnderWay(u)'  BY <2>4 DEF UnderWay
  <2>8. UnitsSound'
    BY <1>1, <1>3, <2>2, <2>3, <2>4, <2>7 DEF Sound, UnitsSound, Unused
  <2> QED  BY <1>4, <2>5, <2>6, <2>8, <1>1 DEF Sound, UnbornSound, Kept
<1>5. CASE /\ boot' = Up /\ UNCHANGED cause
           /\ \/ Kept /\ ArmNext(chain, 1, row.trigger, 0)
              \/ UNCHANGED <<chain, mapped>>
  <2>1. /\ chain \in [Chain -> ChainRecord] /\ 1 \in Chain /\ row.trigger \in AnyTrigger
        /\ ~IsFiring(1) /\ 0 \notin Chain
    BY <1>1, RowTyped, BoundsAssumption DEF Typed, Chain, IsFiring
  <2>2. TimersChange
    <3>1. CASE UNCHANGED <<chain, mapped>>
      BY <1>1, <2>1, <3>1 DEF TimersChange, IsFiring
    <3>2. CASE ArmNext(chain, 1, row.trigger, 0)
      BY <2>1, <3>2, ArmNextTimers DEF Sound
    <3> QED  BY <1>5, <3>1, <3>2
  <2>3. boot'.at = "up"  BY <1>5 DEF Up
  <2>4. ChainsSound'  BY <1>1, <2>2 DEF ChainsSound, TimersChange, IsFiring
  <2>5. RunsSound' /\ BootSound'  BY <1>1, <2>3 DEF RunsSound, BootSound, Dispatching
  <2>6. UnitsSound'  BY <1>1, <1>3, <1>5, <2>3 DEF Sound, UnitsSound
  <2>7. UnbornSound'  BY <1>1, <1>5 DEF UnbornSound, Dispatching, Kept
  <2> QED  BY <2>4, <2>5, <2>6, <2>7 DEF Sound
<1> QED  BY <1>4, <1>5 DEF Recover

LEMMA RecoverReturnsSound ==
    ASSUME Typed, Sound, RecoverReturns
    PROVE  Sound'
<1>1. /\ boot.at = "recovering" /\ UNCHANGED <<clock, run, shutdown, status, cause>>
      /\ \A b \in Chain : chain[b].at = "off"
      /\ ~shutdown /\ mapped = 0
      /\ \A r \in Runner : ~Dispatching(r)
      /\ boot.now \in Nat
  BY DEF RecoverReturns, Sound, BootSound, units, Typed, BootRecord
<1>2. /\ chain \in [Chain -> ChainRecord] /\ 1 \in Chain /\ row.trigger \in AnyTrigger
      /\ ~IsFiring(1)
  BY <1>1, RowTyped, BoundsAssumption DEF Typed, Chain, IsFiring
<1>3. TimersChange  BY <1>2, ArmNextTimers DEF RecoverReturns, Sound
<1>4. boot'.at = "up" /\ DispatchOver(boot.unit)  BY DEF RecoverReturns, Up
<1>5. ChainsSound'  BY <1>1, <1>3 DEF ChainsSound, TimersChange, IsFiring
<1>6. RunsSound' /\ BootSound'  BY <1>1, <1>4 DEF RunsSound, BootSound, Dispatching
<1>7. \A v \in Unit : UnderWay(v) => v = boot.unit  BY <1>1 DEF UnderWay, Dispatching
<1>8. UnitsSound'  BY <1>1, <1>4, <1>7 DEF Sound, UnitsSound, DispatchOver
<1>9. UnbornSound'
  <2>1. row'.there = row.there  BY <1>1, <1>2, RecordFiredTyped DEF RecoverReturns
  <2> QED  BY <1>1, <2>1 DEF Sound, BootSound, UnbornSound
<1> QED  BY <1>5, <1>6, <1>8, <1>9 DEF Sound

LEMMA SoundStep == Typed /\ Sound /\ [Next]_vars => Sound'
<1> SUFFICES ASSUME Typed, Sound, [Next]_vars PROVE Sound'  OBVIOUS
<1> USE DEF units, history, service
<1>1. ASSUME NEW enabled \in BOOLEAN, NEW trigger \in Trigger,
             Create(enabled, trigger) \/ Patch(enabled, trigger)
      PROVE  Sound'
  <2>1. /\ Upsert(enabled, trigger) /\ boot.at = "up"
        /\ UNCHANGED <<clock, run, boot, cause, status>>
    BY <1>1 DEF Create, Patch, Open
  <2>2. TimersChange  BY <2>1, UpsertTimers DEF Sound
  <2>3. row'.there = "kept"  BY <2>1, UpsertDoes
  <2> QED  BY <2>1, <2>2, <2>3, TimersOnly DEF Sound, UnbornSound
<1>2. CASE Delete
  <2>1. /\ boot.at = "up" /\ UNCHANGED <<clock, run, boot, cause>>
        /\ chain' = CancelTimer /\ mapped' = 0 /\ row'.there = "deleted"
    BY <1>2 DEF Delete, Open, Typed, Row
  <2>2. \A u \in Unit : /\ status'[u] = "running" <=> status[u] = "running"
                        /\ status'[u] = "absent" <=> status[u] = "absent"
    BY <1>2 DEF Delete, Ledger!Outcomes, Typed
  <2>3. TimersChange  BY <2>1, CancelTimerTimers DEF Sound
  <2> QED  BY <2>1, <2>2, <2>3, TimersOnly DEF Sound, UnbornSound
<1>3. ASSUME NEW r \in Runner, Run(r) \/ RunReturns(r) PROVE Sound'
  BY <1>3, RunSound, RunReturnsSound
<1>4. ASSUME NEW c \in Chain, Fire(c) \/ FireReturns(c) PROVE Sound'
  BY <1>4, FireSound, FireReturnsSound
<1>5. CASE Shutdown
  <2>1. /\ boot.at = "up" /\ UNCHANGED <<clock, row, run, boot, cause, status>>
        /\ chain' = CancelTimer /\ mapped' = 0
    BY <1>5 DEF Shutdown, Open
  <2>2. TimersChange  BY <2>1, CancelTimerTimers DEF Sound
  <2>3. UnbornSound'
    BY <2>1, CancelTimerTyped DEF Sound, UnbornSound, Idle, Dispatching
  <2> QED  BY <2>1, <2>2, <2>3, TimersOnly DEF Sound
<1>6. CASE Crash  BY <1>6, DieSound DEF Crash
<1>7. CASE Recover \/ RecoverReturns  BY <1>7, RecoverSound, RecoverReturnsSound
<1>8. ASSUME NEW u \in Unit, TaskStep(u) PROVE Sound'
  <2>1. UNCHANGED <<clock, row, chain, mapped, run, boot, shutdown, cause>>
    BY <1>8 DEF TaskStep
  <2>2. \A v \in Unit : UnderWay(v)' <=> UnderWay(v)  BY <2>1 DEF UnderWay
  <2>3. \A v \in Unit : boot.at # "up" /\ UnderWay(v) => boot.at = "recovering" /\ boot.unit = v
    BY DEF UnderWay, Sound, BootSound, Dispatching
  <2>4. /\ \A v \in Unit \ {u} : status'[v] = status[v]
        /\ \/ status[u] = "absent" /\ cause[u] # Unused /\ status'[u] \in {"running", "gone"}
           \/ status[u] = "running" /\ status'[u] \in Ledger!Outcomes
    BY <1>8 DEF TaskStep, Ledger!Begin, Ledger!Refuse, Ledger!End, Typed
  <2>5. UnitsSound'
    BY <2>1, <2>2, <2>3, <2>4 DEF Sound, UnitsSound, Ledger!Outcomes
  <2> QED
    BY <2>1, <2>5 DEF Sound, ChainsSound, RunsSound, BootSound, UnbornSound, IsFiring, Dispatching
<1>9. CASE Tick
  <2>1. /\ clock' = clock + 1 /\ clock \in Nat
        /\ UNCHANGED <<row, chain, mapped, run, boot, shutdown, cause, status>>
    BY <1>9, RowTyped DEF Tick
  <2>2. \A v \in Unit : UnderWay(v)' <=> UnderWay(v)  BY <2>1 DEF UnderWay
  <2>3. BootSound'  BY <2>1 DEF Sound, BootSound, Dispatching
  <2> QED
    BY <2>1, <2>2, <2>3 DEF Sound, ChainsSound, RunsSound, UnitsSound, UnbornSound, IsFiring, Dispatching
<1>10. CASE UNCHANGED vars
  <2>1. UNCHANGED <<clock, row, chain, mapped, run, boot, shutdown, cause, status>>
    BY <1>10 DEF vars
  <2>2. \A v \in Unit : UnderWay(v)' <=> UnderWay(v)  BY <2>1 DEF UnderWay
  <2> QED
    BY <2>1, <2>2 DEF Sound, ChainsSound, RunsSound, BootSound, UnitsSound, UnbornSound, IsFiring, Dispatching
<1> QED
  BY <1>1, <1>2, <1>3, <1>4, <1>5, <1>6, <1>7, <1>8, <1>9, <1>10 DEF Next

\* The rest of what TypeOK and Sound say of the state before a step.
Base == Typed /\ Sound

-----------------------------------------------------------------------------
(* Who watches the next slot: a timer due in time, or a fire that will re-arm *)
(* with the trigger the row has.                                              *)

Watches(c, slot) ==
    \/ IsFiring(c) /\ chain[c].saw = row.trigger
    \/ chain[c].at = "armed" /\ chain[c].due <= slot

Watched ==
    Open /\ Kept /\ row.enabled /\ NextRun(row.trigger, clock) # None =>
        \E c \in Chain : Watches(c, NextRun(row.trigger, clock))

LEMMA ArmNextWatches ==
    ASSUME Typed, NEW chains \in [Chain -> ChainRecord], NEW c \in Chain,
           NEW trigger \in AnyTrigger, NEW inMap \in Chain \cup {0},
           ArmNext(chains, c, trigger, inMap), ~shutdown, NextRun(trigger, clock) # None
    PROVE  chain'[c].at = "armed" /\ chain'[c].due <= NextRun(trigger, clock)
BY ArmNextDoes

LEMMA FireWatched ==
    ASSUME Base, Watched, NEW c \in Chain, Fire(c)
    PROVE  Watched'
<1>1. chain[c].at = "armed" /\ UNCHANGED <<clock, row, boot, shutdown>>  BY DEF Fire
<1>2. chain \in [Chain -> ChainRecord] /\ row.trigger \in AnyTrigger
  BY RowTyped DEF Base, Typed
<1>3. CASE FireStops(c)
  BY <1>1, <1>3 DEF FireStops, FireAdmitted, Watched, Open, Kept
<1>4. CASE FireSkips(c)
  <2>1. ArmNext(chain, c, row.trigger, 0) /\ 0 \in Chain \cup {0} /\ ~shutdown
    BY <1>4 DEF FireSkips, FireAdmitted
  <2>2. NextRun(row.trigger, clock) # None =>
          chain'[c].at = "armed" /\ chain'[c].due <= NextRun(row.trigger, clock)
    BY <1>2, <2>1, ArmNextWatches DEF Base
  <2> QED  BY <1>1, <2>2 DEF Watched, Watches
<1>5. CASE FireDispatches(c)
  <2>1. PICK u \in Unit : chain' = [chain EXCEPT ![c] = Firing(u)]
    BY <1>5 DEF FireDispatches
  <2>2. chain'[c] = Firing(u)  BY <1>2, <2>1
  <2>3. chain'[c].at = "firing" /\ chain'[c].saw = row.trigger  BY <2>2 DEF Firing
  <2> QED  BY <1>1, <2>3 DEF Watched, Watches, IsFiring
<1> QED  BY <1>3, <1>4, <1>5 DEF Fire

LEMMA FireReturnsWatched ==
    ASSUME Base, Watched, NEW c \in Chain, FireReturns(c)
    PROVE  Watched'
<1>1. CASE Die  BY <1>1, DieTyped DEF Base, Watched, Open, Down
<1>2. CASE /\ RecordFired(chain[c].saw, clock) /\ ArmNext(chain, c, chain[c].saw, mapped)
           /\ UNCHANGED <<clock, run, boot, shutdown, units, history, patches>>
  <2>1. /\ chain[c].saw \in AnyTrigger /\ mapped \in Chain \cup {0}
        /\ chain \in [Chain -> ChainRecord]
    BY DEF Base, Typed, ChainRecord
  <2>2. /\ row'.trigger = row.trigger /\ row'.there = row.there /\ row'.enabled = row.enabled
        /\ UNCHANGED <<clock, boot, shutdown>>
    BY <1>2, <2>1, RecordFiredTyped, RowTyped DEF Base
  <2>3. \A b \in Chain \ {c} : chain'[b] = chain[b]
    BY <1>2, <2>1, ArmNextDoes DEF Base
  <2>4. SUFFICES ASSUME Open, Kept, row.enabled, NextRun(row.trigger, clock) # None
                 PROVE  \E b \in Chain : Watches(b, NextRun(row.trigger, clock))'
    BY <2>2 DEF Watched, Open, Kept
  <2>5. PICK b \in Chain : Watches(b, NextRun(row.trigger, clock))  BY <2>4 DEF Watched
  <2>6. CASE b # c  BY <2>2, <2>3, <2>5, <2>6 DEF Watches, IsFiring
  <2>7. CASE b = c
    <3>1. chain[c].saw = row.trigger
      BY <2>5, <2>7 DEF Watches, FireReturns
    <3>2. chain'[c].at = "armed" /\ chain'[c].due <= NextRun(row.trigger, clock)
      BY <1>2, <2>1, <2>4, <3>1, ArmNextWatches DEF Base, Open
    <3> QED  BY <2>2, <3>2 DEF Watches
  <2> QED  BY <2>6, <2>7
<1> QED  BY <1>1, <1>2 DEF FireReturns

LEMMA WatchedStep == Base /\ Watched /\ [Next]_vars => Watched'
<1> SUFFICES ASSUME Base, Watched, [Next]_vars PROVE Watched'  OBVIOUS
<1> USE DEF units, history, service
<1>1. ASSUME NEW enabled \in BOOLEAN, NEW trigger \in Trigger,
             Create(enabled, trigger) \/ Patch(enabled, trigger)
      PROVE  Watched'
  <2>1. /\ Upsert(enabled, trigger) /\ UNCHANGED <<clock, shutdown>>
        /\ ~shutdown /\ trigger \in AnyTrigger
    BY <1>1, RecordsTyped DEF Create, Patch, Open
  <2>2. row'.trigger = trigger /\ row'.enabled = enabled  BY <2>1, UpsertDoes DEF Base
  <2>3. CASE enabled
    <3>1. PICK c \in Chain : ArmNext(CancelTimer, c, trigger, 0)
      BY <2>1, <2>3, UpsertDoes DEF Base
    <3>2. CancelTimer \in [Chain -> ChainRecord]  BY CancelTimerTyped DEF Base
    <3>3. NextRun(trigger, clock) # None =>
            chain'[c].at = "armed" /\ chain'[c].due <= NextRun(trigger, clock)
      BY <2>1, <3>1, <3>2, ArmNextWatches DEF Base
    <3> QED  BY <2>1, <2>2, <3>3 DEF Watched, Watches
  <2> QED  BY <2>2, <2>3 DEF Watched
<1>2. CASE Delete
  BY <1>2 DEF Base, Delete, Typed, Row, Watched, Kept
<1>3. ASSUME NEW r \in Runner, Run(r) \/ RunReturns(r) PROVE Watched'
  <2>1. UNCHANGED <<clock, chain, boot, shutdown>>  BY <1>3 DEF Run, RunReturns
  <2>2. run[r].saw \in AnyTrigger  BY DEF Base, Typed, RunRecord
  <2>3. row'.trigger = row.trigger /\ row'.there = row.there /\ row'.enabled = row.enabled
    BY <1>3, <2>2, RecordFiredTyped, RowTyped DEF Base, Run, RunReturns
  <2> QED  BY <2>1, <2>3 DEF Watched, Watches, Open, Kept, IsFiring
<1>4. ASSUME NEW c \in Chain, Fire(c) \/ FireReturns(c) PROVE Watched'
  BY <1>4, FireWatched, FireReturnsWatched
<1>5. CASE Shutdown  BY <1>5 DEF Shutdown, Watched, Open
<1>6. CASE Crash  BY <1>6, DieTyped DEF Base, Crash, Watched, Open, Down
<1>7. CASE Recover
  <2>1. UNCHANGED <<clock, row, shutdown>> /\ ~shutdown
    BY <1>7 DEF Recover, Base, Sound, BootSound
  <2>2. CASE \E u \in Unit : boot' = [at |-> "recovering", now |-> clock, unit |-> u]
    BY <2>2 DEF Watched, Open
  <2>3. CASE IF Kept /\ row.enabled THEN ArmNext(chain, 1, row.trigger, 0) ELSE UNCHANGED <<chain, mapped>>
    <3>1. CASE Kept /\ row.enabled
      <4>1. /\ chain \in [Chain -> ChainRecord] /\ 1 \in Chain /\ row.trigger \in AnyTrigger
            /\ 0 \in Chain \cup {0}
        BY RowTyped, BoundsAssumption DEF Base, Typed, Chain
      <4>2. NextRun(row.trigger, clock) # None =>
              chain'[1].at = "armed" /\ chain'[1].due <= NextRun(row.trigger, clock)
        BY <2>1, <2>3, <3>1, <4>1, ArmNextWatches DEF Base
      <4> QED  BY <2>1, <4>1, <4>2 DEF Watched, Watches
    <3>2. CASE ~(Kept /\ row.enabled)  BY <2>1, <3>2 DEF Watched, Kept
    <3> QED  BY <3>1, <3>2
  <2> QED  BY <1>7, <2>2, <2>3 DEF Recover
<1>8. CASE RecoverReturns
  <2>1. /\ chain \in [Chain -> ChainRecord] /\ 1 \in Chain /\ row.trigger \in AnyTrigger
        /\ 0 \in Chain \cup {0} /\ boot.now \in Nat
        /\ UNCHANGED <<clock, shutdown>> /\ ~shutdown
    BY <1>8, RowTyped, BoundsAssumption
       DEF Base, Typed, Chain, RecoverReturns, BootRecord, Sound, BootSound
  <2>2. row'.trigger = row.trigger  BY <1>8, <2>1, RecordFiredTyped DEF Base, RecoverReturns
  <2>3. NextRun(row.trigger, clock) # None =>
          chain'[1].at = "armed" /\ chain'[1].due <= NextRun(row.trigger, clock)
    BY <1>8, <2>1, ArmNextWatches DEF Base, RecoverReturns
  <2> QED  BY <2>1, <2>2, <2>3 DEF Watched, Watches
<1>9. ASSUME NEW u \in Unit, TaskStep(u) PROVE Watched'
  BY <1>9 DEF TaskStep, Watched, Watches, Open, Kept, IsFiring
<1>10. CASE Tick
  <2>1. /\ clock' = clock + 1 /\ clock \in Nat /\ row.trigger \in AnyTrigger
        /\ UNCHANGED <<row, chain, boot, shutdown>>
    BY <1>10, RowTyped DEF Base, Tick
  <2> DEFINE now == NextRun(row.trigger, clock)
             then == NextRun(row.trigger, clock + 1)
  <2>2. then # None => now # None /\ now <= then  BY <2>1, NextRunLater
  <2>3. now \in 0..MaxTime /\ then \in 0..MaxTime  BY <2>1, NextRunTyped
  <2>4. (NextRun(row.trigger, clock))' = then  BY <2>1 DEF NextRun
  <2>5. \A c \in Chain : chain[c].due \in Nat  BY DEF Base, Typed, ChainRecord
  <2> HIDE DEF now, then
  <2>6. \A c \in Chain : then # None /\ Watches(c, now) => Watches(c, then)
    BY <2>2, <2>3, <2>5, BoundsAssumption DEF Watches
  <2>7. Open /\ Kept /\ row.enabled /\ then # None => \E c \in Chain : Watches(c, then)
    BY <2>2, <2>6 DEF Watched, now
  <2> QED  BY <2>1, <2>4, <2>7 DEF Watched, Watches, Open, Kept, IsFiring
<1>11. CASE UNCHANGED vars  BY <1>11 DEF vars, Watched, Watches, Open, Kept, IsFiring
<1> QED
  BY <1>1, <1>2, <1>3, <1>4, <1>5, <1>6, <1>7, <1>8, <1>9, <1>10, <1>11 DEF Next

-----------------------------------------------------------------------------
(* As long as no patch or delete meets a dispatch there is one chain, and    *)
(* whoever waits for a dispatch knows the trigger the row has.               *)

OneChain ==
    /\ \A b, c \in Chain : chain[b].at # "off" /\ chain[c].at # "off" => b = c
    /\ \A c \in Chain : chain[c].at = "armed" => mapped = c

OneBusy == \A u, v \in Busy : cause[u] > 0 /\ cause[v] > 0 => u = v

DeletedIdle == row.there = "deleted" => Busy = {}

FreshSaws ==
    /\ \A c \in Chain : IsFiring(c) => chain[c].saw = row.trigger
    /\ \A r \in Runner : Dispatching(r) => run[r].saw = row.trigger

NextKept == Kept /\ row.next > clock => row.next = NextRun(row.trigger, clock)

Solo == OneChain /\ OneBusy /\ DeletedIdle /\ FreshSaws /\ NextKept
SoloUnless == overlapped \/ Solo

LEMMA BusyLess ==
    ASSUME OneBusy, DeletedIdle, Busy' \subseteq Busy, UNCHANGED cause, row'.there = row.there
    PROVE  OneBusy' /\ DeletedIdle'
BY DEF OneBusy, DeletedIdle

\* When timers only change, the units under way are the same.
LEMMA SameBusy ==
    ASSUME TimersChange, UNCHANGED <<run, boot>>,
           \A u \in Unit : status'[u] = "running" <=> status[u] = "running"
    PROVE  /\ \A u \in Unit : UnderWay(u)' <=> UnderWay(u)
           /\ Busy' = Busy
<1>1. \A u \in Unit : UnderWay(u)' <=> UnderWay(u)  BY DEF UnderWay, TimersChange, IsFiring
<1> QED  BY <1>1 DEF Busy

LEMMA NoneUnderWay ==
    ASSUME Base, UnitsUnderWay = {}
    PROVE  (\A c \in Chain : ~IsFiring(c)) /\ (\A r \in Runner : ~Dispatching(r))
BY DEF Base, Sound, ChainsSound, RunsSound, UnitsUnderWay, UnderWay, IsFiring, Dispatching

\* With one chain and no fire, cancelTimer stops it.
LEMMA CancelTimerStops ==
    ASSUME Base, OneChain, \A c \in Chain : ~IsFiring(c)
    PROVE  \A c \in Chain : CancelTimer[c].at = "off"
BY CancelTimerTyped DEF Base, OneChain, IsFiring, Typed, ChainRecord, Idle

LEMMA ArmedAlone ==
    ASSUME Base, NEW chains \in [Chain -> ChainRecord], NEW c \in Chain,
           \A b \in Chain \ {c} : chains[b].at = "off",
           NEW trigger \in AnyTrigger, NEW inMap \in Chain \cup {0},
           ArmNext(chains, c, trigger, inMap)
    PROVE  OneChain' /\ \A b \in Chain : chain'[b].at # "firing"
<1>1. Idle.at = "off"  BY DEF Idle
<1>2. /\ \A b \in Chain \ {c} : chain'[b] = chains[b]
      /\ \/ chain'[c] = Idle
         \/ chain'[c].at = "armed" /\ mapped' = c
  BY ArmNextDoes DEF Base
<1> QED  BY <1>1, <1>2 DEF OneChain

LEMMA UpsertSolo ==
    ASSUME Base, Solo, NEW enabled \in BOOLEAN, NEW trigger \in Trigger,
           Upsert(enabled, trigger), UNCHANGED <<clock, run, boot, status, cause>>,
           \A c \in Chain : ~IsFiring(c), \A r \in Runner : ~Dispatching(r)
    PROVE  Solo'
<1>1. trigger \in AnyTrigger /\ 0 \in Chain \cup {0} /\ clock \in Nat
  BY RecordsTyped, RowTyped DEF Base
<1>2. /\ CancelTimer \in [Chain -> ChainRecord]
      /\ \A c \in Chain : CancelTimer[c].at = "off"
  BY CancelTimerTyped, CancelTimerStops DEF Base, Solo
<1>3. TimersChange  BY UpsertTimers DEF Base, Sound
<1>4. /\ row'.there = "kept" /\ row'.trigger = trigger
      /\ row'.next = IF enabled THEN NextRun(trigger, clock) ELSE None
      /\ \/ chain' = CancelTimer /\ mapped' = 0
         \/ \E c \in Chain : ArmNext(CancelTimer, c, trigger, 0)
  BY UpsertDoes DEF Base
<1>5. OneChain' /\ \A b \in Chain : chain'[b].at # "firing"
  <2>1. CASE chain' = CancelTimer  BY <1>2, <2>1 DEF OneChain
  <2>2. CASE \E c \in Chain : ArmNext(CancelTimer, c, trigger, 0)
    BY <1>1, <1>2, <2>2, ArmedAlone
  <2> QED  BY <1>4, <2>1, <2>2
<1>6. Busy' = Busy  BY <1>3, SameBusy
<1>7. OneBusy' /\ DeletedIdle'  BY <1>4, <1>6 DEF Solo, OneBusy, DeletedIdle
<1>8. FreshSaws'  BY <1>5 DEF FreshSaws, IsFiring, Dispatching
<1>9. NextKept'
  <2>1. (NextRun(row.trigger, clock))' = NextRun(trigger, clock)  BY <1>4 DEF NextRun
  <2>2. ~(None > clock)  BY <1>1 DEF None
  <2> QED  BY <1>4, <2>1, <2>2 DEF NextKept
<1> QED  BY <1>5, <1>7, <1>8, <1>9 DEF Solo

LEMMA DieSolo ==
    ASSUME Base, Solo, Die, row' = row
    PROVE  Solo'
<1>1. /\ chain' = [c \in Chain |-> Idle] /\ boot' = Down /\ clock' = clock
  BY DieTyped DEF Base
<1>2. Idle.at = "off" /\ Down.at = "down" /\ Ready.at = "ready" /\ Over.at = "over"
  BY DEF Idle, Down, Ready, Over
<1>3. \A r \in Runner : run'[r].at # "dispatching"  BY <1>2 DEF Die
<1>4. \A u \in Unit : status'[u] # "running"
  <2> SUFFICES ASSUME NEW u \in Unit PROVE status'[u] # "running"  OBVIOUS
  <2> QED  BY DEF Die
<1>5. Busy' = {}  BY <1>1, <1>2, <1>3, <1>4 DEF Busy, UnderWay
<1>6. OneChain' /\ OneBusy' /\ DeletedIdle' /\ FreshSaws'
  BY <1>1, <1>2, <1>3, <1>5 DEF OneChain, OneBusy, DeletedIdle, FreshSaws, IsFiring, Dispatching
<1>7. NextKept'  BY <1>1 DEF Solo, NextKept, NextRun, Kept
<1> QED  BY <1>6, <1>7 DEF Solo

LEMMA FireSolo ==
    ASSUME Base, Solo, NEW c \in Chain, Fire(c)
    PROVE  Solo'
<1>1. /\ chain[c].at = "armed" /\ boot.at = "up" /\ boot.at # "recovering"
      /\ UNCHANGED <<clock, row, run, boot>>
  BY DEF Fire, Base, Sound, BootSound
<1>2. /\ chain \in [Chain -> ChainRecord] /\ row.trigger \in AnyTrigger /\ 0 \in Chain \cup {0}
      /\ \A b \in Chain \ {c} : chain[b].at = "off"
      /\ \A b \in Chain : ~IsFiring(b)
  BY <1>1, RowTyped DEF Base, Typed, Solo, OneChain, IsFiring
<1>3. NextKept'  BY <1>1 DEF Solo, NextKept, NextRun, Kept
<1>4. CASE FireStops(c)
  <2>1. /\ chain' = [chain EXCEPT ![c] = Idle] /\ UNCHANGED <<cause, status>>
        /\ Idle.at = "off"
    BY <1>4 DEF FireStops, units, Idle
  <2>2. \A b \in Chain : chain'[b].at = "off"  BY <1>2, <2>1
  <2>3. Busy' \subseteq Busy  BY <1>1, <2>1, <2>2 DEF Busy, UnderWay
  <2> QED
    BY <1>1, <1>3, <2>1, <2>2, <2>3, BusyLess DEF Solo, OneChain, FreshSaws, IsFiring, Dispatching
<1>5. CASE FireSkips(c)
  <2>1. ArmNext(chain, c, row.trigger, 0) /\ UNCHANGED <<cause, status>>
    BY <1>5 DEF FireSkips, units
  <2>2. OneChain' /\ \A b \in Chain : chain'[b].at # "firing"  BY <1>2, <2>1, ArmedAlone
  <2>3. Busy' \subseteq Busy  BY <1>1, <2>1, <2>2 DEF Busy, UnderWay
  <2> QED
    BY <1>1, <1>3, <2>1, <2>2, <2>3, BusyLess DEF Solo, FreshSaws, IsFiring, Dispatching
<1>6. CASE FireDispatches(c)
  <2>1. PICK u \in Unit : Dispatch(u, chain[c].slot) /\ chain' = [chain EXCEPT ![c] = Firing(u)]
    BY <1>6 DEF FireDispatches
  <2>2. Kept /\ ~HasInFlight /\ status' = status  BY <1>6 DEF FireDispatches, FireAdmitted, Overlap
  <2>3. chain[c].slot \in -1..MaxTime
    BY <1>1, BoundsAssumption DEF Base, Sound, ChainsSound
  <2>4. cause[u] = Unused /\ \A v \in Unit \ {u} : cause'[v] = cause[v]
    BY <2>1, <2>3, DispatchTyped DEF Base
  <2>5. /\ chain'[c].at = "firing" /\ chain'[c].unit = u /\ chain'[c].saw = row.trigger
        /\ \A b \in Chain \ {c} : chain'[b].at = "off"
    BY <1>2, <2>1 DEF Firing
  <2>6. \A v \in Unit : v # u /\ UnderWay(v)' => cause'[v] = Manual
    BY <1>1, <2>4, <2>5 DEF UnderWay, Base, Sound, RunsSound, Dispatching
  <2>7. OneBusy'
    BY <2>2, <2>6 DEF OneBusy, Busy, HasInFlight, Manual
  <2>8. OneChain' /\ DeletedIdle' /\ FreshSaws'
    BY <1>1, <2>2, <2>5 DEF Solo, OneChain, DeletedIdle, FreshSaws, IsFiring, Dispatching, Kept
  <2> QED  BY <1>3, <2>7, <2>8 DEF Solo
<1> QED  BY <1>4, <1>5, <1>6 DEF Fire

LEMMA FireReturnsSolo ==
    ASSUME Base, Solo, NEW c \in Chain, FireReturns(c)
    PROVE  Solo'
<1>1. CASE Die /\ UNCHANGED row  BY <1>1, DieSolo
<1>2. CASE /\ RecordFired(chain[c].saw, clock) /\ ArmNext(chain, c, chain[c].saw, mapped)
           /\ UNCHANGED <<clock, run, boot, shutdown, units, history, patches>>
  <2>1. /\ chain[c].saw = row.trigger /\ mapped \in Chain \cup {0}
        /\ chain[c].saw \in AnyTrigger /\ chain \in [Chain -> ChainRecord] /\ clock \in Nat
        /\ \A b \in Chain \ {c} : chain[b].at = "off"
        /\ UNCHANGED <<clock, run, boot, status, cause>>
    BY <1>2, RowTyped
       DEF FireReturns, Base, Typed, ChainRecord, Solo, FreshSaws, OneChain, IsFiring, units
  <2>2. /\ row'.there = row.there /\ row'.trigger = row.trigger
        /\ row'.next = NextRun(row.trigger, clock)
    BY <1>2, <2>1, RecordFiredTyped DEF Base
  <2>3. OneChain' /\ \A b \in Chain : chain'[b].at # "firing"
    BY <1>2, <2>1, ArmedAlone
  <2>4. Busy' \subseteq Busy  BY <2>1, <2>3 DEF Busy, UnderWay
  <2>5. OneBusy' /\ DeletedIdle'  BY <2>1, <2>2, <2>4, BusyLess DEF Solo
  <2>6. FreshSaws'  BY <2>1, <2>2, <2>3 DEF Solo, FreshSaws, IsFiring, Dispatching
  <2>7. NextKept'
    <3>1. (NextRun(row.trigger, clock))' = NextRun(row.trigger, clock)  BY <2>1, <2>2 DEF NextRun
    <3> QED  BY <2>2, <3>1 DEF NextKept
  <2> QED  BY <2>3, <2>5, <2>6, <2>7 DEF Solo
<1> QED  BY <1>1, <1>2 DEF FireReturns

LEMMA RunSolo ==
    ASSUME Base, Solo, NEW r \in Runner, Run(r)
    PROVE  Solo'
<1>1. PICK u \in Unit :
        /\ Dispatch(u, Manual)
        /\ run' = [run EXCEPT ![r] = [at |-> "dispatching", saw |-> row.trigger, unit |-> u]]
  BY DEF Run
<1>2. Kept /\ UNCHANGED <<clock, row, chain, mapped, boot, status>>  BY DEF Run
<1>3. Manual \in -1..MaxTime  BY BoundsAssumption DEF Manual
<1>4. /\ cause[u] = Unused /\ cause'[u] = Manual
      /\ \A v \in Unit \ {u} : cause'[v] = cause[v]
  BY <1>1, <1>3, DispatchTyped DEF Base
<1>5. /\ run'[r].saw = row.trigger /\ run'[r].unit = u
      /\ \A q \in Runner \ {r} : run'[q] = run[q]
  BY <1>1 DEF Base, Typed
<1>6. Busy' \subseteq Busy \cup {u}  BY <1>2, <1>5 DEF Busy, UnderWay
<1>7. OneBusy'  BY <1>4, <1>6 DEF Solo, OneBusy, Manual, Busy
<1>8. OneChain' /\ DeletedIdle' /\ FreshSaws'
  BY <1>2, <1>5 DEF Solo, OneChain, DeletedIdle, FreshSaws, IsFiring, Dispatching, Kept
<1>9. NextKept'  BY <1>2 DEF Solo, NextKept, NextRun, Kept
<1> QED  BY <1>7, <1>8, <1>9 DEF Solo

LEMMA RunReturnsSolo ==
    ASSUME Base, Solo, NEW r \in Runner, RunReturns(r)
    PROVE  Solo'
<1>1. /\ run[r].saw = row.trigger /\ run[r].saw \in AnyTrigger /\ clock \in Nat
      /\ run' = [run EXCEPT ![r] = Over]
      /\ UNCHANGED <<clock, chain, mapped, boot, status, cause>>
  BY RowTyped DEF RunReturns, Base, Typed, RunRecord, Solo, FreshSaws, Dispatching, units
<1>2. run'[r].at = "over" /\ \A q \in Runner \ {r} : run'[q] = run[q]
  BY <1>1 DEF Base, Typed, Over
<1>3. /\ row'.there = row.there /\ row'.trigger = row.trigger
      /\ row' = row \/ row'.next = NextRun(row.trigger, clock)
  BY <1>1, RecordFiredTyped DEF Base, RunReturns
<1>4. Busy' \subseteq Busy  BY <1>1, <1>2 DEF Busy, UnderWay
<1>5. OneBusy' /\ DeletedIdle'  BY <1>1, <1>3, <1>4, BusyLess DEF Solo
<1>6. OneChain' /\ FreshSaws'
  BY <1>1, <1>2, <1>3 DEF Solo, OneChain, FreshSaws, IsFiring, Dispatching
<1>7. NextKept'
  <2>1. (NextRun(row.trigger, clock))' = NextRun(row.trigger, clock)  BY <1>1, <1>3 DEF NextRun
  <2> QED  BY <1>1, <1>3, <2>1 DEF Solo, NextKept, Kept
<1> QED  BY <1>5, <1>6, <1>7 DEF Solo

LEMMA RecoverSolo ==
    ASSUME Base, Solo, Recover
    PROVE  Solo'
<1>1. /\ boot.at = "down" /\ UNCHANGED <<clock, row, run, status>>
      /\ \A b \in Chain : chain[b].at = "off"
      /\ \A r \in Runner : ~Dispatching(r)
      /\ \A u \in Unit : status[u] # "running"
  BY DEF Recover, Base, Sound, BootSound, UnitsSound
<1>2. NextKept'  BY <1>1 DEF Solo, NextKept, NextRun, Kept
<1>3. CASE /\ Kept
           /\ \E u \in Unit : boot' = [at |-> "recovering", now |-> clock, unit |-> u]
           /\ UNCHANGED <<chain, mapped>>
  <2>1. PICK u \in Unit : boot' = [at |-> "recovering", now |-> clock, unit |-> u]  BY <1>3
  <2>2. Busy' \subseteq {u}  BY <1>1, <1>3, <2>1 DEF Busy, UnderWay, Dispatching
  <2>3. OneBusy' /\ DeletedIdle'  BY <1>1, <1>3, <2>2 DEF OneBusy, DeletedIdle, Kept
  <2> QED
    BY <1>1, <1>2, <1>3, <2>3 DEF Solo, OneChain, FreshSaws, IsFiring, Dispatching
<1>4. CASE /\ boot' = Up /\ UNCHANGED cause
           /\ ArmNext(chain, 1, row.trigger, 0) \/ UNCHANGED <<chain, mapped>>
  <2>1. /\ chain \in [Chain -> ChainRecord] /\ 1 \in Chain /\ row.trigger \in AnyTrigger
        /\ 0 \in Chain \cup {0}
    BY RowTyped, BoundsAssumption DEF Base, Typed, Chain
  <2>2. OneChain' /\ \A b \in Chain : chain'[b].at # "firing"
    <3>1. CASE ArmNext(chain, 1, row.trigger, 0)  BY <1>1, <2>1, <3>1, ArmedAlone
    <3>2. CASE UNCHANGED <<chain, mapped>>  BY <1>1, <3>2 DEF OneChain
    <3> QED  BY <1>4, <3>1, <3>2
  <2>3. Busy' = {}  BY <1>1, <1>4, <2>2 DEF Busy, UnderWay, Dispatching, Up
  <2> QED  BY <1>1, <1>2, <2>2, <2>3 DEF Solo, OneBusy, DeletedIdle, FreshSaws, IsFiring, Dispatching
<1> QED  BY <1>3, <1>4 DEF Recover

LEMMA RecoverReturnsSolo ==
    ASSUME Base, Solo, RecoverReturns
    PROVE  Solo'
<1>1. /\ boot.at = "recovering" /\ boot.now \in Nat /\ boot.now <= clock /\ clock \in Nat
      /\ UNCHANGED <<clock, run, status, cause>>
      /\ \A b \in Chain : chain[b].at = "off"
      /\ \A r \in Runner : ~Dispatching(r)
  BY RowTyped DEF RecoverReturns, Base, Sound, BootSound, Typed, BootRecord, units
<1>2. /\ chain \in [Chain -> ChainRecord] /\ 1 \in Chain /\ row.trigger \in AnyTrigger
      /\ 0 \in Chain \cup {0}
  BY RowTyped, BoundsAssumption DEF Base, Typed, Chain
<1>3. OneChain' /\ \A b \in Chain : chain'[b].at # "firing"
  BY <1>1, <1>2, ArmedAlone DEF RecoverReturns
<1>4. /\ row'.there = row.there /\ row'.trigger = row.trigger
      /\ row'.next = NextRun(row.trigger, boot.now)
  BY <1>1, <1>2, RecordFiredTyped DEF Base, RecoverReturns
<1>5. Busy' \subseteq Busy
  BY <1>1, <1>3 DEF Busy, UnderWay, Dispatching, RecoverReturns, Up
<1>6. OneBusy' /\ DeletedIdle'  BY <1>1, <1>4, <1>5, BusyLess DEF Solo
<1>7. FreshSaws'  BY <1>1, <1>3 DEF FreshSaws, IsFiring, Dispatching
<1>8. NextKept'
  <2>1. (NextRun(row.trigger, clock))' = NextRun(row.trigger, clock)  BY <1>1, <1>4 DEF NextRun
  <2>2. NextRun(row.trigger, boot.now) > clock =>
          NextRun(row.trigger, clock) = NextRun(row.trigger, boot.now)
    BY <1>1, <1>2, NextRunLater
  <2> QED  BY <1>1, <1>4, <2>1, <2>2 DEF NextKept
<1> QED  BY <1>3, <1>6, <1>7, <1>8 DEF Solo

LEMMA SoloStep == Base /\ SoloUnless /\ [Next]_vars => SoloUnless'
<1> SUFFICES ASSUME Base, SoloUnless, [Next]_vars PROVE SoloUnless'  OBVIOUS
<1> USE DEF units, history, service
<1>0. overlapped \in BOOLEAN  BY DEF Base, Typed
<1>1. ASSUME NEW enabled \in BOOLEAN, NEW trigger \in Trigger, Create(enabled, trigger)
      PROVE  SoloUnless'
  <2>1. /\ Upsert(enabled, trigger) /\ UNCHANGED <<clock, run, boot, status, cause, overlapped>>
        /\ \A c \in Chain : ~IsFiring(c)
        /\ \A r \in Runner : ~Dispatching(r)
    BY <1>1 DEF Create, Base, Sound, UnbornSound, IsFiring
  <2> QED  BY <2>1, UpsertSolo DEF SoloUnless
<1>2. ASSUME NEW enabled \in BOOLEAN, NEW trigger \in Trigger, Patch(enabled, trigger)
      PROVE  SoloUnless'
  <2>1. /\ Upsert(enabled, trigger) /\ UNCHANGED <<clock, run, boot, status, cause>>
        /\ overlapped' = (overlapped \/ UnitsUnderWay # {})
    BY <1>2 DEF Patch, Overlapping
  <2> QED  BY <2>1, UpsertSolo, NoneUnderWay DEF SoloUnless
<1>3. CASE Delete
  <2>1. /\ ~HasInFlight /\ Kept /\ chain' = CancelTimer /\ mapped' = 0
        /\ overlapped' = (overlapped \/ UnitsUnderWay # {})
        /\ UNCHANGED <<clock, run, boot, cause>> /\ row'.there = "deleted"
    BY <1>3 DEF Delete, MayDelete, Overlapping, Base, Typed, Row
  <2>2. SUFFICES ASSUME Solo, UnitsUnderWay = {} PROVE Solo'
    BY <1>0, <2>1 DEF SoloUnless
  <2>3. \A u \in Unit : status'[u] = "running" <=> status[u] = "running"
    BY <1>3 DEF Delete, Ledger!Outcomes, Base, Typed
  <2>4. TimersChange  BY <2>1, CancelTimerTimers DEF Base, Sound
  <2>5. Busy' = Busy  BY <2>1, <2>3, <2>4, SameBusy
  <2>6. Busy = {}  BY <2>1, <2>2 DEF Busy, HasInFlight, UnitsUnderWay
  <2>7. \A c \in Chain : chain'[c].at = "off"
    BY <2>1, <2>2, NoneUnderWay, CancelTimerStops DEF Solo
  <2>8. \A r \in Runner : ~Dispatching(r)  BY <2>2, NoneUnderWay
  <2> QED
    BY <2>1, <2>5, <2>6, <2>7, <2>8
       DEF Solo, OneChain, OneBusy, DeletedIdle, FreshSaws, NextKept, Kept, IsFiring, Dispatching
<1>4. ASSUME NEW r \in Runner, Run(r) \/ RunReturns(r) PROVE SoloUnless'
  BY <1>4, RunSolo, RunReturnsSolo DEF SoloUnless, Run, RunReturns
<1>5. ASSUME NEW c \in Chain, Fire(c) PROVE SoloUnless'
  BY <1>5, FireSolo DEF SoloUnless, Fire
<1>6. ASSUME NEW c \in Chain, FireReturns(c) PROVE SoloUnless'
  <2>1. overlapped' = overlapped  BY <1>6, DieTyped DEF FireReturns, Base
  <2> QED  BY <1>6, <2>1, FireReturnsSolo DEF SoloUnless
<1>7. CASE Shutdown
  <2>1. /\ UNCHANGED <<clock, row, run, boot, status, cause, overlapped>>
        /\ chain' = CancelTimer /\ mapped' = 0
    BY <1>7 DEF Shutdown
  <2>2. SUFFICES ASSUME Solo PROVE Solo'  BY <2>1 DEF SoloUnless
  <2>3. TimersChange  BY <2>1, CancelTimerTimers DEF Base, Sound
  <2>4. Busy' = Busy  BY <2>1, <2>3, SameBusy
  <2>5. /\ \A c \in Chain : chain'[c] = IF c = mapped THEN Idle ELSE chain[c]
        /\ Idle.at = "off"
    BY <2>1, CancelTimerTyped DEF Base, Idle
  <2>6. OneChain'
    BY <2>1, <2>2, <2>5 DEF Solo, OneChain
  <2>7. OneBusy' /\ DeletedIdle'  BY <2>1, <2>2, <2>4 DEF Solo, OneBusy, DeletedIdle
  <2>8. FreshSaws'
    BY <2>1, <2>2, <2>3 DEF Solo, FreshSaws, TimersChange, IsFiring, Dispatching
  <2>9. NextKept'  BY <2>1, <2>2 DEF Solo, NextKept, NextRun, Kept
  <2> QED  BY <2>6, <2>7, <2>8, <2>9 DEF Solo
<1>8. CASE Crash
  <2>1. Die /\ UNCHANGED row /\ overlapped' = overlapped  BY <1>8, DieTyped DEF Crash, Base
  <2> QED  BY <2>1, DieSolo DEF SoloUnless
<1>9. CASE Recover \/ RecoverReturns
  BY <1>9, RecoverSolo, RecoverReturnsSolo DEF SoloUnless, Recover, RecoverReturns
<1>10. ASSUME NEW u \in Unit, TaskStep(u) PROVE SoloUnless'
  <2>1. UNCHANGED <<clock, row, chain, mapped, run, boot, cause, overlapped>>
    BY <1>10 DEF TaskStep
  <2>2. SUFFICES ASSUME Solo PROVE Solo'  BY <2>1 DEF SoloUnless
  <2>3. \A v \in Unit : UnderWay(v)' <=> UnderWay(v)  BY <2>1 DEF UnderWay
  <2>4. \A v \in Unit : status'[v] = "running" => status[v] = "running" \/ UnderWay(v)
    BY <1>10 DEF TaskStep, Ledger!Begin, Ledger!Refuse, Ledger!End, Ledger!Outcomes,
                 Base, Typed, Sound, UnitsSound
  <2>5. Busy' \subseteq Busy  BY <2>3, <2>4 DEF Busy
  <2>6. OneBusy' /\ DeletedIdle'  BY <2>1, <2>2, <2>5, BusyLess DEF Solo
  <2> QED
    BY <2>1, <2>2, <2>6
       DEF Solo, OneChain, FreshSaws, NextKept, NextRun, Kept, IsFiring, Dispatching
<1>11. CASE Tick
  <2>1. /\ clock' = clock + 1 /\ clock \in Nat /\ clock <= clock + 1 /\ clock + 1 \in Nat
        /\ row.trigger \in AnyTrigger /\ row.next \in Nat
        /\ UNCHANGED <<row, chain, mapped, run, boot, status, cause, overlapped>>
    BY <1>11, RowTyped DEF Base, Tick
  <2>2. SUFFICES ASSUME Solo PROVE Solo'  BY <2>1 DEF SoloUnless
  <2>3. Busy' = Busy  BY <2>1 DEF Busy, UnderWay
  <2>4. NextKept'
    <3>1. (NextRun(row.trigger, clock))' = NextRun(row.trigger, clock + 1)  BY <2>1 DEF NextRun
    <3>2. NextRun(row.trigger, clock) > clock + 1 =>
            NextRun(row.trigger, clock + 1) = NextRun(row.trigger, clock)
      BY <2>1, NextRunLater
    <3>3. row.next > clock + 1 => row.next > clock  BY <2>1
    <3> QED  BY <2>1, <2>2, <3>1, <3>2, <3>3 DEF Solo, NextKept, Kept
  <2> QED
    BY <2>1, <2>2, <2>3, <2>4
       DEF Solo, OneChain, OneBusy, DeletedIdle, FreshSaws, IsFiring, Dispatching
<1>12. CASE UNCHANGED vars
  <2>1. UNCHANGED <<clock, row, chain, mapped, run, boot, status, cause, overlapped>>
    BY <1>12 DEF vars
  <2>2. Busy' = Busy  BY <2>1 DEF Busy, UnderWay
  <2> QED
    BY <2>1, <2>2 DEF SoloUnless, Solo, OneChain, OneBusy, DeletedIdle, FreshSaws, NextKept,
                      NextRun, Kept, IsFiring, Dispatching
<1> QED
  BY <1>1, <1>2, <1>3, <1>4, <1>5, <1>6, <1>7, <1>8, <1>9, <1>10, <1>11, <1>12 DEF Next

LEMMA InitWatchedSolo == Init => Watched /\ SoloUnless
<1> SUFFICES ASSUME Init PROVE Watched /\ Solo  BY DEF SoloUnless
<1>1. /\ \A c \in Chain : chain[c].at = "off"
      /\ \A r \in Runner : ~Dispatching(r)
      /\ row.there = "unborn" /\ boot.at = "up"
  BY DEF Init, Idle, Ready, Dispatching, Up
<1>2. Busy = {}  BY <1>1 DEF Init, Busy, UnderWay, Dispatching
<1> QED  BY <1>1, <1>2 DEF Watched, Kept, Solo, OneChain, OneBusy, DeletedIdle, FreshSaws,
                           NextKept, IsFiring, Dispatching

IInv == Typed /\ Sound /\ Watched /\ SoloUnless

LEMMA Inductive == Spec => []IInv
<1>1. Init => IInv  BY InitTyped, InitSound, InitWatchedSolo DEF IInv
<1>2. IInv /\ [Next]_vars => IInv'
  BY TypeStep, SoundStep, WatchedStep, SoloStep DEF IInv, Base
<1> QED  BY <1>1, <1>2, PTL DEF Spec

-----------------------------------------------------------------------------
(* The theorems *)

\* Of the units dispatched for slots at most one is on its way or at work, as
\* long as no patch or delete meets a dispatch (concurrency 1 of fire()).
THEOREM SlotsTakeTurns == Spec => []OneAtATime
<1>1. IInv => OneAtATime
  <2> SUFFICES ASSUME IInv, ~overlapped PROVE OneAtATimeAlways  BY DEF OneAtATime
  <2> DEFINE S == {u \in Busy : cause[u] > 0}
  <2>1. \A u, v \in S : u = v  BY DEF IInv, SoloUnless, Solo, OneBusy
  <2>2. S = {} \/ \E u \in S : S = {u}  BY <2>1
  <2>3. Cardinality(S) = 0 \/ Cardinality(S) = 1
    <3> HIDE DEF S
    <3> QED  BY <2>2, FS_EmptySet, FS_Singleton
  <2> QED  BY <2>3 DEF OneAtATimeAlways
<1> QED  BY <1>1, Inductive, PTL

\* An enabled schedule always has a timer that is due in time, or a fire that
\* re-arms it, whatever patches, runs and restarts came before.
THEOREM SlotStaysWatched == Spec => []SlotIsWatched
<1>1. IInv => SlotIsWatched
  BY DEF IInv, Watched, Watches, SlotIsWatched, IsFiring
<1> QED  BY <1>1, Inductive, PTL

\* A next_fire_at in the future is the next slot of the trigger, as long as no
\* patch or delete meets a dispatch.
THEOREM NextStaysNext == Spec => []NextIsNextRun
<1>1. IInv => NextIsNextRun  BY DEF IInv, SoloUnless, Solo, NextKept, NextIsNextRun
<1> QED  BY <1>1, Inductive, PTL

\* A deleted schedule leaves no unit on its way or at work, as long as the
\* delete meets no dispatch (the guards of delete).
THEOREM DeleteLeavesNothing == Spec => []NoOrphanDispatch
<1>1. IInv => NoOrphanDispatch
  BY DEF IInv, SoloUnless, Solo, DeletedIdle, NoOrphanDispatch, NoOrphanDispatchAlways
<1> QED  BY <1>1, Inductive, PTL

\* Nothing is dispatched for a schedule that is disabled, deleted or shut down,
\* not even by a timer that cancelTimer could not reach.
THEOREM LostTimersAreHarmless == Spec => LostTimersStartNothing
<1>1. IInv /\ [Next]_vars =>
        [\A u \in Unit : cause[u] = Unused /\ cause'[u] > 0 => ~shutdown /\ Kept /\ row.enabled]_vars
  <2> SUFFICES ASSUME IInv, Next, NEW u \in Unit, cause[u] = Unused, cause'[u] > 0
               PROVE  ~shutdown /\ Kept /\ row.enabled
    OBVIOUS
  <2>1. ~(cause[u] > 0)  BY DEF Unused
  <2>2. \A r \in Runner : ~Run(r)
    <3> SUFFICES ASSUME NEW r \in Runner, Run(r) PROVE FALSE  OBVIOUS
    <3>1. PICK v \in Unit : Dispatch(v, Manual)  BY DEF Run
    <3>2. cause' = [cause EXCEPT ![v] = Manual]  BY <3>1 DEF Dispatch
    <3> QED  BY <2>1, <3>2 DEF Manual, IInv, Typed
  <2>3. CASE \E c \in Chain : Fire(c)
    BY <2>1, <2>3 DEF Fire, FireStops, FireSkips, FireDispatches, FireAdmitted, units
  <2>4. CASE Recover
    BY <2>1, <2>4 DEF Recover, IInv, Sound, BootSound
  <2>5. CASE UNCHANGED cause  BY <2>1, <2>5
  <2> QED
    BY <2>2, <2>3, <2>4, <2>5
       DEF Next, Create, Patch, Delete, RunReturns, FireReturns, Shutdown, Crash, RecoverReturns,
           TaskStep, Tick, Die, units
<1> QED  BY <1>1, Inductive, PTL DEF Spec, LostTimersStartNothing

-----------------------------------------------------------------------------
(* Slots come in order, provided setTimeout can wait as long as it is asked. *)

TimersInOrder ==
    \A c \in Chain : chain[c].at = "armed" =>
        /\ chain[c].due = chain[c].slot /\ chain[c].slot \in row.trigger
        /\ \A u \in Unit : cause[u] < chain[c].slot

\* The next fire is after every slot somebody was dispatched for, but for a
\* dispatch that is still under way or was cut off.
NextInOrder ==
    Kept /\ row.next # None =>
        /\ row.next \in row.trigger
        /\ \A u \in Unit \ cut : UnderWay(u) \/ cause[u] < row.next

CausesInOrder ==
    /\ \A u \in Unit : cause[u] <= clock
    /\ boot.at = "recovering" => \A u \in Unit : cause[u] <= boot.now
    /\ \A u, v \in Unit \ cut : cause[u] = cause[v] /\ cause[u] > 0 => u = v

InOrder == TimersInOrder /\ NextInOrder /\ CausesInOrder
InOrderUnless == overlapped \/ InOrder

LEMMA NextRunAfter ==
    ASSUME NEW trigger \in AnyTrigger, NEW after \in Nat, NextRun(trigger, after) # None
    PROVE  /\ NextRun(trigger, after) \in trigger /\ NextRun(trigger, after) > after
           /\ NextRun(trigger, after) \in Nat
BY NextRunIsNext

LEMMA ArmNextInOrder ==
    ASSUME MaxTime <= MaxDelay, Typed, CausesInOrder,
           NEW chains \in [Chain -> ChainRecord], NEW c \in Chain,
           \A b \in Chain \ {c} : chains[b].at # "armed",
           NEW trigger \in AnyTrigger, NEW inMap \in Chain \cup {0},
           ArmNext(chains, c, trigger, inMap), row'.trigger = trigger, cause' = cause
    PROVE  TimersInOrder'
<1>1. \A b \in Chain \ {c} : chain'[b].at # "armed"  BY ArmNextDoes
<1>2. clock \in Nat /\ clock \in 1..MaxTime /\ \A u \in Unit : cause[u] \in Int /\ cause[u] <= clock
  BY RowTyped DEF CausesInOrder, Typed
<1> DEFINE slot == NextRun(trigger, clock)
<1>3. CASE shutdown \/ slot = None
  <2>1. chain'[c] = Idle  BY <1>3 DEF ArmNext, Typed
  <2> QED  BY <1>1, <2>1 DEF TimersInOrder, Idle
<1>4. CASE ~(shutdown \/ slot = None)
  <2>1. chain' = [chains EXCEPT ![c] = Timer(slot)]  BY <1>4 DEF ArmNext
  <2>2. slot \in trigger /\ slot > clock /\ slot \in 1..MaxTime
    BY <1>2, <1>4, NextRunIsNext
  <2> HIDE DEF slot
  <2>3. ~(slot - clock > MaxDelay)  BY <1>2, <2>2, BoundsAssumption
  <2>4. Timer(slot).due = slot /\ Timer(slot).slot = slot  BY <2>3 DEF Timer
  <2>5. chain'[c].due = slot /\ chain'[c].slot = slot  BY <2>1, <2>4
  <2>6. \A u \in Unit : cause[u] < slot  BY <1>2, <2>2
  <2> QED  BY <1>1, <2>2, <2>5, <2>6 DEF TimersInOrder
<1> QED  BY <1>3, <1>4

\* A next_fire_at after the clock, or after every cause, is in order.
LEMMA RecordedInOrder ==
    ASSUME Typed, NEW after \in Nat, \A u \in Unit : cause[u] <= after,
           row.trigger \in AnyTrigger,
           row'.trigger \in AnyTrigger, row'.next = None \/ row'.next = NextRun(row'.trigger, after),
           cause' = cause
    PROVE  NextInOrder'
<1>1. \A u \in Unit : cause[u] \in Int  BY DEF Typed
<1>2. CASE row'.next # None
  <2>1. row'.next \in row'.trigger /\ row'.next > after /\ row'.next \in Nat
    BY <1>2, NextRunAfter
  <2> QED  BY <1>1, <2>1 DEF NextInOrder
<1> QED  BY <1>2 DEF NextInOrder

LEMMA UpsertInOrder ==
    ASSUME MaxTime <= MaxDelay, IInv, Solo, InOrder, NEW enabled \in BOOLEAN, NEW trigger \in Trigger,
           Upsert(enabled, trigger), UNCHANGED <<clock, run, boot, status, cause, cut>>,
           \A c \in Chain : ~IsFiring(c)
    PROVE  InOrder'
<1>1. /\ trigger \in AnyTrigger /\ row.trigger \in AnyTrigger /\ 0 \in Chain \cup {0}
      /\ clock \in Nat /\ Base /\ Typed
  BY RecordsTyped, RowTyped DEF IInv, Base
<1>2. /\ CancelTimer \in [Chain -> ChainRecord]
      /\ \A c \in Chain : CancelTimer[c].at = "off"
  BY <1>1, CancelTimerTyped, CancelTimerStops DEF Solo
<1>3. /\ row'.trigger = trigger
      /\ row'.next = IF enabled THEN NextRun(trigger, clock) ELSE None
      /\ \/ chain' = CancelTimer
         \/ \E c \in Chain : ArmNext(CancelTimer, c, trigger, 0)
  BY <1>1, UpsertDoes
<1>4. TimersInOrder'
  <2>1. CASE chain' = CancelTimer  BY <1>2, <2>1 DEF TimersInOrder
  <2>2. CASE \E c \in Chain : ArmNext(CancelTimer, c, trigger, 0)
    BY <1>1, <1>2, <1>3, <2>2, ArmNextInOrder DEF InOrder
  <2> QED  BY <1>3, <2>1, <2>2
<1>5. NextInOrder'  BY <1>1, <1>3, RecordedInOrder DEF InOrder, CausesInOrder
<1>6. CausesInOrder'  BY DEF InOrder, CausesInOrder
<1> QED  BY <1>4, <1>5, <1>6 DEF InOrder

LEMMA DieInOrder ==
    ASSUME IInv, InOrder, Die, row' = row
    PROVE  InOrder'
<1>1. /\ chain' = [c \in Chain |-> Idle] /\ boot' = Down /\ clock' = clock /\ cause' = cause
      /\ cut' = cut \cup UnitsUnderWay
      /\ Idle.at = "off" /\ Down.at = "down"
  BY DieTyped DEF IInv, Die, Idle, Down
<1>2. TimersInOrder'  BY <1>1 DEF TimersInOrder
<1>3. NextInOrder'  BY <1>1 DEF InOrder, NextInOrder, UnitsUnderWay, Kept
<1>4. CausesInOrder'  BY <1>1 DEF InOrder, CausesInOrder
<1> QED  BY <1>2, <1>3, <1>4 DEF InOrder

LEMMA FireInOrder ==
    ASSUME MaxTime <= MaxDelay, IInv, Solo, InOrder, NEW c \in Chain, Fire(c)
    PROVE  InOrder'
<1>1. /\ chain[c].at = "armed" /\ boot.at = "up" /\ chain[c].due <= clock
      /\ UNCHANGED <<clock, row, run, boot, cut>> /\ Typed
  BY DEF Fire, IInv, Sound, BootSound, history
<1>2. /\ chain \in [Chain -> ChainRecord] /\ row.trigger \in AnyTrigger /\ 0 \in Chain \cup {0}
      /\ \A b \in Chain \ {c} : chain[b].at = "off"
  BY <1>1, RowTyped DEF Typed, Solo, OneChain
<1>3. \A v \in Unit : UnderWay(v) => \E r \in Runner : run[r].at = "dispatching" /\ run[r].unit = v
  BY <1>1, <1>2 DEF UnderWay
<1>4. \A v \in Unit : UnderWay(v) => UnderWay(v)'
  BY <1>1, <1>3 DEF UnderWay
<1>5. CASE FireStops(c)
  <2>1. chain' = [chain EXCEPT ![c] = Idle] /\ cause' = cause /\ Idle.at = "off"
    BY <1>5 DEF FireStops, units, Idle
  <2>2. TimersInOrder'  BY <1>2, <2>1 DEF TimersInOrder
  <2> QED  BY <1>1, <1>4, <2>1, <2>2 DEF InOrder, NextInOrder, CausesInOrder, Kept
<1>6. CASE FireSkips(c)
  <2>1. ArmNext(chain, c, row.trigger, 0) /\ cause' = cause
    BY <1>6 DEF FireSkips, units
  <2>2. TimersInOrder'  BY <1>1, <1>2, <2>1, ArmNextInOrder DEF InOrder
  <2> QED  BY <1>1, <1>4, <2>1, <2>2 DEF InOrder, NextInOrder, CausesInOrder, Kept
<1>7. CASE FireDispatches(c)
  <2>1. PICK u \in Unit : Dispatch(u, chain[c].slot) /\ chain' = [chain EXCEPT ![c] = Firing(u)]
    BY <1>7 DEF FireDispatches
  <2>2. chain[c].slot \in -1..MaxTime /\ chain[c].slot \in 1..MaxTime /\ clock \in Nat
    BY <1>1, BoundsAssumption, RowTyped DEF IInv, Sound, ChainsSound
  <2>3. /\ cause[u] = Unused /\ cause'[u] = chain[c].slot
        /\ \A v \in Unit \ {u} : cause'[v] = cause[v]
    BY <1>1, <2>1, <2>2, DispatchTyped
  <2>4. chain[c].slot <= clock /\ \A v \in Unit : cause[v] < chain[c].slot /\ cause[v] \in Int
    BY <1>1 DEF InOrder, TimersInOrder, Typed
  <2>5. /\ chain'[c].at = "firing" /\ chain'[c].unit = u
        /\ \A b \in Chain \ {c} : chain'[b].at = "off"
    BY <1>2, <2>1 DEF Firing
  <2>6. TimersInOrder'  BY <2>5 DEF TimersInOrder
  <2>7. UnderWay(u)'  BY <2>5 DEF UnderWay
  <2>8. NextInOrder'
    BY <1>1, <1>4, <2>3, <2>7 DEF InOrder, NextInOrder, Kept
  <2>9. CausesInOrder'
    BY <1>1, <2>2, <2>3, <2>4 DEF InOrder, CausesInOrder
  <2> QED  BY <2>6, <2>8, <2>9 DEF InOrder
<1> QED  BY <1>5, <1>6, <1>7 DEF Fire

LEMMA FireReturnsInOrder ==
    ASSUME MaxTime <= MaxDelay, IInv, Solo, InOrder, NEW c \in Chain, FireReturns(c)
    PROVE  InOrder'
<1>1. CASE Die /\ UNCHANGED row  BY <1>1, DieInOrder
<1>2. CASE /\ RecordFired(chain[c].saw, clock) /\ ArmNext(chain, c, chain[c].saw, mapped)
           /\ UNCHANGED <<clock, run, boot, shutdown, units, history, patches>>
  <2>1. /\ chain[c].saw = row.trigger /\ mapped \in Chain \cup {0}
        /\ row.trigger \in AnyTrigger /\ chain \in [Chain -> ChainRecord] /\ clock \in Nat
        /\ \A b \in Chain \ {c} : chain[b].at # "armed"
        /\ UNCHANGED <<clock, boot, cause, cut>> /\ Typed
    BY <1>2, RowTyped
       DEF FireReturns, IInv, Typed, Solo, FreshSaws, OneChain, IsFiring, units, history
  <2>2. row'.trigger = row.trigger /\ row'.next = NextRun(row.trigger, clock)
    BY <1>2, <2>1, RecordFiredTyped
  <2>3. TimersInOrder'  BY <1>2, <2>1, <2>2, ArmNextInOrder DEF InOrder
  <2>4. NextInOrder'  BY <2>1, <2>2, RecordedInOrder DEF InOrder, CausesInOrder
  <2>5. CausesInOrder'  BY <2>1 DEF InOrder, CausesInOrder
  <2> QED  BY <2>3, <2>4, <2>5 DEF InOrder
<1> QED  BY <1>1, <1>2 DEF FireReturns

LEMMA RunInOrder ==
    ASSUME IInv, InOrder, NEW r \in Runner, Run(r)
    PROVE  InOrder'
<1>1. PICK u \in Unit :
        /\ Dispatch(u, Manual)
        /\ run' = [run EXCEPT ![r] = [at |-> "dispatching", saw |-> row.trigger, unit |-> u]]
  BY DEF Run
<1>2. /\ UNCHANGED <<clock, row, chain, mapped, boot, status, cut>> /\ run[r].at = "ready"
      /\ boot.at # "recovering" /\ Typed /\ clock \in Nat
  BY RowTyped DEF Run, history, Open, IInv
<1>3. Manual \in -1..MaxTime  BY BoundsAssumption DEF Manual
<1>4. /\ cause'[u] = Manual
      /\ \A v \in Unit \ {u} : cause'[v] = cause[v]
  BY <1>1, <1>2, <1>3, DispatchTyped
<1>5. /\ run'[r].at = "dispatching" /\ run'[r].unit = u
      /\ \A q \in Runner \ {r} : run'[q] = run[q]
  BY <1>1, <1>2 DEF Typed
<1>6. UnderWay(u)' /\ \A v \in Unit : UnderWay(v) => UnderWay(v)'  BY <1>2, <1>5 DEF UnderWay
<1>7. TimersInOrder'
  <2>1. \A c \in Chain : chain[c].slot \in Nat  BY <1>2 DEF Typed, ChainRecord
  <2> QED  BY <1>2, <1>4, <2>1 DEF InOrder, TimersInOrder, Manual
<1>8. NextInOrder'  BY <1>2, <1>4, <1>6 DEF InOrder, NextInOrder, Kept
<1>9. CausesInOrder'  BY <1>2, <1>4 DEF InOrder, CausesInOrder, Manual
<1> QED  BY <1>7, <1>8, <1>9 DEF InOrder

LEMMA RunReturnsInOrder ==
    ASSUME IInv, Solo, InOrder, NEW r \in Runner, RunReturns(r)
    PROVE  InOrder'
<1>1. /\ run[r].saw = row.trigger /\ row.trigger \in AnyTrigger /\ clock \in Nat
      /\ run' = [run EXCEPT ![r] = Over] /\ Typed
      /\ run[r].unit \in Unit /\ cause[run[r].unit] = Manual
      /\ UNCHANGED <<clock, chain, mapped, boot, status, cause, cut>>
  BY RowTyped
     DEF RunReturns, IInv, Sound, RunsSound, Solo, FreshSaws, Dispatching, units, history
<1>2. \A q \in Runner \ {r} : run'[q] = run[q]  BY <1>1 DEF Typed
<1>3. TimersInOrder' /\ CausesInOrder'
  <2>1. row'.trigger = row.trigger
    BY <1>1, RecordFiredTyped DEF RunReturns
  <2> QED  BY <1>1, <2>1 DEF InOrder, TimersInOrder, CausesInOrder
<1>4. NextInOrder'
  <2>1. CASE row' = row
    <3>1. \A v \in Unit : UnderWay(v) => UnderWay(v)' \/ v = run[r].unit
      BY <1>1, <1>2 DEF UnderWay
    <3>2. row.next # None => Manual < row.next  BY <1>1, RowTyped DEF Manual, None
    <3> QED  BY <1>1, <2>1, <3>1, <3>2 DEF InOrder, NextInOrder, Kept
  <2>2. CASE RecordFired(row.trigger, clock)
    <3>1. row'.trigger = row.trigger /\ row'.next = NextRun(row.trigger, clock)
      BY <1>1, <2>2, RecordFiredTyped
    <3> QED  BY <1>1, <3>1, RecordedInOrder DEF InOrder, CausesInOrder
  <2> QED  BY <1>1, <2>1, <2>2 DEF RunReturns
<1> QED  BY <1>3, <1>4 DEF InOrder

LEMMA RecoverInOrder ==
    ASSUME MaxTime <= MaxDelay, IInv, InOrder, Recover
    PROVE  InOrder'
<1>1. /\ boot.at = "down" /\ UNCHANGED <<clock, row, run, status, cut>>
      /\ \A b \in Chain : chain[b].at = "off"
      /\ \A r \in Runner : ~Dispatching(r)
      /\ Typed /\ clock \in Nat /\ row.trigger \in AnyTrigger
  BY RowTyped DEF Recover, IInv, Sound, BootSound, history
<1>2. \A v \in Unit : ~UnderWay(v)  BY <1>1 DEF UnderWay, Dispatching
<1>3. CASE /\ Kept /\ row.next # None /\ row.next <= clock
           /\ \E u \in Unit : /\ Dispatch(u, row.next)
                              /\ boot' = [at |-> "recovering", now |-> clock, unit |-> u]
           /\ UNCHANGED <<chain, mapped>>
  <2>1. PICK u \in Unit : /\ Dispatch(u, row.next)
                          /\ boot' = [at |-> "recovering", now |-> clock, unit |-> u]
    BY <1>3
  <2>2. row.next \in 1..MaxTime /\ row.next \in -1..MaxTime
    BY <1>1, <1>3, RowTyped, BoundsAssumption DEF None
  <2>3. /\ cause'[u] = row.next
        /\ \A v \in Unit \ {u} : cause'[v] = cause[v]
    BY <1>1, <2>1, <2>2, DispatchTyped
  <2>4. boot'.at = "recovering" /\ boot'.now = clock /\ boot'.unit = u  BY <2>1
  <2>5. \A v \in Unit : cause[v] <= clock /\ cause[v] \in Int
    BY <1>1 DEF InOrder, CausesInOrder, Typed
  <2>6. \A v \in Unit \ cut : cause[v] < row.next
    BY <1>2, <1>3 DEF InOrder, NextInOrder
  <2>7. UnderWay(u)'  BY <2>4 DEF UnderWay
  <2>8. TimersInOrder'  BY <1>1, <1>3 DEF TimersInOrder
  <2>9. NextInOrder'
    BY <1>1, <1>3, <2>3, <2>6, <2>7 DEF InOrder, NextInOrder, Kept
  <2>10. CausesInOrder'
    BY <1>1, <1>3, <2>2, <2>3, <2>4, <2>5, <2>6 DEF InOrder, CausesInOrder
  <2> QED  BY <2>8, <2>9, <2>10 DEF InOrder
<1>4. CASE /\ boot' = Up /\ UNCHANGED cause
           /\ ArmNext(chain, 1, row.trigger, 0) \/ UNCHANGED <<chain, mapped>>
  <2>1. chain \in [Chain -> ChainRecord] /\ 1 \in Chain /\ 0 \in Chain \cup {0}
    BY <1>1, BoundsAssumption DEF Typed, Chain
  <2>2. TimersInOrder'
    <3>1. CASE ArmNext(chain, 1, row.trigger, 0)
      BY <1>1, <1>4, <2>1, <3>1, ArmNextInOrder DEF InOrder
    <3>2. CASE UNCHANGED <<chain, mapped>>  BY <1>1, <3>2 DEF TimersInOrder
    <3> QED  BY <1>4, <3>1, <3>2
  <2>3. NextInOrder'  BY <1>1, <1>2, <1>4 DEF InOrder, NextInOrder, Kept
  <2>4. CausesInOrder'  BY <1>1, <1>4 DEF InOrder, CausesInOrder, Up
  <2> QED  BY <2>2, <2>3, <2>4 DEF InOrder
<1> QED  BY <1>3, <1>4 DEF Recover

LEMMA RecoverReturnsInOrder ==
    ASSUME MaxTime <= MaxDelay, IInv, InOrder, RecoverReturns
    PROVE  InOrder'
<1>1. /\ boot.at = "recovering" /\ boot.now \in Nat /\ clock \in Nat
      /\ UNCHANGED <<clock, run, status, cause, cut>>
      /\ \A b \in Chain : chain[b].at = "off"
      /\ Typed /\ row.trigger \in AnyTrigger
  BY RowTyped DEF RecoverReturns, IInv, Sound, BootSound, Typed, BootRecord, units, history
<1>2. chain \in [Chain -> ChainRecord] /\ 1 \in Chain /\ 0 \in Chain \cup {0}
  BY <1>1, BoundsAssumption DEF Typed, Chain
<1>3. row'.trigger = row.trigger /\ row'.next = NextRun(row.trigger, boot.now)
  BY <1>1, RecordFiredTyped DEF RecoverReturns
<1>4. TimersInOrder'
  BY <1>1, <1>2, <1>3, ArmNextInOrder DEF InOrder, RecoverReturns
<1>5. NextInOrder'  BY <1>1, <1>3, RecordedInOrder DEF InOrder, CausesInOrder
<1>6. CausesInOrder'  BY <1>1 DEF InOrder, CausesInOrder, RecoverReturns, Up
<1> QED  BY <1>4, <1>5, <1>6 DEF InOrder

LEMMA InOrderStep ==
    ASSUME MaxTime <= MaxDelay
    PROVE  IInv /\ InOrderUnless /\ [Next]_vars => InOrderUnless'
<1> SUFFICES ASSUME IInv, InOrderUnless, [Next]_vars PROVE InOrderUnless'  OBVIOUS
<1> USE DEF units, history, service
<1>0. overlapped \in BOOLEAN /\ (overlapped \/ Solo) /\ Base /\ Typed
  BY DEF IInv, Typed, SoloUnless, Base
<1>1. ASSUME NEW enabled \in BOOLEAN, NEW trigger \in Trigger, Create(enabled, trigger)
      PROVE  InOrderUnless'
  <2>1. /\ Upsert(enabled, trigger) /\ UNCHANGED <<clock, run, boot, status, cause, cut, overlapped>>
        /\ \A c \in Chain : ~IsFiring(c)
    BY <1>1 DEF Create, IInv, Sound, UnbornSound, IsFiring
  <2> QED  BY <1>0, <2>1, UpsertInOrder DEF InOrderUnless
<1>2. ASSUME NEW enabled \in BOOLEAN, NEW trigger \in Trigger, Patch(enabled, trigger)
      PROVE  InOrderUnless'
  <2>1. /\ Upsert(enabled, trigger) /\ UNCHANGED <<clock, run, boot, status, cause, cut>>
        /\ overlapped' = (overlapped \/ UnitsUnderWay # {})
    BY <1>2 DEF Patch, Overlapping
  <2> QED  BY <1>0, <2>1, UpsertInOrder, NoneUnderWay DEF InOrderUnless
<1>3. CASE Delete
  <2>1. /\ chain' = CancelTimer /\ row'.there = "deleted"
        /\ overlapped' = (overlapped \/ UnitsUnderWay # {})
        /\ UNCHANGED <<clock, boot, cause, cut>>
    BY <1>0, <1>3 DEF Delete, Overlapping, Typed, Row
  <2>2. SUFFICES ASSUME Solo, InOrder, UnitsUnderWay = {} PROVE InOrder'
    BY <1>0, <2>1 DEF InOrderUnless
  <2>3. \A c \in Chain : chain'[c].at = "off"
    BY <1>0, <2>1, <2>2, NoneUnderWay, CancelTimerStops DEF Solo
  <2> QED
    BY <2>1, <2>2, <2>3 DEF InOrder, TimersInOrder, NextInOrder, CausesInOrder, Kept
<1>4. ASSUME NEW r \in Runner, Run(r) \/ RunReturns(r) PROVE InOrderUnless'
  BY <1>0, <1>4, RunInOrder, RunReturnsInOrder DEF InOrderUnless, Run, RunReturns
<1>5. ASSUME NEW c \in Chain, Fire(c) PROVE InOrderUnless'
  BY <1>0, <1>5, FireInOrder DEF InOrderUnless, Fire
<1>6. ASSUME NEW c \in Chain, FireReturns(c) PROVE InOrderUnless'
  <2>1. overlapped' = overlapped  BY <1>0, <1>6, DieTyped DEF FireReturns
  <2> QED  BY <1>0, <1>6, <2>1, FireReturnsInOrder DEF InOrderUnless
<1>7. CASE Shutdown
  <2>1. /\ UNCHANGED <<clock, row, run, boot, status, cause, cut, overlapped>>
        /\ chain' = CancelTimer
    BY <1>7 DEF Shutdown
  <2>2. SUFFICES ASSUME InOrder PROVE InOrder'  BY <2>1 DEF InOrderUnless
  <2>3. /\ TimersChange
        /\ \A c \in Chain : chain'[c] = IF c = mapped THEN Idle ELSE chain[c]
    BY <1>7, <2>1, CancelTimerTyped, CancelTimerTimers DEF IInv, Sound, Shutdown
  <2>4. \A u \in Unit : UnderWay(u)' <=> UnderWay(u)
    BY <2>1, <2>3 DEF UnderWay, TimersChange, IsFiring
  <2> QED
    BY <2>1, <2>2, <2>3, <2>4
       DEF InOrder, TimersInOrder, NextInOrder, CausesInOrder, Kept, Idle
<1>8. CASE Crash
  <2>1. Die /\ UNCHANGED row /\ overlapped' = overlapped  BY <1>0, <1>8, DieTyped DEF Crash
  <2> QED  BY <2>1, DieInOrder DEF InOrderUnless
<1>9. CASE Recover \/ RecoverReturns
  BY <1>9, RecoverInOrder, RecoverReturnsInOrder DEF InOrderUnless, Recover, RecoverReturns
<1>10. CASE (\E u \in Unit : TaskStep(u)) \/ UNCHANGED vars
  <2>1. UNCHANGED <<clock, row, chain, mapped, run, boot, cause, cut, overlapped>>
    BY <1>10 DEF TaskStep, vars
  <2>2. \A u \in Unit : UnderWay(u)' <=> UnderWay(u)  BY <2>1 DEF UnderWay
  <2> QED
    BY <2>1, <2>2
       DEF InOrderUnless, InOrder, TimersInOrder, NextInOrder, CausesInOrder, Kept
<1>11. CASE Tick
  <2>1. /\ clock' = clock + 1 /\ clock \in Nat /\ \A u \in Unit : cause[u] \in Int
        /\ UNCHANGED <<row, chain, mapped, run, boot, cause, cut, overlapped>>
    BY <1>0, <1>11, RowTyped DEF Tick, Typed
  <2>2. \A u \in Unit : UnderWay(u)' <=> UnderWay(u)  BY <2>1 DEF UnderWay
  <2>3. CausesInOrder => CausesInOrder'  BY <2>1 DEF CausesInOrder
  <2>4. TimersInOrder => TimersInOrder'  BY <2>1 DEF TimersInOrder
  <2>5. NextInOrder => NextInOrder'  BY <2>1, <2>2 DEF NextInOrder, Kept
  <2> QED  BY <2>1, <2>3, <2>4, <2>5 DEF InOrderUnless, InOrder
<1> QED
  BY <1>1, <1>2, <1>3, <1>4, <1>5, <1>6, <1>7, <1>8, <1>9, <1>10, <1>11 DEF Next

LEMMA InOrderAlways ==
    ASSUME MaxTime <= MaxDelay
    PROVE  Spec => [](IInv /\ InOrderUnless)
<1>1. Init => InOrderUnless
  BY BoundsAssumption DEF Init, InOrderUnless, InOrder, TimersInOrder, NextInOrder, CausesInOrder,
                          Idle, Up, Unused, Kept
<1>2. IInv /\ InOrderUnless /\ [Next]_vars => InOrderUnless'  BY InOrderStep
<1> QED  BY <1>1, <1>2, Inductive, PTL DEF Spec

\* Each slot is dispatched for once, by its timer or by the catch-up, unless a
\* crash cut the dispatch off or a patch or delete met one.
THEOREM SlotsAreDispatchedOnce ==
    ASSUME MaxTime <= MaxDelay
    PROVE  Spec => []SlotOnce
<1>1. InOrderUnless => SlotOnce  BY DEF InOrderUnless, InOrder, CausesInOrder, SlotOnce
<1> QED  BY <1>1, InOrderAlways, PTL

\* A unit is dispatched for a slot of the trigger the row has and not before
\* its time, if setTimeout can wait as long as it is asked to.
THEOREM FiresAreOnTime ==
    ASSUME MaxTime <= MaxDelay
    PROVE  Spec => FiresOnTime
<1>1. IInv /\ InOrderUnless /\ [Next]_vars =>
        [\A u \in Unit : cause[u] = Unused /\ cause'[u] > 0 => overlapped \/ SlotIsDue(u)]_vars
  <2> SUFFICES ASSUME IInv, InOrder, Next, NEW u \in Unit, cause[u] = Unused, cause'[u] > 0
               PROVE  SlotIsDue(u)
    BY DEF InOrderUnless
  <2>1. ~(cause[u] > 0)  BY DEF Unused
  <2>2. \A v \in Unit, for \in -1..MaxTime : Dispatch(v, for) => for = cause'[u]
    BY <2>1, DispatchTyped DEF IInv
  <2>3. CASE \E r \in Runner : Run(r)
    <3>1. Manual \in -1..MaxTime  BY BoundsAssumption DEF Manual
    <3> QED  BY <2>2, <2>3, <3>1 DEF Run, Manual
  <2>4. ASSUME NEW c \in Chain, Fire(c) PROVE SlotIsDue(u)
    <3>1. chain[c].slot \in -1..MaxTime  BY BoundsAssumption DEF IInv, Typed, ChainRecord
    <3>2. FireDispatches(c)
      BY <2>1, <2>4 DEF Fire, FireStops, FireSkips, units
    <3>3. cause'[u] = chain[c].slot  BY <2>2, <3>1, <3>2 DEF FireDispatches
    <3> QED  BY <2>4, <3>3 DEF Fire, InOrder, TimersInOrder, SlotIsDue
  <2>5. CASE Recover
    <3>1. row.next \in -1..MaxTime  BY RowTyped, BoundsAssumption DEF IInv
    <3>2. Kept /\ row.next # None /\ row.next <= clock /\ cause'[u] = row.next
      BY <2>1, <2>2, <2>5, <3>1 DEF Recover
    <3> QED  BY <3>2 DEF InOrder, NextInOrder, SlotIsDue
  <2>6. CASE UNCHANGED cause  BY <2>1, <2>6
  <2> QED
    BY <2>3, <2>4, <2>5, <2>6
       DEF Next, Create, Patch, Delete, RunReturns, FireReturns, Shutdown, Crash, RecoverReturns,
           TaskStep, Tick, Die, units
<1> QED  BY <1>1, InOrderAlways, PTL DEF Spec, FiresOnTime
=============================================================================
