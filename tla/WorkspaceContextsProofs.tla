---------------------- MODULE WorkspaceContextsProofs ----------------------
(***************************************************************************)
(* Proofs about WorkspaceContexts, for any number of requests, tasks and    *)
(* contexts.  What makes the registry safe is that a close is seen through   *)
(* before anything else can happen: ClosersInTurn.                          *)
(***************************************************************************)
EXTENDS WorkspaceContexts, TLAPS

OneOfTwo == entries = None \/ inflight = None

\* How far a context is, what it holds open, and where the registry has it.
Stages ==
    \A c \in Context :
        /\ Loading(c) <=> c = inflight
        /\ opened[c] # {} => c = entries \/ c = inflight
        /\ c = entries => opened[c] = Module
        /\ context[c].at = "starting" => opened[c] = {}
        /\ context[c].at = "recovering" => opened[c] = Module \ {"workflow"}

TicksInOpen == \A c \in Context : <<c, "tick">> \in work => opened[c] = Module

\* Whoever closes a context finds it in the registry, or closed by another
\* and the registry empty.
ClosersInTurn ==
    \A k \in Call : call[k].at = "closing" =>
        /\ call[k].ctx \in Context
        /\ context[call[k].ctx].at = "ready"
        /\ entries = call[k].ctx \/ (entries = None /\ opened[call[k].ctx] = {})

RunningIsOwned == \A t \in Task : status[t] = "running" => owner[t] \in Context

UsersHaveOne == \A k \in Call : call[k].at \in {"loading", "using"} => call[k].ctx \in Context

IInv ==
    /\ TypeOK /\ OneOfTwo /\ Stages /\ TicksInOpen
    /\ ClosersInTurn /\ UsersHaveOne /\ RunningIsOwned

-----------------------------------------------------------------------------
(* What a step of a call may do *)

NewLoad ==
    \E c \in Context :
        /\ context[c].at = "unused" /\ inflight = None
        /\ context' = [context EXCEPT ![c] = [at |-> "starting", name |-> row.name]]
        /\ inflight' = c
SameLoad == UNCHANGED <<context, inflight>>

Others(k, calls) == \A j \in Call \ {k} : call'[j] = calls[j]

LEMMA LoadDoes ==
    ASSUME TypeOK, NEW k \in Call, NEW calls \in [Call -> CallRecord], Load(calls, k)
    PROVE  /\ call' \in [Call -> CallRecord] /\ Others(k, calls) /\ call'[k].op = calls[k].op
           /\ call'[k].at = "over" \/ (call'[k].at = "loading" /\ call'[k].ctx \in Context)
           /\ SameLoad \/ NewLoad
<1>1. CASE inflight # None /\ call' = [calls EXCEPT ![k].at = "loading", ![k].ctx = inflight] /\ SameLoad
  <2>1. inflight \in Context \cup {None}  BY DEF TypeOK
  <2>2. calls[k] \in CallRecord  OBVIOUS
  <2> QED  BY <1>1, <2>1, <2>2 DEF CallRecord, Others
<1>2. CASE inflight = None /\ StartLoad(calls, k)
  <2>1. CASE call' = [calls EXCEPT ![k].at = "over"] /\ SameLoad
    BY <2>1 DEF CallRecord, Others
  <2>2. ASSUME NEW c \in Context, FirstUnused(c), inflight' = c,
               context' = [context EXCEPT ![c] = [at |-> "starting", name |-> row.name]],
               call' = [calls EXCEPT ![k].at = "loading", ![k].ctx = c]
        PROVE  /\ call' \in [Call -> CallRecord] /\ Others(k, calls) /\ call'[k].op = calls[k].op
               /\ call'[k].at = "loading" /\ call'[k].ctx = c /\ NewLoad
    <3>1. NewLoad  BY <1>2, <2>2 DEF NewLoad, FirstUnused
    <3> QED  BY <2>2, <3>1 DEF CallRecord, Others
  <2> QED  BY <1>2, <2>1, <2>2 DEF StartLoad, SameLoad
<1> QED  BY <1>1, <1>2 DEF Load, SameLoad

LEMMA FinishDoes ==
    ASSUME TypeOK, NEW k \in Call, NEW calls \in [Call -> CallRecord], Finish(calls, k)
    PROVE  /\ call' \in [Call -> CallRecord] /\ Others(k, calls) /\ call'[k].op = calls[k].op
           /\ call'[k].at = "over" \/ (call'[k].at = "loading" /\ call'[k].ctx \in Context)
           /\ SameLoad \/ NewLoad
<1>1. CASE calls[k].op = "reload"  BY <1>1, LoadDoes DEF Finish
<1>2. CASE calls[k].op # "reload"
  BY <1>2 DEF Finish, CallRecord, Others, SameLoad
<1> QED  BY <1>1, <1>2

\* Get, and what invalidate, reload and closeAll do before they wait.
CallStep(k) ==
    /\ call' \in [Call -> CallRecord] /\ Others(k, call)
    /\ call'[k].at # "ready"
    /\ call'[k].at = "closing" => entries # None /\ call'[k].ctx = entries
    /\ call'[k].at \in {"loading", "using"} => call'[k].ctx \in Context
    /\ SameLoad \/ (NewLoad /\ entries = None)

\* calls is call with a note of the operation at k.
Noted(calls, k) == calls \in [Call -> CallRecord] /\ \A j \in Call \ {k} : calls[j] = call[j]

LEMMA CloseEntryDoes ==
    ASSUME TypeOK, NEW k \in Call, NEW calls, Noted(calls, k), CloseEntry(calls, k)
    PROVE  CallStep(k) /\ call'[k].op = calls[k].op
<1>0. calls \in [Call -> CallRecord]  BY DEF Noted
<1>1. CASE entries = None /\ Finish(calls, k)
  BY <1>0, <1>1, FinishDoes DEF CallStep, Others, Noted
<1>2. CASE entries # None /\ CloseEntry(calls, k)
  <2>1. PICK at \in {"over", "closing"} :
            call' = [calls EXCEPT ![k].at = at, ![k].ctx = entries] /\ SameLoad
    BY <1>2 DEF CloseEntry, SameLoad
  <2>2. entries \in Context \cup {None}  BY DEF TypeOK
  <2>3. calls[k] \in CallRecord  BY <1>0
  <2>4. [calls[k] EXCEPT !.at = at, !.ctx = entries] \in CallRecord
    BY <2>2, <2>3 DEF CallRecord
  <2>5. /\ call' \in [Call -> CallRecord]
        /\ call'[k].at = at /\ call'[k].ctx = entries /\ call'[k].op = calls[k].op
        /\ \A j \in Call \ {k} : call'[j] = calls[j]
    BY <1>0, <2>1, <2>3, <2>4 DEF CallRecord
  <2> QED  BY <1>2, <2>1, <2>5 DEF CallStep, Others, Noted
<1> QED  BY <1>1, <1>2 DEF CloseEntry

LEMMA EvictDoes ==
    ASSUME TypeOK, NEW k \in Call, NEW calls, Noted(calls, k), Evict(calls, k)
    PROVE  CallStep(k) /\ call'[k].op = calls[k].op
<1>1. CASE inflight = None /\ CloseEntry(calls, k)  BY <1>1, CloseEntryDoes
<1>2. CASE inflight # None /\ call' = [calls EXCEPT ![k].at = "draining", ![k].ctx = inflight] /\ SameLoad
  <2>1. inflight \in Context \cup {None}  BY DEF TypeOK
  <2>2. calls \in [Call -> CallRecord] /\ calls[k] \in CallRecord  BY DEF Noted
  <2>3. [calls[k] EXCEPT !.at = "draining", !.ctx = inflight] \in CallRecord
    BY <2>1, <2>2 DEF CallRecord
  <2>4. /\ call' \in [Call -> CallRecord]
        /\ call'[k].at = "draining" /\ call'[k].op = calls[k].op
        /\ \A j \in Call \ {k} : call'[j] = calls[j]
    BY <1>2, <2>2, <2>3 DEF CallRecord
  <2> QED  BY <1>2, <2>4 DEF CallStep, Others, Noted
<1> QED  BY <1>1, <1>2 DEF Evict, SameLoad

LEMMA CallStepKeeps ==
    ASSUME IInv, NEW k \in Call, CallStep(k), UNCHANGED <<entries, opened, work, tasks>>,
           row' \in [registered : BOOLEAN, name : Nat],
           server' \in {"serving", "stopping", "closing", "closed"},
           stopped' \in Context \cup {None}
    PROVE  IInv'
<1> USE DEF None
<1>0. UsersHaveOne'  BY DEF CallStep, Others, IInv, UsersHaveOne
<1>1. CASE SameLoad
  <2>1. TypeOK'
    <3>1. entries' # None => context'[entries'].at = "ready"  BY <1>1 DEF IInv, TypeOK, SameLoad
    <3>2. inflight' # None => Loading(inflight)'  BY <1>1 DEF IInv, TypeOK, SameLoad, Loading
    <3> QED  BY <1>1, <3>1, <3>2 DEF IInv, TypeOK, SameLoad, CallStep, tasks
  <2>2. OneOfTwo' /\ Stages' /\ TicksInOpen' /\ RunningIsOwned'
    BY <1>1 DEF IInv, OneOfTwo, Stages, TicksInOpen, RunningIsOwned, SameLoad, Loading, tasks
  <2>3. ClosersInTurn'
    <3> SUFFICES ASSUME NEW j \in Call, call'[j].at = "closing"
                 PROVE  /\ call'[j].ctx \in Context
                        /\ context[call'[j].ctx].at = "ready"
                        /\ \/ entries = call'[j].ctx
                           \/ entries = None /\ opened[call'[j].ctx] = {}
      BY <1>1 DEF ClosersInTurn, SameLoad
    <3>1. CASE j = k  BY <3>1 DEF CallStep, IInv, TypeOK
    <3>2. CASE j # k
      <4>1. call'[j] = call[j]  BY <3>2 DEF CallStep, Others
      <4> QED  BY <4>1 DEF IInv, ClosersInTurn
    <3> QED  BY <3>1, <3>2
  <2> QED  BY <1>0, <2>1, <2>2, <2>3 DEF IInv
<1>2. CASE NewLoad /\ entries = None
  <2>1. PICK c \in Context :
            /\ context[c].at = "unused" /\ inflight = None
            /\ context' = [context EXCEPT ![c] = [at |-> "starting", name |-> row.name]]
            /\ inflight' = c
    BY <1>2 DEF NewLoad
  <2>2. c # None  BY DEF Context
  <2>3. context \in [Context -> ContextRecord] /\ row.name \in Nat  BY DEF IInv, TypeOK
  <2>4. context' \in [Context -> ContextRecord]  BY <2>1, <2>3 DEF ContextRecord
  <2>5. context'[c].at = "starting" /\ \A b \in Context \ {c} : context'[b] = context[b]
    BY <2>1, <2>3
  <2>6. \A b \in Context : ~Loading(b) /\ opened[b] = {}
    BY <1>2, <2>1, <2>2 DEF IInv, Stages, Context
  <2>7. TypeOK'
    <3>1. inflight' # None => Loading(inflight)'  BY <2>1, <2>5 DEF Loading
    <3> QED  BY <1>2, <2>1, <2>4, <3>1 DEF IInv, TypeOK, CallStep, tasks
  <2>8. OneOfTwo' /\ TicksInOpen' /\ RunningIsOwned'
    BY <1>2 DEF IInv, OneOfTwo, TicksInOpen, RunningIsOwned, tasks
  <2>9. Stages'
    <3>1. \A b \in Context : b # None  BY DEF Context
    <3>2. entries' = None /\ inflight' = c /\ opened' = opened  BY <1>2, <2>1
    <3>3. \A b \in Context : Loading(b)' <=> b = c  BY <2>5, <2>6 DEF Loading
    <3>4. \A b \in Context : context'[b].at # "recovering"  BY <2>5, <2>6 DEF Loading
    <3> QED  BY <2>6, <3>1, <3>2, <3>3, <3>4 DEF Stages
  <2>10. ClosersInTurn'
    <3> SUFFICES ASSUME NEW j \in Call, call'[j].at = "closing"
                 PROVE  /\ call'[j].ctx \in Context
                        /\ context'[call'[j].ctx].at = "ready"
                        /\ entries = None /\ opened[call'[j].ctx] = {}
      BY <1>2 DEF ClosersInTurn
    <3>1. j # k  BY <1>2 DEF CallStep
    <3>2. call'[j] = call[j]  BY <3>1 DEF CallStep, Others
    <3>3. call[j].ctx \in Context /\ context[call[j].ctx].at = "ready"
      BY <3>2 DEF IInv, ClosersInTurn
    <3>4. call[j].ctx # c  BY <2>1, <3>3
    <3> QED  BY <1>2, <2>5, <2>6, <3>2, <3>3, <3>4
  <2> QED  BY <1>0, <2>7, <2>8, <2>9, <2>10 DEF IInv
<1> QED  BY <1>1, <1>2 DEF CallStep

-----------------------------------------------------------------------------
(* The invariant *)

LEMMA InitInv == Init => IInv
<1> SUFFICES ASSUME Init PROVE IInv  OBVIOUS
<1>1. \A c \in Context : c # None  BY DEF Context, None
<1>2. TypeOK  BY DEF Init, TypeOK, CallRecord, ContextRecord, None
<1> QED  BY <1>1, <1>2 DEF Init, IInv, OneOfTwo, Stages, TicksInOpen, ClosersInTurn, UsersHaveOne, RunningIsOwned, Loading

\* A continuation that is due, and the close of a context in particular.
LEMMA CloseKeeps ==
    ASSUME IInv, NEW k \in Call, CloseReturns(k)
    PROVE  IInv'
<1> USE DEF None
<1> DEFINE c0 == call[k].ctx
<1>0. TypeOK /\ call \in [Call -> CallRecord]  BY DEF IInv, TypeOK
<1>1. /\ call' \in [Call -> CallRecord] /\ Others(k, call)
      /\ call'[k].at = "over" \/ (call'[k].at = "loading" /\ call'[k].ctx \in Context)
      /\ SameLoad \/ NewLoad
  BY <1>0, FinishDoes DEF CloseReturns
<1>2. /\ c0 \in Context /\ context[c0].at = "ready"
      /\ entries = c0 \/ (entries = None /\ opened[c0] = {})
  BY DEF CloseReturns, IInv, ClosersInTurn
<1>3. \A c \in Context : c # None  BY DEF Context
<1>4. entries' = None /\ opened' = [opened EXCEPT ![c0] = {}]  BY DEF CloseReturns
<1>5. opened'[c0] = {} /\ \A c \in Context \ {c0} : opened'[c] = opened[c]
  BY <1>0, <1>2, <1>4 DEF TypeOK
<1>6. <<c0, "tick">> \notin work  BY <1>2 DEF CloseReturns, Due, CloseDue
<1>7. ~Loading(c0) /\ inflight # c0  BY <1>2 DEF IInv, Stages, Loading
<1>8. \A c \in Context : opened'[c] # {} => c = inflight
  BY <1>2, <1>3, <1>5 DEF IInv, Stages
<1>9. UNCHANGED <<row, work, tasks, server, stopped>>  BY DEF CloseReturns
<1>10. PICK d \in Context \cup {None} :
          /\ inflight' = d
          /\ context' \in [Context -> ContextRecord]
          /\ \A c \in Context : context'[c] = context[c] \/ (c = d /\ context[c].at = "unused")
          /\ d # None => Loading(d)'
          /\ \/ d = inflight /\ SameLoad
             \/ inflight = None /\ d # None /\ context'[d].at = "starting"
  <2>1. CASE SameLoad
    <3>1. inflight \in Context \cup {None} /\ context \in [Context -> ContextRecord]
      BY <1>0 DEF TypeOK
    <3>2. inflight # None => context'[inflight].at \in {"starting", "recovering"}
      BY <2>1, <1>0 DEF SameLoad, TypeOK, Loading
    <3>3. inflight' = inflight /\ context' = context  BY <2>1 DEF SameLoad
    <3> QED  BY <2>1, <3>1, <3>2, <3>3 DEF Loading
  <2>2. CASE NewLoad
    <3>1. PICK c \in Context :
              /\ context[c].at = "unused" /\ inflight = None
              /\ context' = [context EXCEPT ![c] = [at |-> "starting", name |-> row.name]]
              /\ inflight' = c
      BY <2>2 DEF NewLoad
    <3>2. context \in [Context -> ContextRecord] /\ row.name \in Nat  BY <1>0 DEF TypeOK
    <3>3. context' \in [Context -> ContextRecord]  BY <3>1, <3>2 DEF ContextRecord
    <3>4. context'[c].at = "starting" /\ \A b \in Context \ {c} : context'[b] = context[b]
      BY <3>1, <3>2
    <3> QED  BY <1>3, <3>1, <3>3, <3>4 DEF Loading
  <2> QED  BY <1>1, <2>1, <2>2
<1>11. TypeOK'
  BY <1>0, <1>1, <1>4, <1>9, <1>10 DEF TypeOK, tasks
<1>12. OneOfTwo' /\ RunningIsOwned'  BY <1>4, <1>9 DEF IInv, OneOfTwo, RunningIsOwned, tasks
<1>13. TicksInOpen'
  <2> SUFFICES ASSUME NEW c \in Context, <<c, "tick">> \in work
               PROVE  opened'[c] = Module
    BY <1>9 DEF TicksInOpen
  <2> QED  BY <1>5, <1>6 DEF IInv, TicksInOpen
<1>14. Stages'
  <2> SUFFICES ASSUME NEW c \in Context
               PROVE  /\ Loading(c)' <=> c = inflight'
                      /\ opened'[c] # {} => c = inflight'
                      /\ context'[c].at = "starting" => opened'[c] = {}
                      /\ context'[c].at = "recovering" => opened'[c] = Module \ {"workflow"}
    BY <1>3, <1>4 DEF Stages
  <2>1. CASE d = inflight /\ SameLoad
    BY <1>5, <1>7, <1>8, <1>2, <2>1 DEF IInv, Stages, SameLoad, Loading
  <2>2. CASE inflight = None /\ d # None /\ context'[d].at = "starting"
    <3>1. \A b \in Context : ~Loading(b)  BY <1>3, <2>2 DEF IInv, Stages
    <3>2. \A b \in Context : opened'[b] = {}  BY <1>3, <1>8, <2>2
    <3>3. CASE c = d  BY <1>10, <2>2, <3>2, <3>3 DEF Loading
    <3>4. CASE c # d
      <4>1. context'[c] = context[c]  BY <1>10, <3>4
      <4> QED  BY <1>10, <3>1, <3>2, <3>4, <4>1 DEF Loading
    <3> QED  BY <3>3, <3>4
  <2> QED  BY <1>10, <2>1, <2>2
<1>15. ClosersInTurn'
  <2> SUFFICES ASSUME NEW j \in Call, call'[j].at = "closing"
               PROVE  /\ call'[j].ctx \in Context
                      /\ context'[call'[j].ctx].at = "ready"
                      /\ opened'[call'[j].ctx] = {}
    BY <1>4 DEF ClosersInTurn
  <2>1. j # k  BY <1>1
  <2>2. call'[j] = call[j]  BY <1>1, <2>1 DEF Others
  <2>3. /\ call[j].ctx \in Context /\ context[call[j].ctx].at = "ready"
        /\ entries = call[j].ctx \/ (entries = None /\ opened[call[j].ctx] = {})
    BY <2>2 DEF IInv, ClosersInTurn
  <2>4. context'[call[j].ctx] = context[call[j].ctx]  BY <1>10, <2>3
  <2>5. opened'[call[j].ctx] = {}  BY <1>2, <1>3, <1>5, <2>3
  <2> QED  BY <2>2, <2>3, <2>4, <2>5
<1>16. UsersHaveOne'  BY <1>1 DEF IInv, UsersHaveOne, Others
<1> QED  BY <1>11, <1>12, <1>13, <1>14, <1>15, <1>16 DEF IInv

\* A load that fails leaves no trace of its context.
LEMMA FailKeeps ==
    ASSUME IInv, NEW c \in Context, Loading(c), Fail(c),
           UNCHANGED <<row, entries, work, call, tasks, server, stopped>>
    PROVE  IInv'
<1> USE DEF None
<1>1. \A b \in Context : b # None  BY DEF Context
<1>2. inflight = c /\ entries = None  BY <1>1 DEF IInv, Stages, OneOfTwo
<1>3. context' \in [Context -> ContextRecord]  BY DEF IInv, TypeOK, Fail, ContextRecord
<1>4. context'[c].at = "failed" /\ \A b \in Context \ {c} : context'[b] = context[b]
  BY DEF IInv, TypeOK, Fail
<1>5. opened' \in [Context -> SUBSET Module] /\ \A b \in Context : opened'[b] = {}
  BY <1>1, <1>2 DEF IInv, TypeOK, Stages, Fail
<1>6. TypeOK'  BY <1>2, <1>3, <1>5 DEF IInv, TypeOK, Fail, tasks
<1>7. OneOfTwo' /\ RunningIsOwned'
  BY <1>2 DEF IInv, OneOfTwo, RunningIsOwned, tasks
<1>8. \A b \in Context : ~Loading(b)'  BY <1>2, <1>1, <1>4 DEF IInv, Stages, Loading
<1>9. Stages'  BY <1>1, <1>2, <1>5, <1>8 DEF Stages, Fail, Loading
<1>10. TicksInOpen'
  <2>1. \A b \in Context : opened[b] # Module
    BY <1>1, <1>2 DEF IInv, Stages, Loading, Module
  <2> QED  BY <2>1 DEF IInv, TicksInOpen
<1>11. ClosersInTurn'
  <2>1. context[c].at # "ready"  BY DEF Loading
  <2> QED  BY <1>2, <1>4, <1>5, <2>1 DEF IInv, ClosersInTurn
<1>12. UsersHaveOne'  BY DEF IInv, UsersHaveOne
<1> QED  BY <1>6, <1>7, <1>9, <1>10, <1>11, <1>12 DEF IInv

LEMMA ComposeKeeps ==
    ASSUME IInv, NEW c \in Context, Compose(c)
    PROVE  IInv'
<1> USE DEF None
<1>0. Loading(c)  BY DEF Compose, Loading
<1>1. CASE Fail(c) /\ UNCHANGED <<work, status>>  BY <1>0, <1>1, FailKeeps DEF Compose, tasks
<1>2. CASE /\ opened' = [opened EXCEPT ![c] = Module \ {"workflow"}]
           /\ context' = [context EXCEPT ![c].at = "recovering"]
           /\ RecoverOrphaned
           /\ work' \in {work, work \cup {<<c, "catchup">>}}
           /\ UNCHANGED inflight
  <2>1. \A b \in Context : b # None  BY DEF Context
  <2>2. inflight = c /\ entries = None  BY <1>0, <2>1 DEF IInv, Stages, OneOfTwo
  <2>3. context' \in [Context -> ContextRecord]  BY <1>2 DEF IInv, TypeOK, ContextRecord
  <2>4. context'[c].at = "recovering" /\ \A b \in Context \ {c} : context'[b] = context[b]
    BY <1>2 DEF IInv, TypeOK
  <2>5. /\ opened' \in [Context -> SUBSET Module]
        /\ opened'[c] = Module \ {"workflow"} /\ \A b \in Context \ {c} : opened'[b] = opened[b]
    BY <1>2 DEF IInv, TypeOK
  <2>6. status' \in [Task -> {"absent", "running", "ended", "orphaned"}]
    BY <1>2 DEF IInv, TypeOK, RecoverOrphaned
  <2>7. work' \subseteq Context \X {"tick", "catchup"}  BY <1>2 DEF IInv, TypeOK
  <2>8. TypeOK'
    BY <1>2, <2>2, <2>3, <2>4, <2>5, <2>6, <2>7 DEF IInv, TypeOK, Compose, Loading
  <2>9. OneOfTwo'  BY <2>2 DEF OneOfTwo, Compose
  <2>10. RunningIsOwned'  BY <1>2 DEF IInv, RunningIsOwned, RecoverOrphaned, Compose
  <2>11. Stages'
    BY <1>0, <1>2, <2>1, <2>2, <2>4, <2>5 DEF IInv, Stages, Compose, Loading
  <2>12. TicksInOpen'
    <3>1. opened[c] = {}  BY DEF IInv, Stages, Compose
    <3>2. <<c, "tick">> \notin work  BY <3>1 DEF IInv, TicksInOpen, Module
    <3>3. \A b \in Context : <<b, "tick">> \in work' => <<b, "tick">> \in work  BY <1>2
    <3> QED  BY <2>5, <3>2, <3>3 DEF IInv, TicksInOpen
  <2>13. ClosersInTurn'
    <3>1. context[c].at # "ready"  BY DEF Compose
    <3> QED  BY <2>2, <2>4, <2>5, <3>1 DEF IInv, ClosersInTurn, Compose
  <2>14. UsersHaveOne'  BY DEF IInv, UsersHaveOne, Compose
  <2> QED  BY <2>8, <2>9, <2>10, <2>11, <2>12, <2>13, <2>14 DEF IInv
<1> QED  BY <1>1, <1>2 DEF Compose

\* The new entry meets nobody who is about to drop one.
LEMMA ComposeWorkflowKeeps ==
    ASSUME IInv, NEW c \in Context, ComposeWorkflow(c)
    PROVE  IInv'
<1> USE DEF None
<1>0. Loading(c)  BY DEF ComposeWorkflow, Loading
<1>1. CASE Fail(c) /\ UNCHANGED entries  BY <1>0, <1>1, FailKeeps DEF ComposeWorkflow
<1>2. CASE /\ opened' = [opened EXCEPT ![c] = Module]
           /\ context' = [context EXCEPT ![c].at = "ready"]
           /\ entries' = c /\ inflight' = None
  <2>1. \A b \in Context : b # None  BY DEF Context
  <2>2. inflight = c /\ entries = None  BY <1>0, <2>1 DEF IInv, Stages, OneOfTwo
  <2>3. context' \in [Context -> ContextRecord]  BY <1>2 DEF IInv, TypeOK, ContextRecord
  <2>4. context'[c].at = "ready" /\ \A b \in Context \ {c} : context'[b] = context[b]
    BY <1>2 DEF IInv, TypeOK
  <2>5. /\ opened' \in [Context -> SUBSET Module]
        /\ opened'[c] = Module /\ \A b \in Context \ {c} : opened'[b] = opened[b]
    BY <1>2 DEF IInv, TypeOK
  <2>6. TypeOK'  BY <1>2, <2>3, <2>4, <2>5 DEF IInv, TypeOK, ComposeWorkflow, tasks
  <2>7. OneOfTwo' /\ RunningIsOwned'
    BY <1>2 DEF IInv, OneOfTwo, RunningIsOwned, ComposeWorkflow, tasks
  <2>8. \A b \in Context : ~Loading(b)'  BY <2>2, <2>4 DEF IInv, Stages, Loading
  <2>9. Stages'  BY <1>2, <2>1, <2>2, <2>4, <2>5, <2>8 DEF IInv, Stages, Loading
  <2>10. TicksInOpen'  BY <2>5 DEF IInv, TicksInOpen, ComposeWorkflow
  <2>11. ClosersInTurn'
    <3> SUFFICES ASSUME NEW k \in Call, call[k].at = "closing" PROVE FALSE
      BY DEF ClosersInTurn, ComposeWorkflow
    <3>1. call[k].ctx \in Context /\ opened[call[k].ctx] = {}
      BY <2>1, <2>2 DEF IInv, ClosersInTurn
    <3>2. <<call[k].ctx, "tick">> \notin work  BY <3>1 DEF IInv, TicksInOpen, Module
    <3>3. Due(k)  BY <3>2 DEF Due, CloseDue
    <3> QED  BY <3>3 DEF ComposeWorkflow, Turn
  <2>12. UsersHaveOne'  BY DEF IInv, UsersHaveOne, ComposeWorkflow
  <2> QED  BY <2>6, <2>7, <2>9, <2>10, <2>11, <2>12 DEF IInv
<1> QED  BY <1>1, <1>2 DEF ComposeWorkflow

\* Steps that leave the registry and what is open alone.
LEMMA UseKeeps ==
    ASSUME IInv, TypeOK', UNCHANGED <<entries, inflight, context, opened>>,
           TicksInOpen', RunningIsOwned',
           \A k \in Call : call'[k].at # "over" => call'[k] = call[k]
    PROVE  IInv'
<1>1. Stages' /\ OneOfTwo'  BY DEF IInv, Stages, OneOfTwo, Loading
<1>2. ClosersInTurn' /\ UsersHaveOne'  BY DEF IInv, ClosersInTurn, UsersHaveOne
<1> QED  BY <1>1, <1>2 DEF IInv

LEMMA GetKeeps == ASSUME IInv, NEW k \in Caller, Get(k) PROVE IInv'
<1> USE DEF None
<1>0. TypeOK /\ k \in Call /\ call \in [Call -> CallRecord]  BY DEF IInv, TypeOK, Call
<1>1. PICK n \in Answered \cup {0} :
          LET calls == [call EXCEPT ![k].op = "get", ![k].name = n]
          IN  \/ /\ entries # None
                 /\ call' = [calls EXCEPT ![k].at = "using", ![k].ctx = entries]
                 /\ UNCHANGED <<context, inflight>>
              \/ entries = None /\ Load(calls, k)
  BY DEF Get
<1> DEFINE calls == [call EXCEPT ![k].op = "get", ![k].name = n]
<1>2. n \in Nat
  <2>1. \A j \in Call : call[j].name \in Nat  BY <1>0 DEF CallRecord
  <2> QED  BY <2>1 DEF Answered
<1>3. calls \in [Call -> CallRecord] /\ \A j \in Call \ {k} : calls[j] = call[j]
  <2>1. call[k] \in CallRecord  BY <1>0
  <2>2. [call[k] EXCEPT !.op = "get", !.name = n] \in CallRecord  BY <1>2, <2>1 DEF CallRecord
  <2> QED  BY <1>0, <2>1, <2>2 DEF CallRecord
<1>4. CallStep(k)
  <2>1. CASE entries # None /\ call' = [calls EXCEPT ![k].at = "using", ![k].ctx = entries] /\ SameLoad
    <3> HIDE DEF calls
    <3>1. entries \in Context \cup {None}  BY <1>0 DEF TypeOK
    <3>2. calls[k] \in CallRecord  BY <1>0, <1>3
    <3>3. [calls[k] EXCEPT !.at = "using", !.ctx = entries] \in CallRecord
      BY <3>1, <3>2 DEF CallRecord
    <3>4. /\ call' \in [Call -> CallRecord] /\ call'[k].at = "using" /\ call'[k].ctx = entries
          /\ \A j \in Call \ {k} : call'[j] = calls[j]
      BY <1>0, <1>3, <2>1, <3>2, <3>3 DEF CallRecord
    <3>5. Others(k, call)  BY <1>3, <3>4 DEF Others
    <3>6. entries \in Context  BY <2>1, <3>1
    <3> QED  BY <2>1, <3>4, <3>5, <3>6 DEF CallStep
  <2>2. CASE entries = None /\ Load(calls, k)
    <3> HIDE DEF calls
    <3>1. /\ call' \in [Call -> CallRecord] /\ Others(k, calls)
          /\ call'[k].at = "over" \/ (call'[k].at = "loading" /\ call'[k].ctx \in Context)
          /\ SameLoad \/ NewLoad
      BY <1>0, <1>3, <2>2, LoadDoes
    <3> QED  BY <1>3, <2>2, <3>1 DEF CallStep, Others
  <2> QED  BY <1>1, <2>1, <2>2 DEF SameLoad
<1>5. UNCHANGED <<row, entries, opened, work, tasks, server, stopped>>  BY DEF Get
<1> QED  BY <1>0, <1>4, <1>5, CallStepKeeps DEF TypeOK

LEMMA EvictingKeeps ==
    ASSUME IInv, NEW k \in Call, NEW calls, Noted(calls, k),
           Evict(calls, k) \/ CloseEntry(calls, k),
           UNCHANGED <<entries, opened, work, tasks>>,
           row' \in [registered : BOOLEAN, name : Nat],
           server' \in {"serving", "stopping", "closing", "closed"},
           stopped' \in Context \cup {None}
    PROVE  IInv'
<1>1. TypeOK  BY DEF IInv
<1>2. CallStep(k)  BY <1>1, EvictDoes, CloseEntryDoes
<1> QED  BY <1>2, CallStepKeeps

LEMMA RenameKeeps == ASSUME IInv, NEW k \in Caller, Rename(k) PROVE IInv'
<1>0. TypeOK /\ k \in Call /\ call \in [Call -> CallRecord]  BY DEF IInv, TypeOK, Call
<1>1. row \in [registered : BOOLEAN, name : Nat]  BY <1>0 DEF TypeOK
<1>2. PICK name \in Nat :
          /\ row' = [row EXCEPT !.name = name]
          /\ \/ row.registered /\ Evict([call EXCEPT ![k].op = "rename", ![k].name = name], k)
             \/ /\ call' = [call EXCEPT ![k].op = "rename", ![k].at = "over"]
                /\ UNCHANGED <<context, inflight>>
  <2>1. \A name \in IF row.registered THEN {row.name, row.name + 1} ELSE {row.name} : name \in Nat
    BY <1>1
  <2> QED  BY <2>1 DEF Rename
<1>3. row' \in [registered : BOOLEAN, name : Nat]  BY <1>1, <1>2
<1>4. UNCHANGED <<entries, opened, work, tasks, server, stopped>>  BY DEF Rename
<1>5. server' \in {"serving", "stopping", "closing", "closed"} /\ stopped' \in Context \cup {None}
  BY <1>0, <1>4 DEF TypeOK
<1>6. CASE row.registered /\ Evict([call EXCEPT ![k].op = "rename", ![k].name = name], k)
  <2>1. Noted([call EXCEPT ![k].op = "rename", ![k].name = name], k)
    BY <1>0, <1>2 DEF Noted, CallRecord
  <2> QED  BY <1>0, <1>3, <1>4, <1>5, <1>6, <2>1, EvictingKeeps
<1>7. CASE call' = [call EXCEPT ![k].op = "rename", ![k].at = "over"] /\ SameLoad
  <2>1. call[k] \in CallRecord  BY <1>0
  <2>2. [call[k] EXCEPT !.op = "rename", !.at = "over"] \in CallRecord
    BY <2>1 DEF CallRecord
  <2>3. /\ call' \in [Call -> CallRecord] /\ call'[k].at = "over"
        /\ \A j \in Call \ {k} : call'[j] = call[j]
    BY <1>0, <1>7, <2>1, <2>2 DEF CallRecord
  <2>4. CallStep(k)  BY <1>7, <2>3 DEF CallStep, Others
  <2> QED  BY <1>0, <1>3, <1>4, <1>5, <2>4, CallStepKeeps
<1> QED  BY <1>2, <1>6, <1>7 DEF SameLoad

LEMMA LoadSeenKeeps == ASSUME IInv, NEW k \in Call, LoadSeen(k) PROVE IInv'
<1>0. TypeOK /\ call \in [Call -> CallRecord]  BY DEF IInv, TypeOK
<1>1. PICK at \in {"using", "over"} : call' = [call EXCEPT ![k].at = at]
  BY DEF LoadSeen
<1>2. call[k].ctx \in Context  BY DEF IInv, UsersHaveOne, LoadSeen
<1>3. CallStep(k)  BY <1>0, <1>1, <1>2 DEF CallStep, Others, CallRecord, SameLoad, LoadSeen
<1>4. UNCHANGED <<row, entries, opened, work, tasks, server, stopped>>  BY DEF LoadSeen
<1> QED  BY <1>0, <1>3, <1>4, CallStepKeeps DEF TypeOK

LEMMA DispatchKeeps ==
    ASSUME IInv, NEW c \in Context, NEW t \in Task, Dispatch(c, t), UNCHANGED work,
           \/ UNCHANGED call
           \/ \E k \in Call : call' = [call EXCEPT ![k].at = "over"]
    PROVE  IInv'
<1>1. call' \in [Call -> CallRecord] /\ \A k \in Call : call'[k].at # "over" => call'[k] = call[k]
  BY DEF IInv, TypeOK, CallRecord
<1>2. UNCHANGED <<row, entries, inflight, context, opened, work, server, stopped>>  BY DEF Dispatch
<1>3. /\ status' \in [Task -> {"absent", "running", "ended", "orphaned"}]
      /\ working' \subseteq Task /\ owner' \in [Task -> Context \cup {None}]
  BY DEF IInv, TypeOK, Dispatch
<1>4. TypeOK'  BY <1>1, <1>2, <1>3 DEF IInv, TypeOK, Loading
<1>5. RunningIsOwned'  BY DEF IInv, TypeOK, RunningIsOwned, Dispatch
<1>6. TicksInOpen'  BY <1>2 DEF IInv, TicksInOpen
<1> QED  BY <1>1, <1>2, <1>4, <1>5, <1>6, UseKeeps

LEMMA StepInv == IInv /\ [Next]_vars => IInv'
<1> SUFFICES ASSUME IInv, [Next]_vars PROVE IInv'  OBVIOUS
<1>0. TypeOK /\ call \in [Call -> CallRecord] /\ Caller \subseteq Call  BY DEF IInv, TypeOK, Call
<1>1. ASSUME NEW k \in Caller, Get(k) PROVE IInv'  BY <1>1, GetKeeps
<1>2. ASSUME NEW k \in Caller, Rename(k) PROVE IInv'  BY <1>2, RenameKeeps
<1>3. ASSUME NEW k \in Caller, Unregister(k) PROVE IInv'
  <2>1. Noted([call EXCEPT ![k].op = "unregister"], k)  BY <1>0 DEF Noted, CallRecord
  <2>2. /\ row' \in [registered : BOOLEAN, name : Nat]
        /\ server' \in {"serving", "stopping", "closing", "closed"}
        /\ stopped' \in Context \cup {None}
    BY <1>0, <1>3 DEF TypeOK, Unregister
  <2> QED  BY <1>0, <1>3, <2>1, <2>2, EvictingKeeps DEF Unregister
<1>4. ASSUME NEW k \in Caller, Reload(k) PROVE IInv'
  <2>1. Noted([call EXCEPT ![k].op = "reload"], k)  BY <1>0 DEF Noted, CallRecord
  <2>2. /\ row' \in [registered : BOOLEAN, name : Nat]
        /\ server' \in {"serving", "stopping", "closing", "closed"}
        /\ stopped' \in Context \cup {None}
    BY <1>0, <1>4 DEF TypeOK, Reload
  <2> QED  BY <1>0, <1>4, <2>1, <2>2, EvictingKeeps DEF Reload
<1>5. ASSUME NEW k \in Caller, RequestDispatches(k) PROVE IInv'
  <2>1. call[k].ctx \in Context  BY <1>0, <1>5 DEF IInv, UsersHaveOne, RequestDispatches
  <2>2. PICK t \in Task : Dispatch(call[k].ctx, t)  BY <1>5 DEF RequestDispatches
  <2> QED  BY <1>0, <1>5, <2>1, <2>2, DispatchKeeps DEF RequestDispatches
<1>6. ASSUME NEW k \in Call, Continue(k) PROVE IInv'
  <2>1. CASE LoadSeen(k)  BY <2>1, LoadSeenKeeps
  <2>2. CASE DrainReturns(k)
    <3>1. Noted(call, k)  BY <1>0 DEF Noted
    <3> QED  BY <1>0, <2>2, <3>1, EvictingKeeps DEF DrainReturns, TypeOK
  <2>3. CASE CloseReturns(k)  BY <2>3, CloseKeeps
  <2> QED  BY <1>6, <2>1, <2>2, <2>3 DEF Continue
<1>7. ASSUME NEW c \in Context, Compose(c) PROVE IInv'  BY <1>7, ComposeKeeps
<1>8. ASSUME NEW c \in Context, ComposeWorkflow(c) PROVE IInv'  BY <1>8, ComposeWorkflowKeeps
<1>9. ASSUME NEW c \in Context, Tick(c) PROVE IInv'
  <2>1. opened[c] = Module
    BY <1>9 DEF Tick, IInv, Stages, Loading, Module
  <2>2. TypeOK'  BY <1>0, <1>9 DEF TypeOK, Tick, tasks, Loading
  <2>3. TicksInOpen' /\ RunningIsOwned'
    BY <1>9, <2>1 DEF IInv, TicksInOpen, RunningIsOwned, Tick, tasks
  <2> QED  BY <1>9, <2>2, <2>3, UseKeeps DEF Tick
<1>10. ASSUME NEW c \in Context, NEW t \in Task, Fire(c, t) PROVE IInv'
  BY <1>10, DispatchKeeps DEF Fire
<1>11. ASSUME NEW w \in work, DispatchAtWork(w) PROVE IInv'
  <2>1. w[1] \in Context  BY <1>0 DEF TypeOK
  <2> QED  BY <1>11, <2>1, DispatchKeeps DEF DispatchAtWork
<1>12. ASSUME NEW w \in work, WorkEnds(w) PROVE IInv'
  <2>1. TypeOK'  BY <1>0, <1>12 DEF TypeOK, WorkEnds, tasks, Loading
  <2>2. TicksInOpen' /\ RunningIsOwned'
    BY <1>12 DEF IInv, TicksInOpen, RunningIsOwned, WorkEnds, tasks
  <2> QED  BY <1>12, <2>1, <2>2, UseKeeps DEF WorkEnds
<1>13. ASSUME NEW t \in Task, AgentExits(t) PROVE IInv'
  <2>1. status' \in [Task -> {"absent", "running", "ended", "orphaned"}]
    BY <1>0, <1>13 DEF TypeOK, AgentExits
  <2>2. TypeOK'  BY <1>0, <1>13, <2>1 DEF TypeOK, AgentExits, Loading
  <2>3. \A s \in Task : status'[s] = "running" => status[s] = "running"
    BY <1>0, <1>13 DEF TypeOK, AgentExits
  <2>4. TicksInOpen' /\ RunningIsOwned'
    BY <1>13, <2>3 DEF IInv, TicksInOpen, RunningIsOwned, AgentExits
  <2> QED  BY <1>13, <2>2, <2>4, UseKeeps DEF AgentExits
<1>14. CASE Terminate
  <2>1. TypeOK'  BY <1>0, <1>14 DEF TypeOK, Terminate, tasks, Loading
  <2>2. TicksInOpen' /\ RunningIsOwned'
    BY <1>14 DEF IInv, TicksInOpen, RunningIsOwned, Terminate, tasks
  <2> QED  BY <1>14, <2>1, <2>2, UseKeeps DEF Terminate
<1>15. CASE CloseAll
  <2>1. Server \in Call  BY DEF Call
  <2>2. Noted([call EXCEPT ![Server].op = "closeAll"], Server)
    BY <1>0, <2>1 DEF Noted, CallRecord
  <2> QED  BY <1>0, <1>15, <2>1, <2>2, EvictingKeeps DEF CloseAll, TypeOK
<1>16. CASE Exit
  <2>1. TypeOK'  BY <1>0, <1>16 DEF TypeOK, Exit, tasks, Loading
  <2>2. TicksInOpen' /\ RunningIsOwned'
    BY <1>16 DEF IInv, TicksInOpen, RunningIsOwned, Exit, tasks
  <2> QED  BY <1>16, <2>1, <2>2, UseKeeps DEF Exit
<1>17. CASE UNCHANGED vars
  <2>1. TypeOK'  BY <1>0, <1>17 DEF TypeOK, vars, tasks, Loading
  <2>2. TicksInOpen' /\ RunningIsOwned'
    BY <1>17 DEF IInv, TicksInOpen, RunningIsOwned, vars, tasks
  <2> QED  BY <1>17, <2>1, <2>2, UseKeeps DEF vars
<1> QED
  BY <1>1, <1>2, <1>3, <1>4, <1>5, <1>6, <1>7, <1>8, <1>9, <1>10, <1>11, <1>12, <1>13,
     <1>14, <1>15, <1>16, <1>17 DEF Next

THEOREM Invariance == Spec => []IInv
<1>1. Init => IInv  BY InitInv
<1>2. IInv /\ [Next]_vars => IInv'  BY StepInv
<1> QED  BY <1>1, <1>2, PTL DEF Spec

-----------------------------------------------------------------------------
(* What follows from it *)

\* Type correctness.
THEOREM TypeCorrect == Spec => []TypeOK
<1>1. IInv => TypeOK  BY DEF IInv
<1> QED  BY <1>1, Invariance, PTL

LEMMA AliveIsKnown == IInv => \A c \in Context : Alive(c) => c = entries \/ c = inflight
BY DEF IInv, Stages, Alive

\* At most one context of a workspace is under construction or open
\* (WorkspaceContextRegistry.get, invalidate and reload).
THEOREM OneContextAtATime == Spec => []OneContext
<1>1. IInv => OneContext
  <2>1. \A c \in Context : c # None  BY DEF Context, None
  <2> QED  BY <2>1, AliveIsKnown DEF IInv, OneOfTwo, OneContext
<1> QED  BY <1>1, Invariance, PTL

\* What is open can be reached through the registry.
THEOREM NothingIsLeaked == Spec => []NothingLeaks
<1>1. IInv => NothingLeaks  BY DEF IInv, Stages, NothingLeaks
<1> QED  BY <1>1, Invariance, PTL

\* A tick finds its TaskService open (WorkspaceContext.close).
THEOREM TicksFindTasks == Spec => []TicksMeetOpenTasks
<1>1. IInv => TicksMeetOpenTasks  BY DEF IInv, TicksInOpen, TicksMeetOpenTasks, Module
<1> QED  BY <1>1, Invariance, PTL

\* recoverOrphaned fails no task of a context that is open.
THEOREM OrphansUnsupervised == Spec => SupervisedNotOrphaned
<1> DEFINE Kept == \A t \in Task : status[t] = "running" /\ status'[t] = "orphaned" => opened[owner[t]] = {}
<1>1. ASSUME IInv, [Next]_vars PROVE Kept
  <2> SUFFICES ASSUME NEW t \in Task, status[t] = "running", status'[t] = "orphaned"
               PROVE  opened[owner[t]] = {}
    OBVIOUS
  <2>1. TypeOK  BY <1>1 DEF IInv
  <2>2. PICK c \in Context : Compose(c)
    <3>1. CASE \E d \in Context : Compose(d)  BY <3>1
    <3>2. CASE \E d \in Context, s \in Task : Dispatch(d, s)
      <4>1. status'[t] \in {status[t], "running"}  BY <2>1, <3>2 DEF TypeOK, Dispatch
      <4> QED  BY <4>1
    <3>3. CASE \E s \in Task : AgentExits(s)
      <4>1. status'[t] \in {status[t], "ended"}  BY <2>1, <3>3 DEF TypeOK, AgentExits
      <4> QED  BY <4>1
    <3>4. CASE \E k \in Caller : RequestDispatches(k)
      <4>1. PICK k \in Caller, s \in Task : Dispatch(call[k].ctx, s)  BY <3>4 DEF RequestDispatches
      <4>2. status'[t] \in {status[t], "running"}  BY <2>1, <4>1 DEF TypeOK, Dispatch
      <4> QED  BY <4>2
    <3>5. CASE \E w \in work : DispatchAtWork(w)
      <4>1. PICK w \in work, s \in Task : Dispatch(w[1], s)  BY <3>5 DEF DispatchAtWork
      <4>2. status'[t] \in {status[t], "running"}  BY <2>1, <4>1 DEF TypeOK, Dispatch
      <4> QED  BY <4>2
    <3>6. CASE UNCHANGED status  BY <3>6
    <3>7. CASE \E d \in Context, s \in Task : Fire(d, s)  BY <3>2, <3>7 DEF Fire
    <3> QED
      BY <1>1, <3>1, <3>3, <3>4, <3>5, <3>6, <3>7
      DEF Next, vars, tasks, Get, Rename, Unregister, Reload, Continue, LoadSeen, DrainReturns,
          CloseReturns, ComposeWorkflow, Tick, WorkEnds, Terminate, CloseAll, Exit
  <2>3. \A b \in Context : b # None  BY DEF Context, None
  <2>4. inflight = c /\ entries = None /\ opened[c] = {}
    BY <1>1, <2>2, <2>3 DEF IInv, Stages, OneOfTwo, Compose, Loading
  <2>5. owner[t] \in Context  BY <1>1 DEF IInv, RunningIsOwned
  <2> QED  BY <1>1, <2>3, <2>4, <2>5 DEF IInv, Stages
<1> QED  BY <1>1, Invariance, PTL DEF Spec, SupervisedNotOrphaned

-----------------------------------------------------------------------------
(* The unregistered workspace *)

\* How far an unregister is, and what it has left of the registry.  No load
\* begins any more, so the one it drains is the last.
Unregistering ==
    \A k \in Call : call[k].op = "unregister" /\ call[k].at # "ready" =>
        /\ ~row.registered
        /\ call[k].at \in {"draining", "closing", "over"}
        /\ call[k].at = "draining" => inflight = None \/ inflight = call[k].ctx
        /\ call[k].at = "closing" => inflight = None
        /\ call[k].at = "over" => entries = None /\ inflight = None

\* A call that has begun keeps its operation.
Ready == \A k \in Call : call[k].at = "ready" => call[k].op = "none"

UInv == IInv /\ Unregistering /\ Ready

\* While the workspace is not registered, what a call does builds nothing.
LEMMA UnregisteredLoads ==
    ASSUME ~row.registered, NEW k, NEW calls,
           Load(calls, k) \/ Finish(calls, k) \/ CloseEntry(calls, k) \/ Evict(calls, k)
    PROVE  SameLoad
<1>1. Load(calls, k) => SameLoad  BY DEF Load, StartLoad, SameLoad
<1>2. Finish(calls, k) => SameLoad  BY <1>1 DEF Finish, SameLoad
<1>3. CloseEntry(calls, k) => SameLoad  BY <1>2 DEF CloseEntry, SameLoad
<1>4. Evict(calls, k) => SameLoad  BY <1>3 DEF Evict, SameLoad
<1> QED  BY <1>1, <1>2, <1>3, <1>4

\* Who does not reload builds nothing either.
LEMMA EvictionEnds ==
    ASSUME NEW k \in Call, NEW calls \in [Call -> CallRecord], calls[k].op # "reload"
    PROVE  /\ Finish(calls, k) => SameLoad /\ call'[k].at = "over"
           /\ CloseEntry(calls, k) =>
                SameLoad /\ call'[k].at = IF entries = None THEN "over" ELSE "closing"
           /\ Evict(calls, k) =>
                /\ SameLoad
                /\ IF inflight = None THEN CloseEntry(calls, k)
                   ELSE call'[k].at = "draining" /\ call'[k].ctx = inflight
<1>1. Finish(calls, k) => SameLoad /\ call'[k].at = "over"
  BY DEF Finish, SameLoad, CallRecord
<1>2. CloseEntry(calls, k) =>
        SameLoad /\ call'[k].at = IF entries = None THEN "over" ELSE "closing"
  BY <1>1 DEF CloseEntry, SameLoad, CallRecord
<1>3. Evict(calls, k) =>
        /\ SameLoad
        /\ IF inflight = None THEN CloseEntry(calls, k)
           ELSE call'[k].at = "draining" /\ call'[k].ctx = inflight
  BY <1>2 DEF Evict, SameLoad, CallRecord
<1> QED  BY <1>1, <1>2, <1>3

UnregisterAt(j) ==
    call[j].op = "unregister" /\ call[j].at # "ready" =>
        /\ ~row.registered
        /\ call[j].at \in {"draining", "closing", "over"}
        /\ call[j].at = "draining" => inflight = None \/ inflight = call[j].ctx
        /\ call[j].at = "closing" => inflight = None
        /\ call[j].at = "over" => entries = None /\ inflight = None

\* A step of call k: what it owes to the others, and to itself.
LEMMA CallKeepsUnregistering ==
    ASSUME UInv, NEW k \in Call, Others(k, call), call'[k].at # "ready",
           ~row.registered => ~row'.registered /\ SameLoad,
           entries' \in {entries, None},
           UnregisterAt(k)'
    PROVE  Unregistering' /\ Ready'
<1>1. Ready'  BY DEF UInv, Ready, Others
<1>2. ASSUME NEW j \in Call, j # k PROVE UnregisterAt(j)'
  <2>1. call'[j] = call[j]  BY <1>2 DEF Others
  <2>2. UnregisterAt(j)  BY DEF UInv, Unregistering, UnregisterAt
  <2> QED  BY <2>1, <2>2 DEF UnregisterAt, SameLoad
<1>3. \A j \in Call : UnregisterAt(j)'  BY <1>2
<1> QED  BY <1>1, <1>3 DEF Unregistering, UnregisterAt

\* A step that begins or ends no call of unregister and leaves the registry alone.
LEMMA RestKeepsUnregistering ==
    ASSUME UInv, UNCHANGED <<row, entries, inflight>>,
           \A k \in Call : \/ call'[k] = call[k]
                           \/ call[k].at = "using" /\ call'[k].at = "over" /\ call'[k].op = call[k].op
    PROVE  Unregistering' /\ Ready'
<1>1. ASSUME NEW j \in Call, call'[j].op = "unregister", call'[j].at # "ready"
      PROVE  call'[j] = call[j]
  BY <1>1 DEF UInv, Unregistering
<1>2. Unregistering'  BY <1>1 DEF UInv, Unregistering
<1>3. Ready'  BY DEF UInv, Ready
<1> QED  BY <1>2, <1>3

LEMMA StepUInv == UInv /\ [Next]_vars => UInv'
<1> SUFFICES ASSUME UInv, [Next]_vars PROVE Unregistering' /\ Ready'  BY StepInv DEF UInv
<1> USE DEF None
<1>0. /\ TypeOK /\ IInv /\ call \in [Call -> CallRecord] /\ Caller \subseteq Call
      /\ \A c \in Context : c # None
  BY DEF UInv, IInv, TypeOK, Call, Context
<1>1. ASSUME NEW k \in Caller, Get(k) PROVE Unregistering' /\ Ready'
  <2>1. PICK n \in Answered \cup {0} :
            \/ /\ entries # None
               /\ call' = [[call EXCEPT ![k].op = "get", ![k].name = n] EXCEPT ![k].at = "using", ![k].ctx = entries]
               /\ SameLoad
            \/ entries = None /\ Load([call EXCEPT ![k].op = "get", ![k].name = n], k)
    BY <1>1 DEF Get, SameLoad
  <2> DEFINE calls == [call EXCEPT ![k].op = "get", ![k].name = n]
  <2>2. n \in Nat
    <3>1. \A j \in Call : call[j].name \in Nat  BY <1>0 DEF CallRecord
    <3> QED  BY <3>1 DEF Answered
  <2>3. /\ calls \in [Call -> CallRecord] /\ calls[k].op = "get"
        /\ \A j \in Call \ {k} : calls[j] = call[j]
    BY <1>0, <2>2 DEF CallRecord
  <2> HIDE DEF calls
  <2>4. CASE entries # None /\ call' = [calls EXCEPT ![k].at = "using", ![k].ctx = entries] /\ SameLoad
    <3>1. entries \in Context \cup {None} /\ calls[k] \in CallRecord  BY <1>0, <2>3 DEF TypeOK
    <3>2. Others(k, call) /\ call'[k].at = "using" /\ call'[k].op = "get"
      BY <1>0, <2>3, <2>4, <3>1 DEF Others, CallRecord
    <3> QED  BY <1>0, <1>1, <2>4, <3>2, CallKeepsUnregistering DEF Get, UnregisterAt
  <2>5. CASE entries = None /\ Load(calls, k)
    <3>1. /\ Others(k, calls) /\ call'[k].op = "get" /\ call'[k].at # "ready"
      BY <1>0, <2>3, <2>5, LoadDoes
    <3>2. Others(k, call)  BY <2>3, <3>1 DEF Others
    <3>3. ~row.registered => SameLoad  BY <2>5, UnregisteredLoads
    <3> QED  BY <1>0, <1>1, <3>1, <3>2, <3>3, CallKeepsUnregistering DEF Get, UnregisterAt
  <2> QED  BY <2>1, <2>4, <2>5 DEF calls
<1>2. ASSUME NEW k \in Caller, Rename(k) PROVE Unregistering' /\ Ready'
  <2>1. PICK name \in Nat :
            /\ row' = [row EXCEPT !.name = name]
            /\ \/ row.registered /\ Evict([call EXCEPT ![k].op = "rename", ![k].name = name], k)
               \/ call' = [call EXCEPT ![k].op = "rename", ![k].at = "over"] /\ SameLoad
    <3>1. row \in [registered : BOOLEAN, name : Nat]  BY <1>0 DEF TypeOK
    <3>2. \A name \in IF row.registered THEN {row.name, row.name + 1} ELSE {row.name} : name \in Nat
      BY <3>1
    <3> QED  BY <1>2, <3>2 DEF Rename, SameLoad
  <2>2. row'.registered = row.registered  BY <1>0, <2>1 DEF TypeOK
  <2> DEFINE calls == [call EXCEPT ![k].op = "rename", ![k].name = name]
  <2>3. Noted(calls, k) /\ calls[k].op = "rename"  BY <1>0, <2>1 DEF Noted, CallRecord
  <2>4. CASE row.registered /\ Evict(calls, k)
    <3> HIDE DEF calls
    <3>1. CallStep(k) /\ call'[k].op = "rename"  BY <1>0, <2>3, <2>4, EvictDoes
    <3> QED  BY <1>0, <1>2, <2>2, <2>4, <3>1, CallKeepsUnregistering DEF Rename, UnregisterAt, CallStep
  <2>5. CASE call' = [call EXCEPT ![k].op = "rename", ![k].at = "over"] /\ SameLoad
    <3>1. Others(k, call) /\ call'[k].op = "rename" /\ call'[k].at = "over"
      BY <1>0, <2>5 DEF Others, CallRecord
    <3> QED  BY <1>0, <1>2, <2>2, <2>5, <3>1, CallKeepsUnregistering DEF Rename, UnregisterAt
  <2> QED  BY <2>1, <2>4, <2>5
<1>3. ASSUME NEW k \in Caller, Unregister(k) PROVE Unregistering' /\ Ready'
  <2> DEFINE calls == [call EXCEPT ![k].op = "unregister"]
  <2>1. Noted(calls, k) /\ calls[k].op = "unregister" /\ calls \in [Call -> CallRecord]
    BY <1>0 DEF Noted, CallRecord
  <2>2. Evict(calls, k) /\ ~row'.registered /\ entries' = entries
    BY <1>0, <1>3 DEF Unregister, TypeOK
  <2> HIDE DEF calls
  <2>3. CallStep(k) /\ call'[k].op = "unregister"  BY <1>0, <2>1, <2>2, EvictDoes
  <2>4. /\ SameLoad
        /\ IF inflight = None THEN call'[k].at = IF entries = None THEN "over" ELSE "closing"
           ELSE call'[k].at = "draining" /\ call'[k].ctx = inflight
    BY <1>0, <2>1, <2>2, EvictionEnds
  <2>5. UnregisterAt(k)'  BY <2>2, <2>4 DEF UnregisterAt, SameLoad
  <2> QED  BY <1>0, <2>2, <2>3, <2>4, <2>5, CallKeepsUnregistering DEF CallStep
<1>4. ASSUME NEW k \in Caller, Reload(k) PROVE Unregistering' /\ Ready'
  <2> DEFINE calls == [call EXCEPT ![k].op = "reload"]
  <2>1. Noted(calls, k) /\ calls[k].op = "reload"  BY <1>0 DEF Noted, CallRecord
  <2>2. Evict(calls, k) /\ row' = row /\ entries' = entries  BY <1>4 DEF Reload
  <2> HIDE DEF calls
  <2>3. CallStep(k) /\ call'[k].op = "reload"  BY <1>0, <2>1, <2>2, EvictDoes
  <2>4. ~row.registered => SameLoad  BY <2>2, UnregisteredLoads
  <2> QED  BY <1>0, <2>2, <2>3, <2>4, CallKeepsUnregistering DEF CallStep, UnregisterAt
<1>5. CASE CloseAll
  <2> DEFINE calls == [call EXCEPT ![Server].op = "closeAll"]
  <2>0. Server \in Call  BY DEF Call
  <2>1. Noted(calls, Server) /\ calls[Server].op = "closeAll"  BY <1>0, <2>0 DEF Noted, CallRecord
  <2>2. Evict(calls, Server) /\ row' = row /\ entries' = entries  BY <1>5 DEF CloseAll
  <2> HIDE DEF calls
  <2>3. CallStep(Server) /\ call'[Server].op = "closeAll"  BY <1>0, <2>0, <2>1, <2>2, EvictDoes
  <2>4. ~row.registered => SameLoad  BY <2>2, UnregisteredLoads
  <2> QED  BY <1>0, <2>0, <2>2, <2>3, <2>4, CallKeepsUnregistering DEF CallStep, UnregisterAt
<1>6. ASSUME NEW k \in Call, LoadSeen(k) PROVE Unregistering' /\ Ready'
  <2>1. call[k].op # "unregister"  BY <1>6 DEF LoadSeen, UInv, Unregistering
  <2>2. Others(k, call) /\ call'[k].at # "ready" /\ call'[k].op = call[k].op
    BY <1>0, <1>6 DEF LoadSeen, Others, CallRecord
  <2> QED  BY <1>0, <1>6, <2>1, <2>2, CallKeepsUnregistering DEF LoadSeen, UnregisterAt, SameLoad
<1>7. ASSUME NEW k \in Call, DrainReturns(k) PROVE Unregistering' /\ Ready'
  <2>1. Noted(call, k) /\ CloseEntry(call, k) /\ row' = row /\ entries' = entries
    BY <1>0, <1>7 DEF Noted, DrainReturns
  <2>2. CallStep(k) /\ call'[k].op = call[k].op  BY <1>0, <2>1, CloseEntryDoes
  <2>3. ~row.registered => SameLoad  BY <2>1, UnregisteredLoads
  <2>4. UnregisterAt(k)'
    <3> SUFFICES ASSUME call[k].op = "unregister" PROVE UnregisterAt(k)'
      BY <2>2 DEF UnregisterAt
    <3>1. ~row.registered /\ (inflight = None \/ inflight = call[k].ctx)
      BY <1>7 DEF UInv, Unregistering, DrainReturns
    <3>2. ~Loading(call[k].ctx)  BY <1>7 DEF DrainReturns, Due
    <3>3. inflight = None  BY <1>0, <3>1, <3>2 DEF IInv, Stages, TypeOK
    <3>4. SameLoad /\ call'[k].at = IF entries = None THEN "over" ELSE "closing"
      BY <1>0, <2>1, EvictionEnds
    <3> QED  BY <2>1, <3>1, <3>3, <3>4 DEF UnregisterAt, SameLoad
  <2> QED  BY <1>0, <2>1, <2>2, <2>3, <2>4, CallKeepsUnregistering DEF CallStep
<1>8. ASSUME NEW k \in Call, CloseReturns(k) PROVE Unregistering' /\ Ready'
  <2>1. Finish(call, k) /\ row' = row /\ entries' = None  BY <1>8 DEF CloseReturns
  <2>2. Others(k, call) /\ call'[k].at # "ready" /\ call'[k].op = call[k].op
    BY <1>0, <2>1, FinishDoes
  <2>3. ~row.registered => SameLoad  BY <2>1, UnregisteredLoads
  <2>4. UnregisterAt(k)'
    <3> SUFFICES ASSUME call[k].op = "unregister" PROVE UnregisterAt(k)'
      BY <2>2 DEF UnregisterAt
    <3>1. ~row.registered /\ inflight = None  BY <1>8 DEF UInv, Unregistering, CloseReturns
    <3>2. SameLoad /\ call'[k].at = "over"  BY <1>0, <2>1, EvictionEnds
    <3> QED  BY <2>1, <3>1, <3>2 DEF UnregisterAt, SameLoad
  <2> QED  BY <1>0, <2>1, <2>2, <2>3, <2>4, CallKeepsUnregistering
<1>9. ASSUME NEW c \in Context, Compose(c) \/ ComposeWorkflow(c) PROVE Unregistering' /\ Ready'
  <2>1. inflight = c /\ c # None  BY <1>0, <1>9 DEF IInv, Stages, Compose, ComposeWorkflow, Loading
  <2>2. row' = row /\ call' = call /\ inflight' \in {inflight, None}
    BY <1>9 DEF Compose, ComposeWorkflow, Fail
  <2>3. Unregistering'  BY <2>1, <2>2 DEF UInv, Unregistering
  <2> QED  BY <2>2, <2>3 DEF UInv, Ready
<1>10. ASSUME NEW k \in Caller, RequestDispatches(k) PROVE Unregistering' /\ Ready'
  <2>1. \A j \in Call : \/ call'[j] = call[j]
                        \/ call[j].at = "using" /\ call'[j].at = "over" /\ call'[j].op = call[j].op
    BY <1>0, <1>10 DEF RequestDispatches, CallRecord
  <2> QED  BY <1>10, <2>1, RestKeepsUnregistering DEF RequestDispatches, Dispatch
<1>11. CASE UNCHANGED <<row, entries, inflight, call>>  BY <1>11, RestKeepsUnregistering
<1> QED
  BY <1>1, <1>2, <1>3, <1>4, <1>5, <1>6, <1>7, <1>8, <1>9, <1>10, <1>11
  DEF Next, Continue, Tick, Fire, DispatchAtWork, Dispatch, WorkEnds, AgentExits, Terminate, Exit, vars

\* Once unregister has answered, nothing of the workspace is open or being
\* built (Application.unregisterWorkspace, WorkspaceContextRegistry.invalidate).
THEOREM UnregisteredStaysClosed == Spec => []UnregisteredIsClosed
<1>1. Init => UInv  BY InitInv DEF UInv, Init, Unregistering, Ready
<1>2. UInv /\ [Next]_vars => UInv'  BY StepUInv
<1>3. UInv => UnregisteredIsClosed
  <2>1. \A c \in Context : c # None  BY DEF Context, None
  <2>2. Caller \subseteq Call  BY DEF Call
  <2> QED  BY <2>1, <2>2 DEF UInv, IInv, Stages, Unregistering, UnregisteredIsClosed
<1> QED  BY <1>1, <1>2, <1>3, PTL DEF Spec
-----------------------------------------------------------------------------
(* What a request sees of a rename *)

\* A rename is behind the row, and ahead only of the context that it is about to
\* close; a request waits for, or uses, a context that has the name it must see.
Named(j) ==
    /\ call[j].at = "ready" => call[j].name = 0
    /\ call[j].at = "using" => call[j].op = "get"
    /\ call[j].op = "rename" =>
         /\ call[j].name <= row.name
         /\ \A c \in Context : c \in {entries, inflight} =>
              \/ call[j].name <= context[c].name
              \/ call[j].at \in {"draining", "closing"} /\ call[j].ctx = c
    /\ call[j].op = "get" /\ call[j].at \in {"loading", "using"} =>
         /\ context[call[j].ctx].at # "unused"
         /\ call[j].name <= context[call[j].ctx].name

SInv == UInv /\ \A j \in Call : Named(j)

\* What is known to the registry has begun its load.
LEMMA KnownHasBegun ==
    ASSUME IInv, NEW c \in Context, c \in {entries, inflight}
    PROVE  context[c].at # "unused" /\ context[c].name \in Nat
BY DEF IInv, TypeOK, Loading, Context, None, ContextRecord

\* Neither the wait nor its end changes the name a call has noted.
LEMMA NameStays ==
    ASSUME NEW k \in Call, NEW calls \in [Call -> CallRecord],
           \/ Load(calls, k) \/ Finish(calls, k) \/ CloseEntry(calls, k) \/ Evict(calls, k)
    PROVE  call'[k].name = calls[k].name /\ call'[k].at # "using"
<1> DEFINE Same == call'[k].name = calls[k].name /\ call'[k].at # "using"
<1>0. calls[k] \in CallRecord  OBVIOUS
<1>1. Load(calls, k) => Same
  <2>1. CASE inflight = None /\ StartLoad(calls, k)
    BY <1>0, <2>1 DEF StartLoad, CallRecord
  <2>2. CASE call' = [calls EXCEPT ![k].at = "loading", ![k].ctx = inflight]
    BY <1>0, <2>2 DEF CallRecord
  <2> QED  BY <2>1, <2>2 DEF Load
<1>2. Finish(calls, k) => Same  BY <1>0, <1>1 DEF Finish, CallRecord
<1>3. CloseEntry(calls, k) => Same
  <2>1. ASSUME NEW at \in {"over", "closing"},
               call' = [calls EXCEPT ![k].at = at, ![k].ctx = entries]
        PROVE  Same
    BY <1>0, <2>1 DEF CallRecord
  <2> QED  BY <1>2, <2>1 DEF CloseEntry
<1>4. Evict(calls, k) => Same
  <2>1. CASE call' = [calls EXCEPT ![k].at = "draining", ![k].ctx = inflight]
    BY <1>0, <2>1 DEF CallRecord
  <2> QED  BY <1>3, <2>1 DEF Evict
<1> QED  BY <1>1, <1>2, <1>3, <1>4

\* The load that a call waits for after Load has the name of now, or was under way.
LEMMA LoadNames ==
    ASSUME TypeOK, NEW k \in Call, NEW calls \in [Call -> CallRecord], Load(calls, k),
           call'[k].at # "over"
    PROVE  \/ SameLoad /\ inflight # None /\ call'[k].ctx = inflight
           \/ /\ call'[k].ctx \in Context
              /\ context'[call'[k].ctx] = [at |-> "starting", name |-> row.name]
<1>0. calls[k] \in CallRecord  OBVIOUS
<1>1. CASE inflight # None /\ call' = [calls EXCEPT ![k].at = "loading", ![k].ctx = inflight] /\ SameLoad
  BY <1>0, <1>1 DEF CallRecord
<1>2. CASE inflight = None /\ StartLoad(calls, k)
  <2>1. CASE call' = [calls EXCEPT ![k].at = "over"]
    BY <1>0, <2>1 DEF CallRecord
  <2>2. ASSUME NEW c \in Context,
               context' = [context EXCEPT ![c] = [at |-> "starting", name |-> row.name]],
               call' = [calls EXCEPT ![k].at = "loading", ![k].ctx = c]
        PROVE  call'[k].ctx = c /\ context'[c] = [at |-> "starting", name |-> row.name]
    BY <1>0, <2>2 DEF CallRecord, TypeOK
  <2> QED  BY <1>2, <2>1, <2>2 DEF StartLoad
<1> QED  BY <1>1, <1>2 DEF Load, SameLoad

\* A step of call k leaves the other calls as they should be.
LEMMA OthersStayNamed ==
    ASSUME SInv, NEW k \in Call, Others(k, call), SameLoad \/ NewLoad,
           entries' \in {entries, None}, row'.name \in Nat, row.name <= row'.name,
           Named(k)'
    PROVE  \A j \in Call : Named(j)'
<1> SUFFICES ASSUME NEW j \in Call, j # k PROVE Named(j)'  OBVIOUS
<1>0. /\ TypeOK /\ IInv /\ Named(j) /\ call'[j] = call[j] /\ row.name \in Nat
      /\ call[j].name \in Nat /\ \A c \in Context : c # None
  BY DEF SInv, UInv, IInv, TypeOK, CallRecord, Others, Context, None
<1>1. ASSUME NEW c \in Context, context[c].at # "unused" PROVE context'[c] = context[c]
  BY <1>0, <1>1 DEF SameLoad, NewLoad, TypeOK
<1>2. ASSUME NEW c \in Context, c \in {entries', inflight'}
      PROVE  \/ c \in {entries, inflight} /\ context'[c] = context[c]
             \/ context'[c].name = row.name
  <2>1. CASE c \in {entries, inflight}  BY <1>0, <1>1, <2>1, KnownHasBegun
  <2>2. CASE c \notin {entries, inflight}
    <3>1. NewLoad /\ c = inflight'  BY <1>0, <1>2, <2>2 DEF SameLoad
    <3> QED  BY <1>0, <3>1 DEF NewLoad, TypeOK
  <2> QED  BY <2>1, <2>2
<1>3. call[j].op = "rename" =>
        /\ call[j].name <= row'.name
        /\ \A c \in Context : c \in {entries', inflight'} =>
             \/ call[j].name <= context'[c].name
             \/ call[j].at \in {"draining", "closing"} /\ call[j].ctx = c
  BY <1>0, <1>2 DEF Named
<1>4. call[j].op = "get" /\ call[j].at \in {"loading", "using"} =>
        /\ context'[call[j].ctx].at # "unused"
        /\ call[j].name <= context'[call[j].ctx].name
  <2>1. call[j].at \in {"loading", "using"} => call[j].ctx \in Context
    BY <1>0 DEF IInv, UsersHaveOne
  <2> QED  BY <1>0, <1>1, <2>1 DEF Named
<1> QED  BY <1>0, <1>3, <1>4 DEF Named

\* A step that begins or answers no call, other than that a request is through.
LEMMA RestStaysNamed ==
    ASSUME SInv, UNCHANGED row,
           \A c \in Context : c \in {entries', inflight'} => c \in {entries, inflight},
           \A c \in Context : /\ context'[c].name = context[c].name
                              /\ context[c].at # "unused" => context'[c].at # "unused",
           \A j \in Call : \/ call'[j] = call[j]
                           \/ call[j].at = "using" /\ call'[j].at = "over" /\ call'[j].op = call[j].op
    PROVE  \A j \in Call : Named(j)'
<1> SUFFICES ASSUME NEW j \in Call PROVE Named(j)'  OBVIOUS
<1>0. Named(j) /\ (call[j].at \in {"loading", "using"} => call[j].ctx \in Context)
  BY DEF SInv, UInv, IInv, UsersHaveOne
<1>1. CASE call'[j] = call[j]  BY <1>0, <1>1 DEF Named
<1>2. CASE call[j].at = "using" /\ call'[j].at = "over" /\ call'[j].op = call[j].op
  BY <1>0, <1>2 DEF Named
<1> QED  BY <1>1, <1>2

LEMMA StepSInv == SInv /\ [Next]_vars => SInv'
<1> SUFFICES ASSUME SInv, [Next]_vars PROVE \A j \in Call : Named(j)'
  BY StepUInv DEF SInv
<1> USE DEF None
<1>0. /\ TypeOK /\ IInv /\ call \in [Call -> CallRecord] /\ Caller \subseteq Call
      /\ row.name \in Nat /\ \A c \in Context : c # None
  BY DEF SInv, UInv, IInv, TypeOK, Call, Context
<1>1. ASSUME NEW k \in Caller, Get(k) PROVE \A j \in Call : Named(j)'
  <2>1. PICK n \in Answered \cup {0} :
            \/ /\ entries # None
               /\ call' = [[call EXCEPT ![k].op = "get", ![k].name = n] EXCEPT ![k].at = "using", ![k].ctx = entries]
               /\ SameLoad
            \/ entries = None /\ Load([call EXCEPT ![k].op = "get", ![k].name = n], k)
    BY <1>1 DEF Get, SameLoad
  <2> DEFINE calls == [call EXCEPT ![k].op = "get", ![k].name = n]
  <2>2. n \in Nat /\ n <= row.name /\ \A c \in Context : c \in {entries, inflight} => n <= context[c].name
    <3>1. CASE n = 0
      <4>1. \A c \in Context : context[c].name \in Nat  BY <1>0 DEF TypeOK, ContextRecord
      <4> QED  BY <1>0, <3>1, <4>1
    <3>2. CASE n \in Answered
      <4>1. PICK j \in Call : n = call[j].name /\ call[j].op = "rename" /\ call[j].at = "over"
        BY <3>2 DEF Answered
      <4> QED  BY <1>0, <4>1 DEF SInv, Named, CallRecord
    <3> QED  BY <3>1, <3>2
  <2>3. /\ calls \in [Call -> CallRecord] /\ calls[k].op = "get" /\ calls[k].name = n
        /\ \A j \in Call \ {k} : calls[j] = call[j]
    BY <1>0, <2>2 DEF CallRecord
  <2> HIDE DEF calls
  <2>4. CASE entries # None /\ call' = [calls EXCEPT ![k].at = "using", ![k].ctx = entries] /\ SameLoad
    <3>1. entries \in Context  BY <1>0, <2>4 DEF TypeOK
    <3>2. /\ Others(k, call) /\ call'[k].at = "using" /\ call'[k].op = "get"
          /\ call'[k].name = n /\ call'[k].ctx = entries
      BY <1>0, <2>3, <2>4, <3>1 DEF Others, CallRecord
    <3>3. context[entries].at # "unused"  BY <1>0, <3>1, KnownHasBegun
    <3>4. Named(k)'  BY <2>2, <2>4, <3>1, <3>2, <3>3 DEF Named, SameLoad
    <3> QED  BY <1>0, <1>1, <2>4, <3>2, <3>4, OthersStayNamed DEF Get
  <2>5. CASE entries = None /\ Load(calls, k)
    <3>1. /\ Others(k, calls) /\ call'[k].op = "get" /\ call'[k].name = n
          /\ (SameLoad \/ NewLoad)
      BY <1>0, <2>3, <2>5, LoadDoes, NameStays
    <3>2. call'[k].at \in {"over", "loading"}
      BY <1>0, <2>3, <2>5, LoadDoes
    <3>3. Others(k, call)  BY <2>3, <3>1 DEF Others
    <3>4. call'[k].at = "loading" =>
            /\ context'[call'[k].ctx].at # "unused"
            /\ n <= context'[call'[k].ctx].name
      <4> SUFFICES ASSUME call'[k].at = "loading"
                   PROVE  /\ context'[call'[k].ctx].at # "unused"
                          /\ n <= context'[call'[k].ctx].name
        OBVIOUS
      <4>1. \/ SameLoad /\ inflight # None /\ call'[k].ctx = inflight
            \/ /\ call'[k].ctx \in Context
               /\ context'[call'[k].ctx] = [at |-> "starting", name |-> row.name]
        BY <1>0, <2>3, <2>5, LoadNames
      <4>2. CASE SameLoad /\ inflight # None /\ call'[k].ctx = inflight
        <5>1. inflight \in Context  BY <1>0, <4>2 DEF TypeOK
        <5> QED  BY <1>0, <2>2, <4>2, <5>1, KnownHasBegun DEF SameLoad
      <4> QED  BY <2>2, <4>1, <4>2
    <3>5. Named(k)'  BY <3>1, <3>2, <3>4 DEF Named
    <3> QED  BY <1>0, <1>1, <3>1, <3>3, <3>5, OthersStayNamed DEF Get
  <2> QED  BY <2>1, <2>4, <2>5 DEF calls
<1>2. ASSUME NEW k \in Caller, Rename(k) PROVE \A j \in Call : Named(j)'
  <2>1. PICK name \in Nat :
            /\ row' = [row EXCEPT !.name = name] /\ row.name <= name
            /\ \/ row.registered /\ Evict([call EXCEPT ![k].op = "rename", ![k].name = name], k)
               \/ call' = [call EXCEPT ![k].op = "rename", ![k].at = "over"] /\ SameLoad
    <3>1. \A name \in IF row.registered THEN {row.name, row.name + 1} ELSE {row.name} :
              name \in Nat /\ row.name <= name
      BY <1>0
    <3> QED  BY <1>2, <3>1 DEF Rename, SameLoad
  <2>2. row'.name = name /\ entries' = entries  BY <1>0, <1>2, <2>1 DEF TypeOK, Rename
  <2> DEFINE calls == [call EXCEPT ![k].op = "rename", ![k].name = name]
  <2>3. /\ Noted(calls, k) /\ calls[k].op = "rename" /\ calls[k].name = name
        /\ calls \in [Call -> CallRecord]
    BY <1>0, <2>1 DEF Noted, CallRecord
  <2>4. CASE row.registered /\ Evict(calls, k)
    <3> HIDE DEF calls
    <3>1. CallStep(k) /\ call'[k].op = "rename" /\ call'[k].name = name /\ call'[k].at # "using"
      BY <1>0, <2>3, <2>4, EvictDoes, NameStays
    <3>2. /\ SameLoad
          /\ IF inflight = None THEN call'[k].at = IF entries = None THEN "over" ELSE "closing"
             ELSE call'[k].at = "draining" /\ call'[k].ctx = inflight
      BY <1>0, <2>3, <2>4, EvictionEnds
    <3>3. \A c \in Context : c \in {entries, inflight} =>
              call'[k].at \in {"draining", "closing"} /\ call'[k].ctx = c
      BY <1>0, <3>1, <3>2 DEF CallStep, IInv, OneOfTwo
    <3>4. Named(k)'  BY <2>1, <2>2, <3>1, <3>2, <3>3 DEF Named, SameLoad, CallStep
    <3> QED  BY <1>0, <2>1, <2>2, <3>1, <3>2, <3>4, OthersStayNamed DEF CallStep
  <2>5. CASE call' = [call EXCEPT ![k].op = "rename", ![k].at = "over"] /\ SameLoad
    <3>1. call[k].name = 0  BY <1>0, <1>2 DEF SInv, Named, Rename, Begin
    <3>2. Others(k, call) /\ call'[k].op = "rename" /\ call'[k].at = "over" /\ call'[k].name = 0
      BY <1>0, <2>5, <3>1 DEF Others, CallRecord
    <3>3. \A c \in Context : context[c].name \in Nat  BY <1>0 DEF TypeOK, ContextRecord
    <3>4. /\ call'[k].name <= row'.name
          /\ \A c \in Context : call'[k].name <= context'[c].name
      <4>1. context' = context  BY <2>5 DEF SameLoad
      <4>2. 0 <= row'.name  BY <2>1, <2>2
      <4> QED  BY <3>2, <3>3, <4>1, <4>2
    <3>5. Named(k)'  BY <3>2, <3>4 DEF Named
    <3> QED  BY <1>0, <2>1, <2>2, <2>5, <3>2, <3>5, OthersStayNamed
  <2> QED  BY <2>1, <2>4, <2>5
<1>3. ASSUME NEW k \in Call, NEW calls, Noted(calls, k), Evict(calls, k),
             calls[k].op \in {"unregister", "reload", "closeAll"},
             row'.name = row.name, entries' = entries
      PROVE  \A j \in Call : Named(j)'
  <2>1. /\ CallStep(k) /\ call'[k].op = calls[k].op /\ call'[k].at # "using"
    BY <1>0, <1>3, EvictDoes, NameStays DEF Noted
  <2>2. Named(k)'  BY <1>3, <2>1 DEF Named, CallStep
  <2> QED  BY <1>0, <1>3, <2>1, <2>2, OthersStayNamed DEF CallStep
<1>4. ASSUME NEW k \in Caller, Unregister(k) PROVE \A j \in Call : Named(j)'
  <2> DEFINE calls == [call EXCEPT ![k].op = "unregister"]
  <2>1. Noted(calls, k) /\ calls[k].op = "unregister"  BY <1>0 DEF Noted, CallRecord
  <2>2. Evict(calls, k) /\ row'.name = row.name /\ entries' = entries
    BY <1>0, <1>4 DEF Unregister, TypeOK
  <2> HIDE DEF calls
  <2> QED  BY <1>0, <1>3, <2>1, <2>2
<1>5. ASSUME NEW k \in Caller, Reload(k) PROVE \A j \in Call : Named(j)'
  <2> DEFINE calls == [call EXCEPT ![k].op = "reload"]
  <2>1. Noted(calls, k) /\ calls[k].op = "reload"  BY <1>0 DEF Noted, CallRecord
  <2>2. Evict(calls, k) /\ row' = row /\ entries' = entries  BY <1>5 DEF Reload
  <2> HIDE DEF calls
  <2> QED  BY <1>0, <1>3, <2>1, <2>2
<1>6. CASE CloseAll
  <2> DEFINE calls == [call EXCEPT ![Server].op = "closeAll"]
  <2>0. Server \in Call  BY DEF Call
  <2>1. Noted(calls, Server) /\ calls[Server].op = "closeAll"  BY <1>0, <2>0 DEF Noted, CallRecord
  <2>2. Evict(calls, Server) /\ row' = row /\ entries' = entries  BY <1>6 DEF CloseAll
  <2> HIDE DEF calls
  <2> QED  BY <1>3, <2>0, <2>1, <2>2
<1>7. ASSUME NEW k \in Call, LoadSeen(k) PROVE \A j \in Call : Named(j)'
  <2>1. /\ Others(k, call) /\ call'[k].op = call[k].op /\ call'[k].name = call[k].name
        /\ call'[k].ctx = call[k].ctx /\ call[k].at = "loading"
        /\ call'[k].at \in {"using", "over"}
        /\ call'[k].at = "using" => call[k].op = "get"
    BY <1>0, <1>7 DEF LoadSeen, Others, CallRecord
  <2>2. SameLoad /\ row' = row /\ entries' = entries  BY <1>7 DEF LoadSeen, SameLoad
  <2>3. Named(k)'  BY <2>1, <2>2 DEF SInv, Named, SameLoad
  <2> QED  BY <1>0, <2>1, <2>2, <2>3, OthersStayNamed
<1>8. ASSUME NEW k \in Call, DrainReturns(k) PROVE \A j \in Call : Named(j)'
  <2>1. Noted(call, k) /\ CloseEntry(call, k) /\ row' = row /\ entries' = entries
    BY <1>0, <1>8 DEF Noted, DrainReturns
  <2>2. /\ CallStep(k) /\ call'[k].op = call[k].op /\ call'[k].name = call[k].name
        /\ call'[k].at # "using"
    BY <1>0, <2>1, CloseEntryDoes, NameStays
  <2>3. Named(k)'
    <3>1. CASE call[k].op = "reload"  BY <2>2, <3>1 DEF Named, CallStep
    <3>2. CASE call[k].op # "reload"
      <4>1. SameLoad /\ call'[k].at = IF entries = None THEN "over" ELSE "closing"
        BY <1>0, <2>1, <3>2, EvictionEnds
      <4>2. ASSUME NEW c \in Context, c \in {entries, inflight}, call[k].op = "rename"
            PROVE  call[k].name <= context[c].name \/ (call'[k].at = "closing" /\ call'[k].ctx = c)
        <5>1. CASE entries = None
          <6>1. Loading(c)  BY <1>0, <4>2, <5>1 DEF IInv, Stages
          <6>2. call[k].ctx # c  BY <1>8, <6>1 DEF DrainReturns, Due
          <6> QED  BY <4>2, <6>2 DEF SInv, Named
        <5>2. CASE entries # None
          BY <1>0, <2>2, <4>1, <4>2, <5>2 DEF IInv, OneOfTwo, CallStep
        <5> QED  BY <5>1, <5>2
      <4>3. call[k].op = "rename" => call[k].name <= row.name  BY DEF SInv, Named
      <4> QED  BY <2>1, <2>2, <4>1, <4>2, <4>3 DEF Named, SameLoad
    <3> QED  BY <3>1, <3>2
  <2> QED  BY <1>0, <2>1, <2>2, <2>3, OthersStayNamed DEF CallStep
<1>9. ASSUME NEW k \in Call, CloseReturns(k) PROVE \A j \in Call : Named(j)'
  <2>1. Finish(call, k) /\ row' = row /\ entries' = None  BY <1>9 DEF CloseReturns
  <2>2. /\ Others(k, call) /\ call'[k].op = call[k].op /\ call'[k].name = call[k].name
        /\ call'[k].at \in {"over", "loading"} /\ (SameLoad \/ NewLoad)
    BY <1>0, <2>1, FinishDoes, NameStays
  <2>3. Named(k)'
    <3>1. CASE call[k].op = "reload"  BY <2>2, <3>1 DEF Named
    <3>2. CASE call[k].op # "reload"
      <4>1. SameLoad /\ call'[k].at = "over"  BY <1>0, <2>1, <3>2, EvictionEnds
      <4>2. ASSUME NEW c \in Context, c = inflight, call[k].op = "rename"
            PROVE  call[k].name <= context[c].name
        <5>1. Loading(c)  BY <1>0, <4>2 DEF IInv, Stages
        <5>2. context[call[k].ctx].at = "ready"  BY <1>0, <1>9 DEF IInv, ClosersInTurn, CloseReturns
        <5> QED  BY <4>2, <5>1, <5>2 DEF SInv, Named, Loading
      <4>3. call[k].op = "rename" => call[k].name <= row.name  BY DEF SInv, Named
      <4> QED  BY <1>0, <2>1, <2>2, <4>1, <4>2, <4>3 DEF Named, SameLoad
    <3> QED  BY <3>1, <3>2
  <2> QED  BY <1>0, <2>1, <2>2, <2>3, OthersStayNamed
<1>10. ASSUME NEW c \in Context, Compose(c) \/ ComposeWorkflow(c) PROVE \A j \in Call : Named(j)'
  <2>1. inflight = c /\ c # None  BY <1>0, <1>10 DEF IInv, Stages, Compose, ComposeWorkflow, Loading
  <2>2. /\ row' = row /\ call' = call /\ inflight' \in {inflight, None} /\ entries' \in {entries, c}
        /\ \E at \in {"recovering", "ready", "failed"} : context' = [context EXCEPT ![c].at = at]
    BY <1>10 DEF Compose, ComposeWorkflow, Fail
  <2>3. \A b \in Context : /\ context'[b].name = context[b].name
                           /\ context[b].at # "unused" => context'[b].at # "unused"
    BY <1>0, <2>2 DEF TypeOK, ContextRecord
  <2>4. \A b \in Context : b \in {entries', inflight'} => b \in {entries, inflight}
    BY <1>0, <2>1, <2>2
  <2> QED  BY <2>2, <2>3, <2>4, RestStaysNamed
<1>11. ASSUME NEW k \in Caller, RequestDispatches(k) PROVE \A j \in Call : Named(j)'
  <2>1. \A j \in Call : \/ call'[j] = call[j]
                        \/ call[j].at = "using" /\ call'[j].at = "over" /\ call'[j].op = call[j].op
    BY <1>0, <1>11 DEF RequestDispatches, CallRecord
  <2> QED  BY <1>11, <2>1, RestStaysNamed DEF RequestDispatches, Dispatch
<1>12. CASE UNCHANGED <<row, entries, inflight, context, call>>  BY <1>12, RestStaysNamed
<1> QED
  BY <1>1, <1>2, <1>4, <1>5, <1>6, <1>7, <1>8, <1>9, <1>10, <1>11, <1>12
  DEF Next, Continue, Tick, Fire, DispatchAtWork, Dispatch, WorkEnds, AgentExits, Terminate, Exit, vars

\* A request that came after a rename was answered sees the new name, however
\* many renames, reloads and loads are under way (WorkspaceContextRegistry.get,
\* Application.renameWorkspace).
THEOREM RequestsSeeNames == Spec => []SeesItsName
<1>1. Init => SInv
  BY InitInv DEF SInv, Named, UInv, Init, Unregistering, Ready
<1>2. SInv /\ [Next]_vars => SInv'  BY StepSInv
<1>3. SInv => SeesItsName
  <2> SUFFICES ASSUME SInv, NEW k \in Caller, call[k].at = "using"
               PROVE  context[call[k].ctx].name >= call[k].name
    BY DEF SeesItsName
  <2>1. k \in Call /\ Named(k) /\ call[k].ctx \in Context
    BY DEF SInv, UInv, IInv, UsersHaveOne, Call
  <2>2. context[call[k].ctx].name \in Nat /\ call[k].name \in Nat
    BY <2>1 DEF SInv, UInv, IInv, TypeOK, ContextRecord, CallRecord
  <2> QED  BY <2>1, <2>2 DEF Named
<1> QED  BY <1>1, <1>2, <1>3, PTL DEF Spec
=============================================================================
