------------------------- MODULE WorkspaceContexts -------------------------
(***************************************************************************)
(* WorkspaceContextRegistry of packages/api, for one workspace: contexts    *)
(* are built on the first request, rebuilt by reload, closed by rename,     *)
(* unregister and the end of the server, while requests, ticks of the       *)
(* workflow engine and fires of the scheduler use them.                     *)
(*                                                                         *)
(* Grain.  A step is what runs until the next wait for something outside    *)
(* the process.  Continuations whose promise has settled run before         *)
(* anything else does: see Turn.                                            *)
(***************************************************************************)
EXTENDS Naturals, FiniteSets

CONSTANTS
    Caller,      \* HTTP requests, each makes one call
    Server,      \* gracefulShutdown, which calls closeAll
    Task,
    MaxContexts  \* bound: how many contexts are built

ASSUME CallerAssumption == Server \notin Caller
ASSUME ContextsAssumption == MaxContexts \in Nat \ {0}

VARIABLES
    row,       \* the workspace in the table of WorkspaceService
    entries,   \* the registry: the context that is served, or None
    inflight,  \* the context under construction, or None
    context,   \* each: how far its load is, and the name it read
    opened,    \* the modules of a context that are open
    work,      \* what runs in a context and may dispatch
    call,      \* each: its operation, what it waits for, the name it wrote or must see
    status,    \* the rows of table tasks
    working,   \* the tasks some agent process works for
    owner,     \* the context whose TaskService supervises a task
    server,    \* gracefulShutdown
    stopped    \* the context whose tasks.shutdown was called, or None

tasks == <<status, working, owner>>
vars == <<row, entries, inflight, context, opened, work, call, tasks, server, stopped>>

None == 0
Context == 1..MaxContexts
Module == {"catalog", "session", "task", "schedule", "workflow"}
Call == Caller \cup {Server}
ContextRecord == [at : {"unused", "starting", "recovering", "ready", "failed"}, name : Nat]
CallRecord == [op : {"none", "get", "rename", "unregister", "reload", "closeAll"},
               at : {"ready", "loading", "draining", "closing", "using", "over"},
               ctx : Context \cup {None}, name : Nat]

Init ==
    /\ row = [registered |-> TRUE, name |-> 0]
    /\ entries = None /\ inflight = None
    /\ context = [c \in Context |-> [at |-> "unused", name |-> 0]]
    /\ opened = [c \in Context |-> {}]
    /\ work = {}
    /\ call = [k \in Call |-> [op |-> "none", at |-> "ready", ctx |-> None, name |-> 0]]
    /\ status = [t \in Task |-> "absent"]
    /\ working = {}
    /\ owner = [t \in Task |-> None]
    /\ server = "serving" /\ stopped = None

-----------------------------------------------------------------------------
Loading(c) == context[c].at \in {"starting", "recovering"}
Closing(c) == \E k \in Call : call[k].at = "closing" /\ call[k].ctx = c
LiveCount(c) == Cardinality({t \in working : owner[t] = c})

CloseDueIdle(c) == <<c, "tick">> \notin work /\ LiveCount(c) = 0
CloseDue(c) == <<c, "tick">> \notin work

Due(k) ==
    \/ call[k].at \in {"loading", "draining"} /\ ~Loading(call[k].ctx)
    \/ call[k].at = "closing" /\ CloseDue(call[k].ctx)
Turn == server # "closed" /\ \A k \in Call : ~Due(k)

(* get, where there is no entry *)
FirstUnused(c) == context[c].at = "unused" /\ \A b \in 1..c - 1 : context[b].at # "unused"

StartLoad(calls, k) ==
    \/ /\ row.registered
       /\ \E c \in Context :
           /\ FirstUnused(c)
           /\ context' = [context EXCEPT ![c] = [at |-> "starting", name |-> row.name]]
           /\ inflight' = c
           /\ call' = [calls EXCEPT ![k].at = "loading", ![k].ctx = c]
    \/ /\ ~row.registered
       /\ call' = [calls EXCEPT ![k].at = "over"]
       /\ UNCHANGED <<context, inflight>>

LoadUnshared(calls, k) == StartLoad(calls, k)
Load(calls, k) ==
    \/ inflight = None /\ StartLoad(calls, k)
    \/ /\ inflight # None
       /\ call' = [calls EXCEPT ![k].at = "loading", ![k].ctx = inflight]
       /\ UNCHANGED <<context, inflight>>

Begin(k) == Turn /\ server = "serving" /\ call[k].at = "ready"

\* The newest name a rename has answered with.
Answered == {call[k].name : k \in {k \in Call : call[k].op = "rename" /\ call[k].at = "over"}}
Told(n) == \A m \in Answered : m <= n

Get(k) ==
    /\ Begin(k)
    /\ \E n \in Answered \cup {0} :
        /\ Told(n)
        /\ LET calls == [call EXCEPT ![k].op = "get", ![k].name = n]
           IN  \/ /\ entries # None
                  /\ call' = [calls EXCEPT ![k].at = "using", ![k].ctx = entries]
                  /\ UNCHANGED <<context, inflight>>
               \/ entries = None /\ Load(calls, k)
    /\ UNCHANGED <<row, entries, opened, work, tasks, server, stopped>>

LoadSeen(k) ==
    /\ call[k].at = "loading" /\ Due(k)
    /\ LET served == call[k].op = "get" /\ context[call[k].ctx].at = "ready"
       IN  call' = [call EXCEPT ![k].at = IF served THEN "using" ELSE "over"]
    /\ UNCHANGED <<row, entries, inflight, context, opened, work, tasks, server, stopped>>

(* invalidate, reload, closeAll: drain the load, close the entry, drop it *)
Finish(calls, k) ==
    IF calls[k].op = "reload" THEN Load(calls, k)
    ELSE call' = [calls EXCEPT ![k].at = "over"] /\ UNCHANGED <<context, inflight>>

CloseEntry(calls, k) ==
    \/ entries = None /\ Finish(calls, k)
    \/ /\ entries # None
       /\ LET refused == calls[k].op = "reload" /\ LiveCount(entries) > 0
          IN  call' = [calls EXCEPT ![k].at = IF refused THEN "over" ELSE "closing", ![k].ctx = entries]
       /\ UNCHANGED <<context, inflight>>

EvictUndrained(calls, k) == CloseEntry(calls, k)
Evict(calls, k) ==
    \/ inflight = None /\ CloseEntry(calls, k)
    \/ /\ inflight # None
       /\ call' = [calls EXCEPT ![k].at = "draining", ![k].ctx = inflight]
       /\ UNCHANGED <<context, inflight>>

DrainReturns(k) ==
    /\ call[k].at = "draining" /\ Due(k)
    /\ CloseEntry(call, k)
    /\ UNCHANGED <<row, entries, opened, work, tasks, server, stopped>>

CloseReturns(k) ==
    /\ call[k].at = "closing" /\ Due(k)
    /\ opened' = [opened EXCEPT ![call[k].ctx] = {}]
    /\ entries' = None
    /\ Finish(call, k)
    /\ UNCHANGED <<row, work, tasks, server, stopped>>

\* A rename to the name it has changes nothing and evicts all the same.
Rename(k) ==
    /\ Begin(k)
    /\ \E name \in IF row.registered THEN {row.name, row.name + 1} ELSE {row.name} :
        /\ row' = [row EXCEPT !.name = name]
        /\ IF row.registered THEN Evict([call EXCEPT ![k].op = "rename", ![k].name = name], k)
           ELSE call' = [call EXCEPT ![k].op = "rename", ![k].at = "over"] /\ UNCHANGED <<context, inflight>>
    /\ UNCHANGED <<entries, opened, work, tasks, server, stopped>>

Unregister(k) ==
    /\ Begin(k)
    /\ row' = [row EXCEPT !.registered = FALSE]
    /\ Evict([call EXCEPT ![k].op = "unregister"], k)
    /\ UNCHANGED <<entries, opened, work, tasks, server, stopped>>

Reload(k) ==
    /\ Begin(k)
    /\ Evict([call EXCEPT ![k].op = "reload"], k)
    /\ UNCHANGED <<row, entries, opened, work, tasks, server, stopped>>

(* load *)
FailAllButTasks(c) ==
    /\ opened' = [opened EXCEPT ![c] = @ \cap {"task"}]
    /\ context' = [context EXCEPT ![c].at = "failed"]
    /\ inflight' = None
Fail(c) ==
    /\ opened' = [opened EXCEPT ![c] = {}]
    /\ context' = [context EXCEPT ![c].at = "failed"]
    /\ inflight' = None

\* recoverOrphaned, over the rows of the workspace
RecoverOrphaned == status' = [t \in Task |-> IF status[t] = "running" THEN "orphaned" ELSE status[t]]

Compose(c) ==
    /\ Turn /\ context[c].at = "starting"
    /\ \/ Fail(c) /\ UNCHANGED <<work, status>>
       \/ /\ opened' = [opened EXCEPT ![c] = Module \ {"workflow"}]
          /\ context' = [context EXCEPT ![c].at = "recovering"]
          /\ RecoverOrphaned
          /\ work' \in {work, work \cup {<<c, "catchup">>}}
          /\ UNCHANGED inflight
    /\ UNCHANGED <<row, entries, call, working, owner, server, stopped>>

ComposeWorkflow(c) ==
    /\ Turn /\ context[c].at = "recovering" /\ <<c, "catchup">> \notin work
    /\ \/ Fail(c) /\ UNCHANGED entries
       \/ /\ opened' = [opened EXCEPT ![c] = Module]
          /\ context' = [context EXCEPT ![c].at = "ready"]
          /\ entries' = c /\ inflight' = None
    /\ UNCHANGED <<row, work, call, tasks, server, stopped>>

(* What goes on in a context *)
Tick(c) ==
    /\ Turn /\ "workflow" \in opened[c] /\ ~Closing(c)
    /\ work' = work \cup {<<c, "tick">>}
    /\ UNCHANGED <<row, entries, inflight, context, opened, call, tasks, server, stopped>>

Dispatch(c, t) ==
    /\ Turn /\ "task" \in opened[c] /\ c # stopped /\ status[t] = "absent"
    /\ status' = [status EXCEPT ![t] = "running"]
    /\ working' = working \cup {t}
    /\ owner' = [owner EXCEPT ![t] = c]
    /\ UNCHANGED <<row, entries, inflight, context, opened, server, stopped>>

\* A fire whose module was closed meanwhile fails and leaves nothing.
Fire(c, t) == "schedule" \in opened[c] /\ Dispatch(c, t) /\ UNCHANGED <<work, call>>
DispatchAtWork(w) == (\E t \in Task : Dispatch(w[1], t)) /\ UNCHANGED <<work, call>>
WorkEnds(w) ==
    /\ Turn
    /\ work' = work \ {w}
    /\ UNCHANGED <<row, entries, inflight, context, opened, call, tasks, server, stopped>>

\* A request that dispatches nothing more may stay where it is.
RequestDispatches(k) ==
    /\ call[k].at = "using"
    /\ \E t \in Task : Dispatch(call[k].ctx, t)
    /\ call' = [call EXCEPT ![k].at = "over"]
    /\ UNCHANGED work
\* The outcome is saved if the database of the supervising context is open.
AgentExits(t) ==
    /\ Turn /\ t \in working
    /\ working' = working \ {t}
    /\ status' = IF "task" \in opened[owner[t]] THEN [status EXCEPT ![t] = "ended"] ELSE status
    /\ UNCHANGED <<row, entries, inflight, context, opened, work, call, owner, server, stopped>>

(* gracefulShutdown *)
\* server.close lets no request begin any more; it waits for the others, but not
\* for those whose client has gone: any may still be under way when the tasks
\* are told to stop.
Terminate ==
    /\ Turn /\ server = "serving"
    /\ server' = "stopping" /\ stopped' = entries
    /\ UNCHANGED <<row, entries, inflight, context, opened, work, call, tasks>>

CloseAll ==
    /\ Turn /\ server = "stopping"
    /\ stopped # None => LiveCount(stopped) = 0
    /\ server' = "closing"
    /\ Evict([call EXCEPT ![Server].op = "closeAll"], Server)
    /\ UNCHANGED <<row, entries, opened, work, tasks, stopped>>

Exit ==
    /\ Turn /\ server = "closing" /\ call[Server].at = "over"
    /\ server' = "closed"
    /\ UNCHANGED <<row, entries, inflight, context, opened, work, call, tasks, stopped>>

Continue(k) == LoadSeen(k) \/ DrainReturns(k) \/ CloseReturns(k)

Next ==
    \/ \E k \in Caller : Get(k) \/ Rename(k) \/ Unregister(k) \/ Reload(k)
                         \/ RequestDispatches(k)
    \/ \E k \in Call : Continue(k)
    \/ \E c \in Context : Compose(c) \/ ComposeWorkflow(c) \/ Tick(c)
    \/ \E c \in Context, t \in Task : Fire(c, t)
    \/ \E w \in work : DispatchAtWork(w) \/ WorkEnds(w)
    \/ \E t \in Task : AgentExits(t)
    \/ Terminate \/ CloseAll \/ Exit

Spec == Init /\ [][Next]_vars

\* Continuations run, loads come to an end, and so do ticks and catch-ups: a
\* dispatch returns once its agent is launched.
Fairness ==
    /\ WF_vars(\E k \in Call : Continue(k))
    /\ WF_vars(\E c \in Context : Compose(c) \/ ComposeWorkflow(c))
    /\ \A c \in Context : WF_vars(\E w \in work : w[1] = c /\ WorkEnds(w))
FairSpec == Spec /\ Fairness

-----------------------------------------------------------------------------
(* Properties *)

\* Every variable has the type of the field or row it stands for; the maps
\* of the registry hold contexts in the right state.
TypeOK ==
    /\ row \in [registered : BOOLEAN, name : Nat]
    /\ entries \in Context \cup {None} /\ inflight \in Context \cup {None}
    /\ context \in [Context -> ContextRecord]
    /\ entries # None => context[entries].at = "ready"
    /\ inflight # None => Loading(inflight)
    /\ opened \in [Context -> SUBSET Module]
    /\ work \subseteq Context \X {"tick", "catchup"}
    /\ call \in [Call -> CallRecord]
    /\ status \in [Task -> {"absent", "running", "ended", "orphaned"}]
    /\ working \subseteq Task
    /\ owner \in [Task -> Context \cup {None}]
    /\ server \in {"serving", "stopping", "closing", "closed"}
    /\ stopped \in Context \cup {None}

\* One workspace.db has one set of services at a time: no two contexts are
\* under construction or open, or the schedulers of both would fire.
Alive(c) == Loading(c) \/ opened[c] # {}
OneContext == \A b, c \in Context : Alive(b) /\ Alive(c) => b = c

\* What is open can be reached through the registry and so be closed
\* (workspace-context.ts: dropping entries without close() leaks them).
NothingLeaks == \A c \in Context : opened[c] # {} => c \in {entries, inflight}

\* A request that came after a rename was answered does not see an older name.
SeesItsName == \A k \in Caller : call[k].at = "using" => context[call[k].ctx].name >= call[k].name

\* Once unregister has answered nothing of the workspace is open or being built.
UnregisteredIsClosed ==
    (\E k \in Caller : call[k].op = "unregister" /\ call[k].at = "over") =>
        entries = None /\ inflight = None /\ \A c \in Context : opened[c] = {}

\* A task is failed as an orphan only when the services that supervised it are
\* closed.
SupervisedNotOrphaned ==
    [][\A t \in Task : status[t] = "running" /\ status'[t] = "orphaned" => opened[owner[t]] = {}]_vars

\* A tick of the engine finds its TaskService open (the order of close).
TicksMeetOpenTasks == \A c \in Context : <<c, "tick">> \in work => "task" \in opened[c]

\* Every call is answered, even one that has to wait for a load or a close.
CallsReturn ==
    \A k \in Call : call[k].at \in {"loading", "draining", "closing"} ~>
        server = "closed" \/ call[k].at \in {"using", "over"}
=============================================================================
