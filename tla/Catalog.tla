------------------------------ MODULE Catalog ------------------------------
(***************************************************************************)
(* The catalog of packages/catalog: plans are made, kept under a token and  *)
(* applied entry by entry, entries are edited, flagged and deleted, all by  *)
(* requests that interleave, while upstream publishes.                      *)
(*                                                                         *)
(* Grain.  The rows are read and written synchronously, so what a request   *)
(* does between two fetches is one step.  Between the plan and each entry   *)
(* of its application it waits, for the user or for the network.  A plan    *)
(* itself is made at once.                                                  *)
(***************************************************************************)
EXTENDS CatalogPlan

CONSTANTS
    Client,          \* requests that may be under way at the same time
    Initially,       \* what it offers at first
    MaxCalls, MaxPublishes   \* bounds

ASSUME BoundsAssumption == MaxCalls \in Nat /\ MaxPublishes \in Nat
ASSUME InitiallyAssumption ==
    /\ Initially \in [Origin -> Content \cup {Gone}]
    /\ \A o \in Origin : Initially[o] \in Contents[o] \cup {Gone}

VARIABLES
    call,            \* the request of each client
    calls, publishes,
    calm             \* history: clients whose plan nothing has overtaken

vars == <<up, row, call, calls, publishes, calm>>

Idle == [at |-> "idle"]
Ready(c) == call[c].at \in {"idle", "done"} /\ calls < MaxCalls

Init ==
    /\ up = Initially
    /\ row = [n \in Name |-> None]
    /\ call = [c \in Client |-> Idle]
    /\ calls = 0 /\ publishes = 0
    /\ calm = {}

\* The author of an entry pushes, renames or removes it.
Publish(o) ==
    /\ publishes < MaxPublishes
    /\ \E content \in Contents[o] \cup {Gone} :
        content # up[o] /\ up' = [up EXCEPT ![o] = content]
    /\ publishes' = publishes + 1
    /\ calm' = {}
    /\ UNCHANGED <<row, call, calls>>

-----------------------------------------------------------------------------
(* Plans. *)

Planned(c, plan) ==
    /\ Ready(c) /\ ~plan.cyclic
    /\ calls' = calls + 1
    /\ call' = [call EXCEPT ![c] =
        [at |-> "planned", plan |-> plan, todo |-> plan.install,
         poisoned |-> {}, failed |-> {}]]
    /\ calm' = calm \cup {c}
    /\ UNCHANGED <<up, row, publishes>>

\* resolveSkill, resolveAgentFromOrigin, resolveMcp.
Resolve(c, o) == Planned(c, Plan(o, FALSE))

\* resolveSyncSkill, resolveSyncAgent, resolveSyncMcp need a row.
ResolveSync(c, n) == n \in Installed /\ Planned(c, Plan(row[n].origin, TRUE))

\* The token of a plan is good once, and for five minutes.
PlanExpires(c) ==
    /\ call[c].at = "planned"
    /\ call' = [call EXCEPT ![c] = Idle]
    /\ UNCHANGED <<up, row, calls, publishes, calm>>

Dependents(n) == {m \in Installed : n \in row[m].deps}

\* Bug: nobody asks who depends on an entry.
MayDelete_Unasked(n) == n \in Installed

\* The check and the deletion are one transaction.
MayDelete(n) == n \in Installed /\ Dependents(n) = {}

Removed(n) == [row EXCEPT ![n] = None]

\* takePlan, then install, or applySync, which deletes what is renamed first.
Apply(c) ==
    /\ call[c].at = "planned"
    /\ call[c].plan.old # None => MayDelete(call[c].plan.old)
    /\ call' = [call EXCEPT ![c].at = "fetching"]
    /\ IF call[c].plan.old = None THEN UNCHANGED <<row, calm>>
       ELSE row' = Removed(call[c].plan.old) /\ calm' = calm \cap {c}
    /\ UNCHANGED <<up, calls, publishes>>

ApplyRefused(c) ==
    /\ call[c].at = "planned"
    /\ call[c].plan.old # None /\ ~MayDelete(call[c].plan.old)
    /\ call' = [call EXCEPT ![c] = Idle]
    /\ UNCHANGED <<up, row, calls, publishes, calm>>

-----------------------------------------------------------------------------
(* One entry after the other. *)

AtWork(c) == call[c].at = "fetching" /\ call[c].todo # <<>>
Node(c) == Head(call[c].todo)
Try(c) == AtWork(c) /\ Node(c).deps \cap call[c].poisoned = {}

EntryDone(request, poisoned, failed) ==
    [request EXCEPT !.todo = Tail(@), !.poisoned = @ \cup poisoned, !.failed = @ \cup failed]
GoOn(c, poisoned, failed) == [call EXCEPT ![c] = EntryDone(@, poisoned, failed)]

\* An entry that depends on one that failed is not tried.
Skip(c) ==
    /\ AtWork(c) /\ Node(c).deps \cap call[c].poisoned # {}
    /\ call' = GoOn(c, {Node(c).origin}, {})
    /\ UNCHANGED <<up, row, calls, publishes, calm>>

\* buildInitialSkillState: nothing to acknowledge is acknowledged.
Fresh(o, content) ==
    [origin |-> o, version |-> content.version, deps |-> {}, prereqs |-> content.prereqs,
     ack |-> content.prereqs = NoPrereqs, off |-> FALSE]

\* What the user said of an entry outlives its update.
Carried(new, name) ==
    IF row[name] = None THEN new
    ELSE [new EXCEPT !.off = row[name].off,
                     !.ack = IF row[name].prereqs = new.prereqs THEN row[name].ack ELSE @]

\* A skill that lists itself drops the edge.
Linked(new, name, origins) ==
    [new EXCEPT !.deps = FqnsOf(origins) \ (IF KindOf[new.origin] = "skill" THEN {name} ELSE {})]

\* fetchTree, then the checks of install: the version is the plan's, and the
\* name is nobody else's.  What it is called and needs may differ.
Fetched(node) ==
    /\ up[node.origin] # Gone
    /\ up[node.origin].version = node.version
    /\ ~TakenByAnother(up[node.origin].name, node.origin)

\* repo.add: row, files and dependencies in one transaction.
Add(c, name, new) ==
    /\ row' = [row EXCEPT ![name] = new]
    /\ calm' = calm \cap {c}

InstallAnchored(c) ==
    /\ Try(c) /\ KindOf[Node(c).origin] # "mcp"
    /\ Fetched(Node(c))
    /\ LET o == Node(c).origin
           name == up[o].name
       IN  Add(c, name, Linked(Carried(Fresh(o, up[o]), name), name, up[o].deps))
    /\ call' = GoOn(c, {}, {})
    /\ UNCHANGED <<up, calls, publishes>>

\* An MCP is installed from the content of the plan.
InstallMcp(c) ==
    /\ Try(c) /\ KindOf[Node(c).origin] = "mcp"
    /\ ~TakenByAnother(Node(c).name, Node(c).origin)
    /\ Add(c, Node(c).name, Fresh(Node(c).origin, [version |-> Node(c).version, prereqs |-> NoPrereqs]))
    /\ call' = GoOn(c, {}, {})
    /\ UNCHANGED <<up, calls, publishes>>

\* Any fetch may fail; a failure is noted and the rest goes on.
InstallFails(c) ==
    /\ Try(c)
    /\ KindOf[Node(c).origin] = "mcp" => TakenByAnother(Node(c).name, Node(c).origin)
    /\ call' = GoOn(c, {Node(c).origin}, {Node(c).origin})
    /\ UNCHANGED <<up, row, calls, publishes, calm>>

Return(c) ==
    /\ call[c].at = "fetching" /\ call[c].todo = <<>>
    /\ call' = [call EXCEPT ![c].at = "done"]
    /\ UNCHANGED <<up, row, calls, publishes, calm>>

-----------------------------------------------------------------------------
(* Edits, flags and deletions. *)

\* updateAnchor keeps the name, the flags and the acknowledgement.
Patched(n, content) ==
    Linked([row[n] EXCEPT !.version = content.version, !.prereqs = content.prereqs],
           n, content.deps)

\* updateAnchor, and updateMetadata, which may not touch scope and name.
Update(n) ==
    /\ n \in Installed /\ row[n].origin \in Mutable
    /\ \E content \in Contents[row[n].origin] :
        content.name = n /\ row' = [row EXCEPT ![n] = Patched(n, content)]
    /\ calm' = {}
    /\ UNCHANGED <<up, call, calls, publishes>>

Delete(n) ==
    /\ MayDelete(n)
    /\ row' = Removed(n)
    /\ calm' = {}
    /\ UNCHANGED <<up, call, calls, publishes>>

\* acknowledgePrereqs writes its flag alone.
Acknowledge(n) ==
    /\ n \in Installed /\ ~row[n].ack
    /\ row' = [row EXCEPT ![n].ack = TRUE]
    /\ UNCHANGED <<up, call, calls, publishes, calm>>

\* disableByUser, enableByUser: agents only.
SetUserDisabled(n) ==
    /\ n \in Installed /\ KindOf[row[n].origin] = "agent"
    /\ row' = [row EXCEPT ![n].off = ~@]
    /\ UNCHANGED <<up, call, calls, publishes, calm>>

Next ==
    \/ \E o \in Origin : Publish(o)
    \/ \E c \in Client :
        \/ \E o \in Origin : Resolve(c, o)
        \/ \E n \in Name : ResolveSync(c, n)
        \/ PlanExpires(c)
        \/ Apply(c)
        \/ ApplyRefused(c)
        \/ Skip(c)
        \/ InstallAnchored(c)
        \/ InstallMcp(c)
        \/ InstallFails(c)
        \/ Return(c)
    \/ \E n \in Name : Update(n)
    \/ \E n \in Name : Delete(n)
    \/ \E n \in Name : Acknowledge(n)
    \/ \E n \in Name : SetUserDisabled(n)

Spec == Init /\ [][Next]_vars

-----------------------------------------------------------------------------
(* What the lists tell of an entry, and what an agent is run with. *)

\* Entries below a skill or an agent, however deep; a missing one ends the walk.
Below(names) ==
    Reach(names, [n \in Name |-> IF n \in Installed THEN row[n].deps ELSE {}])

Orphaned(n) ==
    KindOf[row[n].origin] = "skill" /\ \A m \in Installed : n \notin row[m].deps

\* What blocks an entry whatever else is installed, and what is missing.
HasReason(n) ==
    \/ row[n].prereqs # NoPrereqs /\ ~row[n].ack
    \/ row[n].off \/ Orphaned(n)
    \/ \E d \in row[n].deps : d \notin Installed

SkillDeps(n) == {d \in row[n].deps \cap Installed : KindOf[row[d].origin] = "skill"}

\* A CascadeContext: the entries in flight, those to come, and what it told of
\* the others (skillCache).
Statuses == [ready : SUBSET Name, blocked : SUBSET Name]
Walks == [path : SUBSET Name, todo : SUBSET Name, told : Statuses]
Untold == [ready |-> {}, blocked |-> {}]

\* Bug: a skill that is blocked does not block what uses it.
BlockedDeps_None(n, told) == {}

\* What is in flight, and not told yet, counts as ready.
BlockedDeps(n, told) == SkillDeps(n) \cap told.blocked

\* computeSkillStatus, computeAgentStatus: told once, after its skills.
Tell(walk, n, path, told) ==
    IF n \in path \cup told.ready \cup told.blocked THEN told
    ELSE LET below == walk[[path |-> path \cup {n}, todo |-> SkillDeps(n), told |-> told]]
         IN  IF HasReason(n) \/ BlockedDeps(n, below) # {}
             THEN [below EXCEPT !.blocked = @ \cup {n}]
             ELSE [below EXCEPT !.ready = @ \cup {n}]

Cascade(names) ==
    LET walk[s \in Walks] ==
            IF s.todo = {} THEN s.told
            ELSE LET n == CHOOSE n \in s.todo : TRUE
                 IN  walk[[s EXCEPT !.todo = @ \ {n}, !.told = Tell(walk, n, s.path, @)]]
    IN  walk[[path |-> {}, todo |-> names, told |-> Untold]]

Agents == {n \in Installed : KindOf[row[n].origin] = "agent"}

\* getAgentEntry, which a launch asks, has a context of its own ...
Launchable(n) == n \notin Cascade({n}).blocked

\* ... listAgentEntries one for all agents.
ListedReady(n) == n \notin Cascade(Agents).blocked

\* resolveAgent: the skills and MCPs that an agent is launched with.
Resolved(n) ==
    {d \in Below({d \in row[n].deps \cap Installed : KindOf[row[d].origin] # "agent"})
        : row[d] # None}

-----------------------------------------------------------------------------
\* A dependency names an entry that is installed, although no foreign key says
\* so (schema.ts, SkillRepository.delete, McpRepository.delete).
NothingDangles == \A n \in Installed : row[n].deps \subseteq Installed

\* An application of a plan that reports no failure, of a plan without a
\* conflict or a rename, and that nothing overtook, leaves each entry it wrote
\* with all that the plan says it depends on, although dependencies that are
\* not installed are skipped in silence (CatalogService.install).
InstalledIsComplete ==
    \A c \in calm :
        (call[c].at = "done" /\ call[c].failed = {}
            /\ call[c].plan.conflicts = {} /\ call[c].plan.old = None) =>
        \A i \in DOMAIN call[c].plan.install :
            LET node == call[c].plan.install[i]
            IN  /\ row[node.name] # None
                /\ \A d \in node.deps \ {node.origin} :
                    At(d) # {} /\ At(d) \cap row[node.name].deps # {}

\* What a sync flags as orphaned, no row refers to once it is applied, when
\* the plan had no conflict, nothing overtook it and a rename has not left two
\* rows for the root, of which the index knows neither (diffClosures,
\* computeReverseDepIndex).
OrphansAreLoose ==
    \A c \in calm :
        (call[c].at = "done" /\ call[c].failed = {} /\ call[c].plan.conflicts = {}
            /\ \A m, n \in At(call[c].plan.root) : m = n) =>
        \A o \in call[c].plan.orphans : \A n \in At(o) : Dependents(n) = {}

\* An agent that a launch takes for ready runs with skills whose prerequisites
\* are acknowledged, however deep, over cycles too (computeSkillStatus).  One
\* that the list calls ready does as well, unless the rows have a cycle: what a
\* skill was told while another one was in flight is kept for the next agent.
Acknowledged(n) ==
    ~row[n].off /\ \A d \in Resolved(n) \cup {n} : row[d].prereqs = NoPrereqs \/ row[d].ack

\* The rows are "acyclic by construction" (buildLocalClosure): of any of them
\* there is one that depends on none of them.
LocalIsAcyclic == \A some \in (SUBSET Installed) \ {{}} : \E n \in some : row[n].deps \cap some = {}

ReadyIsAcknowledged ==
    \A n \in Agents :
        Launchable(n) \/ (ListedReady(n) /\ LocalIsAcyclic) => Acknowledged(n)
=============================================================================
