--------------------------------- MODULE Api ---------------------------------
(***************************************************************************)
(* Two clients of one server, and one thing they both work on: a schedule, *)
(* a task, a session, a workflow, a node of a workflow, a workspace or an  *)
(* entry of the catalog.  A request is built and judged as in ApiRequests; *)
(* the server serves it in one step, or in two where its route asks again  *)
(* after the change, and answers as in ApiErrors.                          *)
(***************************************************************************)
EXTENDS ApiRequests, ApiErrors

CONSTANTS
    Clients,     \* the clients; the first may ask anything
    Things,      \* the kinds of the thing, one of which a behaviour is about
    Asks,        \* how many requests each client makes
    Followed,    \* the fields whose values are followed
    OtherFields  \* those of them that the other clients write

ASSUME ApiAssumption ==
    /\ Things \subseteq DOMAIN ROUTES
    /\ Clients \subseteq Nat \ {0}
    /\ Asks \in [Clients -> Nat]
    /\ "expr" \in Followed <=> "tz" \in Followed   \* both halves of a trigger, or none

VARIABLES
    thing,      \* the kind of the thing
    row,        \* "none", or "live": enabled, running, pending, or "ended"
    writer,     \* of each field the client whose value it has; 0 none of them
    plan,       \* whether the server holds the plan of a sync
    call        \* of each client, what it is doing

vars == <<thing, row, writer, plan, call>>

(* The requests, as far as the fields that are followed.                   *)
AsFollowed(r) == [r EXCEPT !.names = @ \cap Followed, !.edits = @ \cap Followed]
Asking        == [t \in Things |-> {AsFollowed(r) : r \in Requests[t]}]

(*------------------------------- the services ----------------------------*)

Missing ==
    [schedule |-> "ScheduleNotFound", task |-> "TaskNotFound", session |-> "SessionNotFound",
     workflow |-> "WorkflowNotFound", node |-> "WorkflowNodeNotFound",
     workspace |-> "WorkspaceNotRegistered", entry |-> "SkillNotFound"]

Dispatch == {"AgentNotFound", "AgentResolutionFailed", "EntryNotReady",
             "RuntimeDoesNotSupportTasks", "ManagerShuttingDown", "TaskIdAllocationFailed"}
SpecErrors == {"WorkflowCoordSpec", "WorkflowCoordAgentNotCapable", "WorkflowWorkerSpec",
               "WorkflowWorkerNotInCoordMenu"}
Resolve == {"OriginParse", "Fetch", "SkillFrontmatter", "CyclicDependency"}

(* What the routes refuse for what they were given, before any change.    *)
ScheduleRefusals ==
    Row({"create", "patch"}, {"InvalidCronExpr", "InvalidTimezone", "AgentNotFound",
                              "AgentResolutionFailed"})
    @@ Row({"run"}, Dispatch)
    @@ Row({"previewCron"}, {"InvalidCronExpr", "InvalidTimezone", "Schedule"})
SessionRefusals ==
    Row({"create"}, {"AgentNotFound", "AgentResolutionFailed", "UnknownRuntime",
                     "SessionIdAllocationFailed", "RuntimeProvisionFailed",
                     "TrustRegistrationFailed"})
    @@ Row({"delete"}, {"RuntimeStateDeletionFailed"})
WorkflowRefusals ==
    Row({"create"}, {"WorkflowCoordSpec", "WorkflowCoordAgentNotCapable"})
    @@ Row({"addEdge"}, {"WorkflowNodeNotFound", "ParentState", "WorkflowEdgeCycle"})
    @@ Row({"removeEdge"}, {"WorkflowEdgeNotFound", "WorkflowRemoveEdgeOrphansChild"})
    @@ Row({"addSubgraph"}, SpecErrors \cup
             {"WorkflowSubgraphEmpty", "WorkflowSubgraphCyclic", "WorkflowDagInvariant",
              "WorkflowSubgraphTempParentless", "ParentState"})
NodeRefusals ==
    Row({"addNode"}, SpecErrors \cup {"EmptyParents", "ParentState", "OrphanCoordInsert",
                                      "MultipleSuccessorCoords"})
    @@ Row({"replaceNodeSpec"}, SpecErrors)
    @@ Row({"removeNode"}, {"WorkflowRemoveNodeOrphansChild"})
WorkspaceRefusals ==
    Row({"create"}, {"WorkspaceNameInvalid", "WorkspaceIdConflict"})
    @@ Row({"update"}, {"WorkspaceNameInvalid"})
    @@ Row({"delete", "reload"}, {"WorkspaceHasLiveTasks"})
EntryRefusals ==
    Row({"install"}, Resolve \cup {"SkillOriginConflict"})
    @@ Row({"resolve", "syncResolve"}, Resolve)
    @@ Row({"update", "patch"}, {"ImmutableOrigin", "SkillFrontmatter"})
    @@ Row({"delete"}, {"HasDependents"})
Refusals ==
    [schedule |-> ScheduleRefusals, task |-> Row({"dispatch"}, Dispatch),
     session |-> SessionRefusals, workflow |-> WorkflowRefusals, node |-> NodeRefusals,
     workspace |-> WorkspaceRefusals, entry |-> EntryRefusals]

(* What they refuse for the state the thing is in. *)
Never == Row({}, "none")
Conflict ==
    [schedule |-> [live |-> Row({"delete"}, "ScheduleEnabled"), ended |-> Never],
     task |-> [live |-> Row({"delete"}, "InvalidTransition"),
               ended |-> Row({"cancel"}, "InvalidTransition")],
     session |-> [live |-> Never, ended |-> Never],
     workflow |-> [live |-> Never,
                   ended |-> Row({"cancel", "finish", "addEdge", "removeEdge", "addSubgraph"},
                                 "WorkflowAlreadyTerminal")],
     node |-> [live |-> Never,
               ended |-> Row({"removeNode", "replaceNodeSpec", "cancelNode"},
                             "WorkflowNodeNotMutable")],
     workspace |-> [live |-> Row({"create"}, "WorkspacePathConflict"), ended |-> Never],
     entry |-> [live |-> Never, ended |-> Never]]

Creating  == {"create", "dispatch", "addNode", "install"}
Removing  == {"delete", "removeNode"}
Ending    == {"cancel", "finish", "cancelNode"}
AboutNone == Creating \cup {"list", "tasks", "previewCron", "getCurrent", "resolve"}

(* A route that changes something, and then asks for it again or writes it *)
(* down: a thing that is gone by then is answered as one never there.      *)
AsksAgain ==
    [schedule |-> {"run"}, node |-> {"cancelNode", "replaceNodeSpec"},
     entry |-> {"get", "ackPrereqs"}, task |-> {}, session |-> {}, workflow |-> {}, workspace |-> {}]

(*------------------------------- the clients -----------------------------*)

Nothing == [phase |-> "idle", asked |-> 0, op |-> "none", sent |-> TRUE, taken |-> TRUE,
            form |-> FALSE, odd |-> {}, whole |-> FALSE, names |-> {}, edits |-> {},
            seen |-> <<>>, status |-> 0, told |-> TRUE, class |-> "none", did |-> "nothing"]

(* The first client asks anything; another one makes requests that are     *)
(* right, and writes few fields.                                           *)
MayAsk(c, r) ==
    c = 1 \/ (r.taken /\ ~ r.reads /\ ~ r.form /\ r.edits \subseteq OtherFields)

Init ==
    /\ thing \in Things
    /\ row \in {"none", "live"}
    /\ writer = [f \in Followed |-> 0]
    /\ plan = FALSE
    /\ call = [c \in Clients |-> Nothing]

Done(c, status, told, class) ==
    [call[c] EXCEPT !.phase = "done", !.status = status, !.told = told, !.class = class,
                    !.names = {}, !.edits = {}, !.seen = <<>>]
Doing(k, what) == [k EXCEPT !.did = what]
Thrown(c, class) ==
    LET a == respondError(thing, class) IN Done(c, a.status, a.told, class)

(* Build a request and judge it. A client that refuses ends there; a route *)
(* that does not take the shape of a body says so and calls no service.    *)
Judged(r, asked) ==
    [phase |-> IF ~ r.taken THEN "done" ELSE IF r.reads THEN "reading" ELSE "sent",
     asked |-> asked, op |-> r.op, sent |-> r.sent, taken |-> r.taken, form |-> r.form,
     odd |-> r.odd, whole |-> r.whole, names |-> r.names, edits |-> r.edits, seen |-> <<>>,
     status |-> IF r.sent /\ ~ r.taken THEN 400 ELSE 0,
     told |-> TRUE, class |-> "none", did |-> "nothing"]

Ask(c) ==
    /\ call[c].phase = "idle" /\ call[c].asked < Asks[c]
    /\ \E r \in {x \in Asking[thing] : MayAsk(c, x)} :
         call' = [call EXCEPT ![c] = Judged(r, call[c].asked + 1)]
    /\ UNCHANGED <<thing, row, writer, plan>>

(* What is read here goes back with the fields the user did not name.      *)
Read(c) ==
    /\ call[c].phase = "reading"
    /\ call' = [call EXCEPT ![c] =
         IF row = "none" THEN Thrown(c, Missing[thing])
         ELSE [call[c] EXCEPT !.phase = "sent",
                              !.seen = [f \in call[c].edits \ call[c].names |-> writer[f]]]]
    /\ UNCHANGED <<thing, row, writer, plan>>

Again(c) ==
    /\ call[c].phase = "done" /\ call[c].asked < Asks[c]
    /\ call' = [call EXCEPT ![c] = [Nothing EXCEPT !.asked = call[c].asked]]
    /\ UNCHANGED <<thing, row, writer, plan>>

(*-------------------------------- the server -----------------------------*)

Serving(c, ops) == call[c].phase = "sent" /\ call[c].op \in ops
Verb(op)        == ROUTES[thing][op]
Answer(c, did) ==                      \* what is done, and what is still asked
    [call EXCEPT ![c] =
        IF call[c].op \in AsksAgain[thing] THEN Doing([call[c] EXCEPT !.phase = "again"], did)
                                           ELSE Doing(Done(c, 200, TRUE, "none"), did)]

Refuse(c) ==
    /\ call[c].phase = "sent"
    /\ LET op == call[c].op
           here == IF row = "none" THEN Never ELSE Conflict[thing][row]
       IN  \E class \in (IF op \in DOMAIN Refusals[thing] THEN Refusals[thing][op] ELSE {})
                        \cup (IF op \in DOMAIN here THEN {here[op]} ELSE {})
                        \cup (IF row = "none" /\ op \notin AboutNone THEN {Missing[thing]} ELSE {}) :
             call' = [call EXCEPT ![c] = Thrown(c, class)]
    /\ UNCHANGED <<thing, row, writer, plan>>

Possible(c) ==
    /\ call[c].phase = "sent"
    /\ row = "none" => call[c].op \in AboutNone
    /\ row # "none" => call[c].op \notin DOMAIN Conflict[thing][row]

Get(c) ==
    /\ Possible(c) /\ Verb(call[c].op) = "GET"
    /\ call' = Answer(c, "nothing")
    /\ UNCHANGED <<thing, row, writer, plan>>

(* A new thing, which a schedule is with its timer armed or not; a task or *)
(* an entry can be one more beside the one we look at.                     *)
Create(c) ==
    /\ Possible(c) /\ Serving(c, Creating)
    /\ row' \in (IF row = "none" THEN {"live"} \cup (IF thing = "schedule" THEN {"ended"} ELSE {})
                 ELSE {row})
    /\ call' = Answer(c, "row")
    /\ writer' = [f \in Followed |-> 0]
    /\ UNCHANGED <<thing, plan>>

(* The files of the agent are written, and it does not start: the row of   *)
(* the task stays, with its failure.                                       *)
LaunchFails(c) ==
    /\ Possible(c)
    /\ \/ thing = "task" /\ Serving(c, {"dispatch"}) /\ row = "none" /\ row' = "ended"
       \/ thing = "schedule" /\ Serving(c, {"run"}) /\ UNCHANGED row
    /\ call' = [call EXCEPT ![c] = Doing(Thrown(c, "RuntimeHeadlessLaunchFailed"), "another")]
    /\ UNCHANGED <<thing, writer, plan>>

Update(c) ==
    /\ Possible(c) /\ Serving(c, Updates)
    /\ writer' = [f \in Followed |->
                    IF f \notin call[c].edits THEN writer[f]
                    ELSE IF f \in DOMAIN call[c].seen THEN call[c].seen[f] ELSE c]
    /\ row' \in (IF "enabled" \in call[c].edits THEN {"live", "ended"} ELSE {row})
    /\ call' = Answer(c, "row")
    /\ UNCHANGED <<thing, plan>>

End(c) ==
    /\ Possible(c) /\ Serving(c, Ending)
    /\ row' = "ended"
    /\ call' = Answer(c, "row")
    /\ UNCHANGED <<thing, writer, plan>>

(* What a request that is not answered yet has done to the thing is gone   *)
(* with it; the task a run has launched is left without its schedule.      *)
Orphaned(k) ==
    IF k.phase # "again" THEN k
    ELSE Doing(k, IF k.did = "row" THEN "gone" ELSE IF k.did = "another" THEN "orphan" ELSE k.did)
Unmade(c, k) ==                          \* c is answered k, and the thing is gone
    [d \in Clients |-> IF d = c THEN k ELSE Orphaned(call[d])]

Remove(c) ==
    /\ Possible(c) /\ Serving(c, Removing)
    /\ row' = "none"
    /\ call' = Unmade(c, Answer(c, "row")[c])
    /\ UNCHANGED <<thing, writer, plan>>

\* Mutant of PurgeFails: the state of the runtime is deleted last.
PurgeStateLast(c) ==
    /\ Possible(c) /\ Serving(c, {"delete"}) /\ thing \in {"session", "workspace"}
    /\ call' = [call EXCEPT ![c] = Doing(Thrown(c, "RuntimeStateDeletionFailed"), "row")]
    /\ UNCHANGED <<thing, row, writer, plan>>

(* A purge takes the state of the runtime and the directory before the     *)
(* row: a step that fails leaves the thing there and half of it gone. The  *)
(* policy has no row for what the file system throws.                      *)
PurgeFails(c) ==
    /\ Possible(c) /\ Serving(c, {"delete"}) /\ thing \in {"session", "workspace"}
    /\ call' = [call EXCEPT ![c] = Doing(Thrown(c, "Io"), "row")]
    /\ UNCHANGED <<thing, row, writer, plan>>

(* What changes no part of the thing we look at: an edge or a subgraph of  *)
(* a workflow, a task of a schedule, a terminal, a context loaded again.   *)
Other(c) ==
    /\ Possible(c)
    /\ Serving(c, {"run", "spawn", "reload", "setCurrent", "addEdge", "removeEdge", "addSubgraph",
                   "ackPrereqs", "enable", "disable", "resolve"})
    /\ call' = Answer(c, IF call[c].op \in {"spawn", "reload", "resolve"} THEN "nothing"
                           ELSE IF call[c].op \in {"run", "addEdge", "removeEdge", "addSubgraph"}
                           THEN "another" ELSE "row")
    /\ UNCHANGED <<thing, row, writer, plan>>

(* The plan of a sync is made and kept, for a while, ...                   *)
SyncResolve(c) ==
    /\ Possible(c) /\ Serving(c, {"syncResolve"})
    /\ plan' = TRUE
    /\ call' = Answer(c, "row")
    /\ UNCHANGED <<thing, row, writer>>

(* ... and taken out, once, before it is carried out: the entry is what    *)
(* its origin says, or, under a new name, the old one is removed first. An *)
(* entry of the plan that fails is counted in the answer; it is the        *)
(* removal of the old name that can be refused.                            *)
Sync(c) ==
    /\ Serving(c, {"sync"})
    /\ LET synced  == Doing(Done(c, 200, TRUE, "none"), "row")
           refused == Thrown(c, IF row = "none" THEN Missing[thing] ELSE "HasDependents")
       IN  \/ /\ ~ plan
              /\ call' = [call EXCEPT ![c] = Done(c, 410, TRUE, "PlanTokenInvalid")]
              /\ UNCHANGED <<row, writer>>
           \/ /\ plan
              /\ \/ row' = "live" /\ call' = [call EXCEPT ![c] = synced]
                 \/ row' = "none" /\ call' = Unmade(c, synced)
              /\ writer' = [f \in Followed |-> 0]
           \/ /\ plan
              /\ call' = [call EXCEPT ![c] = Doing(refused, "plan")]
              /\ UNCHANGED <<row, writer>>
    /\ plan' = FALSE
    /\ UNCHANGED thing

Late(c) ==
    /\ call[c].phase = "again"
    /\ call' = [call EXCEPT ![c] =
                  IF row # "none" THEN Done(c, 200, TRUE, "none") ELSE Thrown(c, Missing[thing])]
    /\ UNCHANGED <<thing, row, writer, plan>>

(* The server dies or is restarted: its clients lose their connections and *)
(* it loses the plans. What a service has done stays.                      *)
ServerDies ==
    /\ \E c \in Clients : call[c].phase \in {"reading", "sent", "again"}
    /\ call' = [c \in Clients |-> IF call[c].phase \in {"reading", "sent", "again"}
                                  THEN Done(c, 0, TRUE, "FetchFailed") ELSE call[c]]
    /\ plan' = FALSE
    /\ UNCHANGED <<thing, row, writer>>

PlanExpires ==
    /\ plan /\ plan' = FALSE
    /\ UNCHANGED <<thing, row, writer, call>>

(* An agent finishes, by itself. *)
ThingEnds ==
    /\ thing \in {"task", "workflow", "node"} /\ row = "live"
    /\ row' = "ended"
    /\ UNCHANGED <<thing, writer, plan, call>>

Next ==
    \/ \E c \in Clients :
         \/ Ask(c) \/ Read(c) \/ Again(c)
         \/ Refuse(c) \/ Get(c) \/ Create(c) \/ LaunchFails(c) \/ Update(c) \/ End(c)
         \/ Remove(c) \/ PurgeFails(c) \/ Other(c) \/ SyncResolve(c) \/ Sync(c) \/ Late(c)
    \/ ServerDies \/ PlanExpires \/ ThingEnds

Spec == Init /\ [][Next]_vars

(* How a command ends, from what its request came to. *)
ExitCode(c) ==
    LET r == call[c]
    IN  IF ~ r.sent THEN 2
        ELSE IF r.class = "FetchFailed" THEN 3
        ELSE IF r.status >= 400 THEN 4 ELSE 0

(*------------------------------- properties ------------------------------*)

(* What a client leaves to the server to look at: the forms of some of the *)
(* options, and all of a subgraph.                                         *)
LeftToServer ==
    [workspace |-> {"workspaceDir"}, session |-> {"createdSince", "activeSince"},
     task |-> {"createdSince", "status", "limit"},
     schedule |-> {"createdSince", "status", "runtime", "name", "cron"},
     workflow |-> {"createdSince", "kind", "from", "tempId", "more"}, node |-> {}, entry |-> {}]

(* The clients and the routes agree on what a request looks like: a form   *)
(* never sends what its route refuses, and a command only where it leaves  *)
(* an option to the server. (Two sides that are written apart, with a      *)
(* manifest of types between them that none of the forms is in.)           *)
ShapeAgrees ==
    \A c \in Clients :
        call[c].sent /\ ~ call[c].taken =>
            ~ call[c].form /\ call[c].odd \cap LeftToServer[thing] # {}

(* A command that ends in a refusal the server explains (4, with a status  *)
(* below 500), or that refuses itself (2), has changed nothing that is     *)
(* still there: a purge that stops half way, a launch that fails, an edit  *)
(* whose route asks again for what it changed. Two things can be left: the *)
(* task of a run whose schedule another client removed between its launch  *)
(* and the record of it, and a plan that was used up.                      *)
NamedRefusalIsHarmless ==
    \A c \in Clients :
        /\ call[c].phase = "done" /\ call[c].told
        /\ ExitCode(c) = 2 \/ (ExitCode(c) = 4 /\ call[c].status < 500)
        => \/ call[c].did \in {"nothing", "gone"}
           \/ call[c].op = "run" /\ call[c].did = "orphan"
           \/ call[c].op = "sync" /\ call[c].did = "plan"

(* The requests that write a field nobody named: half of a trigger, which  *)
(* goes with the other half, and the form of the catalog that saves all of *)
(* its fields.                                                             *)
GoesWith(c, f) ==
    call[c].whole \/ (f \in {"expr", "tz"} /\ call[c].names \cap {"expr", "tz"} # {})

(* A value is replaced by one its client named; or by that of a new thing  *)
(* or of its origin; or, only where a request is for half of a trigger or  *)
(* saves a whole form, by the very value its client had read, which undoes *)
(* what was written since. No other edit brings an old value back, and     *)
(* none a value nobody gave.                                               *)
EditsOnlyWhatWasNamed ==
    [][\A f \in Followed :
         writer'[f] # writer[f] =>
            \E c \in Clients :
                /\ call'[c] # call[c]
                /\ \/ Serving(c, Creating \cup {"sync"})
                   \/ Serving(c, Updates) /\ f \in call[c].names /\ writer'[f] = c
                   \/ /\ Serving(c, Updates) /\ GoesWith(c, f)
                      /\ f \in DOMAIN call[c].seen /\ writer'[f] = call[c].seen[f]]_vars

(* A command given one half of a trigger preserves the other half, as the  *)
(* help of --cron and --tz says.                                           *)
OtherHalfIsPreserved ==
    [][\A f \in {"expr", "tz"} \cap Followed :
         writer'[f] # writer[f] =>
            \E c \in Clients :
                /\ call'[c] # call[c]
                /\ \/ Serving(c, Creating)
                   \/ Serving(c, Updates) /\ (call[c].form \/ f \in call[c].names)]_vars
==============================================================================
