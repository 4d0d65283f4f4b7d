----------------------------- MODULE ApiRequests -----------------------------
(***************************************************************************)
(* Every request the command line and the dashboard can make of the        *)
(* server: which route it is for, whether the client sends it, whether the *)
(* route takes it, and which fields of the thing it writes.                *)
(***************************************************************************)
EXTENDS ApiSchedules, ApiTasks, ApiWorkspaces, ApiWorkflows, ApiCatalog, ApiPages

(*--------------------------------- routes --------------------------------*)

Routes(verb, ops) == [op \in ops |-> verb]

WorkspaceRoutes ==
    Routes("GET", {"list", "getCurrent", "get"}) @@ Routes("POST", {"create", "reload"})
    @@ Routes("PUT", {"setCurrent"}) @@ Routes("PATCH", {"update"}) @@ Routes("DELETE", {"delete"})
SessionRoutes ==
    Routes("GET", {"list", "get"}) @@ Routes("POST", {"create", "spawn"})
    @@ Routes("DELETE", {"delete"})
TaskRoutes ==
    Routes("GET", {"list", "get", "activity", "artifact"}) @@ Routes("POST", {"dispatch", "cancel"})
    @@ Routes("DELETE", {"delete"})
ScheduleRoutes ==
    Routes("GET", {"list", "get", "preview", "previewCron", "tasks"})
    @@ Routes("POST", {"create", "run"}) @@ Routes("PATCH", {"patch"})
    @@ Routes("DELETE", {"delete"})
WorkflowRoutes ==
    Routes("GET", {"list", "get", "dag", "artifact"})
    @@ Routes("POST", {"create", "cancel", "finish", "addEdge", "addSubgraph"})
    @@ Routes("DELETE", {"removeEdge"})
NodeRoutes ==
    Routes("GET", {"get"}) @@ Routes("POST", {"addNode", "cancelNode"})
    @@ Routes("PATCH", {"replaceNodeSpec"}) @@ Routes("DELETE", {"removeNode"})
EntryRoutes ==
    Routes("GET", {"list", "get", "anchor"})
    @@ Routes("POST", {"resolve", "install", "syncResolve", "sync", "ackPrereqs", "enable", "disable"})
    @@ Routes("PUT", {"update"}) @@ Routes("PATCH", {"patch"}) @@ Routes("DELETE", {"delete"})

ROUTES ==
    [workspace |-> WorkspaceRoutes, session |-> SessionRoutes, task |-> TaskRoutes,
     schedule |-> ScheduleRoutes, workflow |-> WorkflowRoutes, node |-> NodeRoutes,
     entry |-> EntryRoutes]

(*-------------------------------- requests -------------------------------*)

(* What can be typed, of a set of records with a form for every option:    *)
(* "absent" is an option not given.                                        *)
Typed(options) == {[n \in {m \in DOMAIN o : o[m] # "absent"} |-> o[n]] : o \in options}

(* The field an option is about, where it has another name. *)
Alias == [cron |-> "expr", clearDetails |-> "details", clearRuntime |-> "runtime",
          specFile |-> "newSpec", metadata |-> "description", metadataFile |-> "description",
          contentFile |-> "content"]
FieldOf(option) == IF option \in DOMAIN Alias THEN Alias[option] ELSE option

Frame == {"*", "target", "trigger", "kind"}           \* what holds the fields of a body
FieldsIn(body) == {p[Len(p)] : p \in DOMAIN body} \ Frame

Updates == {"patch", "update", "replaceNodeSpec"}
Usual   == Full \cup Flag \cup Outcome \cup {"number", "object", "array", "nodeId", "tempId"}

(* A request: what is left of what was typed and of the body that was made *)
(* of it, if it is sent; both are kept only where something depends on     *)
(* them.                                                                   *)
Request(op, o, b, taken) ==
    LET sent  == b # Usage
        edits == taken /\ op \in Updates
    IN  [op |-> op, sent |-> sent, taken |-> taken, form |-> FALSE, whole |-> FALSE, reads |-> FALSE,
         names |-> IF edits THEN {FieldOf(n) : n \in DOMAIN o} ELSE {},
         edits |-> IF edits THEN FieldsIn(b) ELSE {},
         odd   |-> IF sent /\ ~ taken THEN {n \in DOMAIN o : o[n] \notin Usual} ELSE {}]
ByForm(r) == [r EXCEPT !.form = TRUE]

(* The requests of a command or a form: what is typed, the body Body makes *)
(* of it, and whether Takes, the route, accepts the shape of that body.    *)
Asked(op, options, Body(_), Takes(_)) ==
    LET Make(o) == LET b == Body(o) IN Request(op, o, b, b # Usage /\ Takes(b))
    IN  {Make(o) : o \in Typed(options)}

(* A command has its options from the registrar; a form fills in all of    *)
(* its fields.                                                             *)
Command(op, options, Body(_), Takes(_)) ==
    LET Run(o) == Body(Picked(o)) IN Asked(op, options, Run, Takes)
Filled(op, fields, Body(_), Takes(_)) == {ByForm(r) : r \in Asked(op, fields, Body, Takes)}

(* The same, by a client that reads the thing before it writes it.         *)
Rereading(asked) == {[r EXCEPT !.reads = TRUE] : r \in asked}
WholeForm(asked) == {[r EXCEPT !.whole = TRUE] : r \in asked}

AnyShape(b) == TRUE                                   \* a route without a body or a query

(* A request that leaves nothing to type, and the press of a button. *)
Fixed(op, body, Takes(_)) == Filled(op, {<<>>}, LAMBDA o : body, Takes)
Pressed(op, body)         == Fixed(op, body, AnyShape)
Toggle(o) == patchEnabled(o, o["enabled"])            \* enable, disable
Changed(fields) ==                                    \* any of the fields, and none
    UNION {{[n \in S |-> f[n]] : S \in SUBSET DOMAIN f} : f \in fields}

ScheduleRequests ==
    LET O == ScheduleOptions
        Reads(r) == ~ r.edits \subseteq r.names    \* half of a trigger: the other is read
    IN  Command("list", O.list, scheduleList, ListSchedulesQuery)
        \cup Command("create", O.create, scheduleCreate, CreateScheduleBody)
        \cup Filled("create", ScheduleFormFields, CreateScheduleModal, CreateScheduleBody)
        \cup Command("get", O.show, scheduleShow, AnyShape)
        \cup Command("delete", O.show, scheduleRm, AnyShape)
        \cup Command("run", O.show, scheduleRun, AnyShape)
        \cup Command("preview", O.preview, schedulePreview, PreviewQuery)
        \cup Filled("previewCron", [expr : {"text", "empty"}, tz : {"text", "empty"}],
                   useSchedulePreview, PreviewCronQuery)
        \cup Command("tasks", ScheduleListTasksOptions, scheduleListTasks, ScheduledTasksQuery)
        \cup {[r EXCEPT !.reads = Reads(r)] :
                r \in Command("patch", SchedulePatchOptions, schedulePatch, PatchScheduleBody)}
        \cup Command("patch", ScheduleToggleOptions, Toggle, PatchScheduleBody)
        \cup Rereading(Filled("patch", Changed(ScheduleFormFields), EditScheduleModal,
                             PatchScheduleBody))
        \cup Filled("list", SchedulesPageFilters, SchedulesPage, ListSchedulesQuery)
        \cup Fixed("tasks", ScheduleRecentFires, ScheduledTasksQuery)
        \cup Filled("patch", [enabled : Flag], handleToggleEnabled, PatchScheduleBody)
        \cup Filled("run", [enabled : Flag], handleRunNow, AnyShape)
        \cup Pressed("delete", handleConfirmDelete)

TaskRequests ==
    LET O == TaskOptions
    IN  Command("list", O.list, taskList, TaskListQuery)
        \cup Asked("dispatch", O.dispatch, taskDispatch, TaskDispatchBody)
        \cup Filled("dispatch", DispatchFields, DispatchModal, TaskDispatchBody)
        \cup Command("get", O.show, taskShow, AnyShape)
        \cup Command("delete", O.rm, taskRm, AnyShape)
        \cup Command("cancel", O.cancel, taskCancel, AnyShape)
        \cup Command("activity", TaskActivityOptions, taskActivity, TaskActivityQuery)
        \cup Filled("artifact", [name : {"text"}], LAMBDA o : Copy(o, "name", <<"name">>), ArtifactName)
        \cup Filled("list", TasksPageFilters, useTasks, TaskListQuery)
        \cup Fixed("list", AgentsListPageTasks, TaskListQuery)
        \cup Filled("delete", PurgeBox, onConfirmDelete, AnyShape)
        \cup Pressed("cancel", onConfirmCancel)

WorkspaceRequests ==
    LET O == WorkspaceOptions
    IN  Command("create", O.add, workspaceAdd, CreateWorkspaceBody)
        \cup Command("get", O.use, workspaceShow, AnyShape)
        \cup Command("reload", O.use, workspaceReload, AnyShape)
        \cup Command("setCurrent", O.use, workspaceUse, PutCurrentBody)
        \cup Fixed("setCurrent", WorkspaceShell, PutCurrentBody)
        \cup Pressed("list", LandingPage) \cup Pressed("getCurrent", LandingPage)
        \cup Filled("create", AddWorkspaceFields, AddWorkspaceModal, CreateWorkspaceBody)
        \cup Filled("update", RenameFields, commitEdit, PatchWorkspaceBody)
        \cup Filled("delete", {<<>>}, RemoveWorkspaceModal, AnyShape)
        \cup Command("delete", O.rm, workspaceRm, AnyShape)
        \cup Command("update", O.update, workspaceUpdate, PatchWorkspaceBody)

SessionRequests ==
    LET O == SessionOptions
    IN  Command("list", O.list, sessionList, SessionListQuery)
        \cup Command("create", O.new, sessionNew, CreateSessionBody)
        \cup Filled("create", CreateModalFields, CreateModal, CreateSessionBody)
        \cup Command("get", O.rm, sessionShow, AnyShape)
        \cup Command("delete", O.rm, sessionRm, AnyShape)
        \cup Command("spawn", O.spawn, sessionSpawn, SpawnSessionBody)
        \cup Filled("list", SessionsPageFilters, SessionsPage, SessionListQuery)
        \cup Fixed("list", AgentsListPageSessions, SessionListQuery)
        \cup Filled("spawn", LaunchButtons, onLaunch, SpawnSessionBody)
        \cup Filled("delete", PurgeBox, onConfirmDelete, AnyShape)

WorkflowRequests ==
    LET O == WorkflowOptions M == MutationOptions
    IN  Command("list", O.list, workflowList, WorkflowListQuery)
        \cup Command("create", O.create, workflowCreate, CreateWorkflowBody)
        \cup Filled("create", CreateWorkflowFields, CreateWorkflowModal, CreateWorkflowBody)
        \cup Command("get", O.show, workflowShow, AnyShape)
        \cup Command("dag", O.show, workflowDag, AnyShape)
        \cup Command("cancel", O.cancel, workflowCancel, CancelWorkflowBody)
        \cup Command("finish", O.finish, workflowFinish, FinishWorkflowBody)
        \cup Command("addEdge", M.addEdge, workflowAddEdge, AddEdgeBody)
        \cup Command("removeEdge", M.addEdge, workflowRemoveEdge, AnyShape)
        \cup Command("addSubgraph", SubgraphFile, workflowAddSubgraph, AddSubgraphBody)
        \cup Filled("artifact", [encodedPath : {"text"}],
                   LAMBDA o : Copy(o, "encodedPath", <<"encodedPath">>), ArtifactPath)
        \cup Filled("list", WorkflowsPageFilters, useWorkflows, WorkflowListQuery)
        \cup Filled("cancel", CancelReason, CancelWorkflowModal, CancelWorkflowBody)

NodeRequests ==
    LET O == WorkflowOptions M == MutationOptions
    IN  Command("get", O.nodeShow, workflowNodeShow, AnyShape)
        \cup Command("addNode", M.addNode, workflowAddNode, AddNodeBody)
        \cup Command("removeNode", O.nodeShow, workflowRemoveNode, AnyShape)
        \cup Command("cancelNode", O.nodeShow, workflowCancelNode, AnyShape)
        \cup Command("replaceNodeSpec", M.replaceSpec, workflowReplaceSpec, ReplaceNodeSpecBody)

(* An mcp server of the catalog, ... *)
McpRequests ==
    LET O == CatalogOptions
    IN  Command("install", O.install, catalogInstall, InstallBody)
        \cup Filled("install", InstallDialogFields, InstallDialog, InstallBody)
        \cup Command("get", O.show, catalogShow, AnyShape)
        \cup Command("delete", O.show, catalogRm, AnyShape)
        \cup Command("syncResolve", O.show, catalogSyncResolve, AnyShape)
        \cup Command("sync", O.sync, catalogSync, PlanTokenBody)
        \cup Command("update", O.update, catalogUpdate, ContentBody)
        \cup Pressed("delete", doRemove) \cup Pressed("syncResolve", handlePreviewSync)
        \cup Filled("sync", [planToken : {"absent", "text"}], handleApplySync, PlanTokenBody)
        \cup WholeForm(Rereading(
                 Filled("update", [content : {"lines", "blank", "empty"}], handleSave, ContentBody)))

(* ... a skill or an agent, which have more verbs, ... *)
PatchDialogRequests(kind) ==
    WholeForm(Rereading(Filled("patch", [PatchFields(kind) -> {"absent", "text"}],
                               LAMBDA o : PatchDialog(kind), MetadataBody)))
MarkdownRequests(kind) ==
    LET O == CatalogOptions
    IN  McpRequests
        \cup Command("resolve", O.install, catalogResolve, InstallBody)
        \cup Command("patch", O.patch, catalogPatch, MetadataBody)
        \cup PatchDialogRequests(kind)
        \cup Command("ackPrereqs", O.show, catalogAckPrereqs, AnyShape)
        \cup Pressed("ackPrereqs", handleAcknowledge)
SkillRequests == MarkdownRequests("skill")

(* ... and an agent, which can be switched off. *)
AgentRequests ==
    LET O == CatalogOptions
    IN  MarkdownRequests("agent")
        \cup Command("enable", O.show, catalogSetEnabled, AnyShape)
        \cup Command("disable", O.show, catalogSetEnabled, AnyShape)
        \cup Pressed("enable", handleToggleAgent) \cup Pressed("disable", handleToggleAgent)

Requests ==
    [workspace |-> WorkspaceRequests, session |-> SessionRequests, task |-> TaskRequests,
     schedule |-> ScheduleRequests, workflow |-> WorkflowRequests, node |-> NodeRequests,
     entry |-> McpRequests \cup SkillRequests \cup AgentRequests]
==============================================================================
