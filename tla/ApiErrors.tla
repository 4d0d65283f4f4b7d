------------------------------ MODULE ApiErrors ------------------------------
(***************************************************************************)
(* What a route answers when a service throws: the policies of the six     *)
(* domains, each an ordered list of classes with their status, and the     *)
(* list of the names whose message may leave the server.  The names are    *)
(* those of the source without the word Error.                             *)
(***************************************************************************)
EXTENDS ApiBody

Row(classes, status) == [c \in classes |-> status]

(*--------------------------------- classes -------------------------------*)

(* Every one of these extends WorkflowError. *)
NodeStateErrors == {"WorkflowAlreadyTerminal", "WorkflowNodeNotMutable", "WorkflowEdgeCycle"}
InsertErrors    == {"MultipleSuccessorCoords", "OrphanCoordInsert", "ParentState"}
RemoveErrors ==
    {"WorkflowRemoveNodeOrphansChild", "WorkflowRemoveEdgeOrphansChild", "WorkflowDagInvariant"}
SubgraphStateErrors == {"WorkflowSubgraphCyclic", "WorkflowSubgraphMultipleCoordTemps"}
SubgraphInputErrors ==
    {"WorkflowSubgraphEmpty", "WorkflowSubgraphTempIdInvalid",
     "WorkflowSubgraphTempParentless", "WorkflowSubgraphNodeRefUnresolved"}
WorkflowStateErrors == NodeStateErrors \cup InsertErrors \cup RemoveErrors \cup SubgraphStateErrors
WorkflowInputErrors ==
    {"InvalidWorkflowId", "InvalidWorkflowNodeId", "WorkflowNodeSpec", "EmptyParents",
     "WorkflowNodeKindShape"} \cup SubgraphInputErrors
WorkflowMissing == {"WorkflowNotFound", "WorkflowNodeNotFound", "WorkflowEdgeNotFound"}
CorruptionErrors == {"WorkflowNodeKindCorruption", "WorkflowEnumValueCorruption"}
WorkflowErrors == WorkflowStateErrors \cup WorkflowInputErrors \cup WorkflowMissing \cup CorruptionErrors

(* Thrown by the runners of the nodes, outside that hierarchy. *)
RunnerErrors ==
    {"WorkflowCoordSpec", "WorkflowCoordAgentNotCapable", "WorkflowWorkerSpec",
     "WorkflowWorkerNotInCoordMenu"}

TaskErrors ==
    {"InvalidTaskId", "TaskNotFound", "AgentNotFound", "AgentResolutionFailed",
     "RuntimeDoesNotSupportTasks", "EntryNotReady", "InvalidTransition",
     "ManagerShuttingDown", "TaskIdAllocationFailed", "CorruptedTask"}
ScheduleErrors ==
    {"InvalidScheduleId", "InvalidCronExpr", "InvalidTimezone", "InvalidJsonPath",
     "TaskScheduleTarget", "ScheduleNotFound", "ScheduleKindMismatch", "ScheduleEnabled",
     "ScheduleHasInFlight", "ScheduleKindNotRegistered", "Schedule"}
SessionErrors ==
    {"InvalidSessionId", "SessionNotFound", "SessionIdAllocationFailed", "AgentNotFound",
     "AgentResolutionFailed"}
RegistryErrors ==
    {"WorkspaceIdConflict", "WorkspaceIdInvalid", "WorkspacePathConflict",
     "WorkspaceNotRegistered", "Registry"}
WorkspaceErrors == RegistryErrors \cup {"WorkspaceNameInvalid", "Workspace"}
SkillErrors == {"SkillNameInvalid", "SkillNotFound", "SkillOriginConflict", "SkillFrontmatter", "PlanStale"}
AgentErrors == {"AgentNameInvalid", "AgentNotFound", "AgentOriginConflict", "AgentFrontmatter", "AgentPlanStale"}
McpErrors == {"McpNameInvalid", "McpNotFound", "McpOriginConflict", "McpInvalidJson"}
FetchErrors == {"Fetch", "OriginParse"}
RuntimeErrors ==
    {"UnknownRuntime", "RuntimeDoesNotSupportRemote", "RuntimeStateDeletionFailed",
     "RuntimeProvisionFailed", "TrustRegistrationFailed", "RuntimeHeadlessLaunchFailed"}

(*-------------------------------- policies -------------------------------*)

TaskRows ==
    Row({"InvalidTaskId", "AgentNotFound", "RuntimeDoesNotSupportTasks"}, 400)
    @@ Row({"TaskNotFound"}, 404)
    @@ Row({"EntryNotReady", "InvalidTransition"}, 409)
    @@ Row({"ManagerShuttingDown"}, 503)
    @@ Row({"AgentResolutionFailed", "TaskIdAllocationFailed", "CorruptedTask"}, 500)

tasksErrorPolicy == TaskRows @@ Row({"RuntimeHeadlessLaunchFailed"}, 500)

(* The base class comes before the rows of the tasks, which are none of    *)
(* its own.                                                                *)
schedulesErrorPolicy ==
    Row({"ScheduleNotFound", "ScheduleKindMismatch"}, 404)
    @@ Row({"ScheduleEnabled", "ScheduleHasInFlight"}, 409)
    @@ Row({"ScheduleKindNotRegistered"}, 500)
    @@ Row(ScheduleErrors, 400)
    @@ tasksErrorPolicy

sessionsErrorPolicy ==
    Row({"InvalidSessionId", "AgentNotFound", "UnknownRuntime", "RuntimeDoesNotSupportRemote"}, 400)
    @@ Row({"SessionNotFound"}, 404)
    @@ Row({"RuntimeStateDeletionFailed"}, 409)
    @@ Row({"AgentResolutionFailed", "SessionIdAllocationFailed", "RuntimeProvisionFailed",
            "TrustRegistrationFailed"}, 500)

workflowsErrorPolicy ==
    Row(WorkflowMissing, 404)
    @@ Row(WorkflowInputErrors \cup {"WorkflowCoordAgentNotCapable", "WorkflowCoordSpec"}, 400)
    @@ Row(CorruptionErrors, 500)
    @@ Row(WorkflowStateErrors, 409)
    @@ TaskRows
    @@ Row(WorkflowErrors, 400)

workspacesErrorPolicy ==
    Row({"WorkspaceNameInvalid", "WorkspaceIdInvalid"}, 400)
    @@ Row({"WorkspaceNotRegistered"}, 404)
    @@ Row({"WorkspaceIdConflict", "WorkspacePathConflict", "WorkspaceHasLiveTasks"}, 409)
    @@ Row(WorkspaceErrors, 500)

catalogErrorPolicy ==
    Row({"SkillNameInvalid", "AgentNameInvalid", "McpNameInvalid", "SkillFrontmatter",
         "AgentFrontmatter", "McpInvalidJson", "OriginParse", "PlanStale", "AgentPlanStale",
         "CyclicDependency"}, 400)
    @@ Row({"SkillNotFound", "AgentNotFound", "McpNotFound"}, 404)
    @@ Row({"ImmutableOrigin"}, 405)
    @@ Row({"HasDependents", "SkillOriginConflict", "AgentOriginConflict", "McpOriginConflict"}, 409)
    @@ Row({"Fetch"}, 502)

Policy ==
    [schedule |-> schedulesErrorPolicy, task |-> tasksErrorPolicy, session |-> sessionsErrorPolicy,
     workflow |-> workflowsErrorPolicy, node |-> workflowsErrorPolicy,
     workspace |-> workspacesErrorPolicy, entry |-> catalogErrorPolicy]

(*--------------------------------- answers -------------------------------*)

SAFE_ERROR_NAMES ==
    (SkillErrors \cup AgentErrors \cup McpErrors \cup FetchErrors \cup SessionErrors
     \cup RuntimeErrors \cup TaskErrors \cup ScheduleErrors \cup WorkspaceErrors \cup WorkflowErrors
     \cup {"CyclicDependency", "HasDependents", "ImmutableOrigin", "WorkspaceHasLiveTasks",
           "WorkflowCoordAgentNotCapable", "WorkflowCoordSpec"})
    \ ({"AgentResolutionFailed", "InvalidJsonPath", "TaskScheduleTarget", "ScheduleKindMismatch",
        "ScheduleKindNotRegistered", "WorkflowDagInvariant"} \cup CorruptionErrors)

(* Bodies a policy writes itself, whatever the name of the class. *)
StableBody == {"AgentResolutionFailed", "ScheduleKindNotRegistered", "EntryNotReady",
               "WorkflowCoordAgentNotCapable"}

DefaultStatus(domain) == IF domain = "entry" THEN 500 ELSE 400

(* The status of an answer, and whether it says what went wrong. *)
respondError(domain, class) ==
    LET rows == Policy[domain]
    IN  [status |-> IF class \in DOMAIN rows THEN rows[class] ELSE DefaultStatus(domain),
         told   |-> class \in SAFE_ERROR_NAMES \cup StableBody]
==============================================================================
