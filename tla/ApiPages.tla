------------------------------ MODULE ApiPages ------------------------------
(***************************************************************************)
(* What the pages of the dashboard ask of the server by themselves or at   *)
(* the press of a button: the lists, filtered by what the address of the   *)
(* page says, and the small edits that need no form.                       *)
(*                                                                         *)
(* An address can be typed: for a range of time, "null" is the one that    *)
(* means all, "odd" a text the page does not know.                         *)
(***************************************************************************)
EXTENDS ApiBody

(*--------------------------------- lists --------------------------------*)

Filter(f, n) == Copy(f, n, <<n>>)               \* a filter set to all is absent

(* A range that is not known is the usual one, so that a list never asks   *)
(* for what the route would refuse.                                        *)
coerceTimePreset(range) == IF range = "odd" THEN "text" ELSE range
Since(f, p) ==
    IF coerceTimePreset(f["range"]) = "null" THEN NoBody ELSE Field(p, "text")

Ranges == {"text", "null", "odd"}
Choice == {"absent", "text"}

SessionsPageFilters == [agent : Choice, range : Ranges]
SessionsPage(f)     == Filter(f, "agent") @@ Since(f, <<"activeSince">>)

TasksPageFilters == [agent : Choice, runtime : Choice, range : Ranges]
useTasks(f) == Filter(f, "agent") @@ Filter(f, "runtime") @@ Since(f, <<"createdSince">>)

(* The page of the agents shows the last seven days, and the sessions of   *)
(* the agent that is selected.                                             *)
AgentsListPageTasks    == Field(<<"createdSince">>, "text")
AgentsListPageSessions == Field(<<"agent">>, "text")

WorkflowsPageFilters == [q : Choice, coordinatorAgent : Choice, range : Ranges]
useWorkflows(f) ==
    Filter(f, "q") @@ Filter(f, "coordinatorAgent") @@ Since(f, <<"createdSince">>)

(* Whether it is enabled says nothing when the page does not know the text. *)
SchedulesPageFilters == [agent : Choice, enabled : {"true", "false", "odd"}]
coerceEnabledFilter(f) ==
    IF f["enabled"] \in Flag THEN Copy(f, "enabled", <<"enabled">>) ELSE NoBody
SchedulesPage(f) == Filter(f, "agent") @@ coerceEnabledFilter(f)

(* The runs of the schedule whose details are open; the next times of the  *)
(* cron expression of a form, once it and its time zone say something.     *)
ScheduleRecentFires == Field(<<"scheduleId">>, "text")
useSchedulePreview(f) ==
    IF f["expr"] # "empty" /\ f["tz"] # "empty"
    THEN Copy(f, "expr", <<"expr">>) @@ Copy(f, "tz", <<"tz">>) @@ Field(<<"n">>, "number")
    ELSE Usage

(*-------------------------------- buttons -------------------------------*)

(* Files are removed only where the box was ticked. *)
Purge(f)     == IF f["purge"] = "true" THEN Field(<<"purge">>, "true") ELSE NoBody
PurgeBox     == [purge : Flag]
onConfirmDelete(f)      == Purge(f)             \* a session, a task
RemoveWorkspaceModal(f) == NoBody               \* the files of a workspace stay

(* One launch at a time; remote only where it was the button pressed. *)
LaunchButtons == [launching : Flag, remote : Flag]
onLaunch(f) ==
    IF f["launching"] = "true" THEN Usage
    ELSE IF f["remote"] = "true" THEN Field(<<"remote">>, "true") ELSE NoBody

(* A schedule is switched to the opposite of what the page shows, and run  *)
(* only where the page shows it switched on.                               *)
handleToggleEnabled(f) == Copy(f, "enabled", <<"enabled">>)
handleRunNow(f)        == IF f["enabled"] = "true" THEN NoBody ELSE Usage
handleConfirmDelete    == NoBody                \* asked of the user first
onConfirmCancel        == NoBody

(* The reason, which may be none, without the white space around it. *)
CancelReason == [message : {"lines", "blank", "empty"}]
CancelWorkflowModal(f) ==
    Field(<<"cancellation">>, "object") @@ Field(<<"cancellation", "kind">>, "text")
    @@ Trimmed(f, "message", <<"cancellation", "message">>)

(*------------------------------- workspaces -----------------------------*)

LandingPage == NoBody                           \* the list, and the one opened last
AddWorkspaceFields == [name : Strings, workspaceDir : {"text", "blank", "empty"}]
AddWorkspaceModal(f) ==
    IF Is(f, "name", Full)
    THEN Copy(f, "name", <<"name">>) @@ FullOnly(f, "workspaceDir", <<"workspaceDir">>)
    ELSE Usage

(* The name of the workspace, edited in place in the side bar; WorkspaceShell *)
(* says which workspace is open whenever its address is.                   *)
RenameFields == [name : Strings]
commitEdit(f) == IF Is(f, "name", Full) THEN Copy(f, "name", <<"name">>) ELSE Usage
WorkspaceShell == Field(<<"id">>, "text")

(*-------------------------------- catalog -------------------------------*)

(* Each of these names the entry in its address and says nothing more. *)
doRemove            == NoBody
handlePreviewSync   == NoBody
handleAcknowledge   == NoBody
handleToggleAgent   == NoBody

(* The token is the one of the preview on the screen. *)
handleApplySync(f) ==
    IF "planToken" \in DOMAIN f THEN Copy(f, "planToken", <<"planToken">>) ELSE Usage

(* The text of an entry is written whole. *)
handleSave(f) == Copy(f, "content", <<"content">>)
=============================================================================
