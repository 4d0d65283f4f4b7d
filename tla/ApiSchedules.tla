---------------------------- MODULE ApiSchedules ----------------------------
(***************************************************************************)
(* The schedules of a workspace as the command line, the dashboard and the *)
(* routes of the server see them.                                          *)
(***************************************************************************)
EXTENDS ApiBody

(*--------------------------- routes of the server -----------------------*)

TaskTarget == {"agent", "brief", "details", "runtime"}

TargetData(b) ==
    /\ Is(b, <<"target">>, {"object"})
    /\ Within(b, "target", TaskTarget)        \* "kind" is in the path of the request
    /\ Is(b, <<"target", "agent">>, Full)
    /\ Is(b, <<"target", "brief">>, Brief)
    /\ MayBe(b, <<"target", "details">>, Strings)
    /\ MayBe(b, <<"target", "runtime">>, Full)

TargetPatch(b) ==                             \* null deletes an optional field
    /\ Is(b, <<"target">>, {"object"})
    /\ Within(b, "target", TaskTarget)
    /\ MayBe(b, <<"target", "agent">>, Full)
    /\ MayBe(b, <<"target", "brief">>, Brief)
    /\ MayBe(b, <<"target", "details">>, Strings \cup {"null"})
    /\ MayBe(b, <<"target", "runtime">>, Full \cup {"null"})

Trigger(b) ==
    /\ Is(b, <<"trigger">>, {"object"})
    /\ Is(b, <<"trigger", "kind">>, {"text"})            \* "cron"
    /\ Is(b, <<"trigger", "expr">>, Full)
    /\ Is(b, <<"trigger", "tz">>, Full)

CreateScheduleBody(b) ==
    /\ Only(b, {"name", "target", "trigger", "enabled"})
    /\ Is(b, <<"name">>, Full)
    /\ MayBe(b, <<"enabled">>, Flag)
    /\ TargetData(b) /\ Trigger(b)

PatchScheduleBody(b) ==
    /\ Only(b, {"name", "target", "trigger", "enabled"})
    /\ MayBe(b, <<"name">>, Full)
    /\ MayBe(b, <<"enabled">>, Flag)
    /\ <<"trigger">> \in DOMAIN b => Trigger(b)
    /\ <<"target">> \in DOMAIN b => TargetPatch(b)

PreviewQuery(b)     == MayBe(b, <<"n">>, {"number"})
PreviewCronQuery(b) == Is(b, <<"expr">>, Full) /\ Is(b, <<"tz">>, Full) /\ PreviewQuery(b)
ListSchedulesQuery(b) == MayBe(b, <<"enabled">>, Flag)

(* A list of the tasks of the schedules: a cutoff that is a time, states   *)
(* that are states.                                                        *)
ScheduledTasksQuery(b) ==
    MayBe(b, <<"createdSince">>, {"text"}) /\ MayBe(b, <<"status">>, {"text"})

(*------------------------------ command line ----------------------------*)

(* emploke schedule list | create | show, enable, disable, rm, run |       *)
(* preview | list-tasks: the options of each, and the forms they can have. *)
ScheduleOptions ==
    [list    |-> [agent : {"absent", "text"}, enabled : {"absent", "true", "odd"}],
     create  |-> [name : {"text", "blank"}, agent : {"text", "blank"}, brief : Strings,
                  details : {"absent", "lines", "empty"}, cron : {"text", "blank"},
                  tz : {"text", "empty"}, runtime : {"absent", "text", "blank"},
                  disabled : {"absent", "true"}],
     show    |-> [sid : {"text", "blank"}],
     preview |-> [sid : {"text"}, n : {"absent", "number", "odd"}]]

SchedulePatchOptions ==
    [name : {"absent", "text", "blank"}, agent : {"absent", "text"},
     cron : {"absent", "text", "blank"}, tz : {"absent", "text"},
     brief : {"absent", "text", "lines", "long", "blank"},
     details : {"absent", "lines"}, clearDetails : {"absent", "true"},
     runtime : {"absent", "text", "blank"}, clearRuntime : {"absent", "true"},
     enabled : {"absent", "true", "false"}]

ScheduleToggleOptions == [sid : {"text", "blank"}, enabled : Flag]

ScheduleListTasksOptions ==
    [scheduleId : {"absent", "text"}, createdSince : {"absent", "text", "odd"},
     status : {"absent", "text", "odd"}]

scheduleList(o) ==
    IF MayBe(o, "enabled", Flag)
    THEN Copy(o, "agent", <<"agent">>) @@ Copy(o, "enabled", <<"enabled">>)
    ELSE Usage

(* What the command needs is looked at here, the runtime only by the       *)
(* server; the brief is sent without the white space around it.            *)
scheduleCreate(o) ==
    IF /\ \A n \in {"name", "agent", "cron", "tz"} : Is(o, n, Full)
       /\ Is(o, "brief", Brief)
    THEN Copy(o, "name", <<"name">>) @@ Field(<<"target">>, "object")
         @@ Copy(o, "agent", <<"target", "agent">>) @@ Copy(o, "brief", <<"target", "brief">>)
         @@ Copy(o, "details", <<"target", "details">>)
         @@ Copy(o, "runtime", <<"target", "runtime">>)
         @@ Field(<<"trigger">>, "object") @@ Field(<<"trigger", "kind">>, "text")
         @@ Copy(o, "cron", <<"trigger", "expr">>) @@ Copy(o, "tz", <<"trigger", "tz">>)
         @@ Field(<<"enabled">>, IF "disabled" \in DOMAIN o THEN "false" ELSE "true")
    ELSE Usage

(* Commands that name a schedule and nothing more. *)
scheduleShow(o) == IF Is(o, "sid", Full) THEN NoBody ELSE Usage
scheduleRm(o)   == scheduleShow(o)
scheduleRun(o)  == scheduleShow(o)
patchEnabled(o, enabled) ==
    IF Is(o, "sid", Full) THEN Field(<<"enabled">>, enabled) ELSE Usage

schedulePreview(o) ==
    IF Is(o, "sid", Full) /\ MayBe(o, "n", {"number"}) THEN Copy(o, "n", <<"n">>) ELSE Usage

TargetOptions == {"agent", "brief", "details", "clearDetails", "runtime", "clearRuntime"}

(* A new cron expression or time zone alone: the other half of the trigger *)
(* is read first, and written back.                                        *)
ReadsTrigger(o) == OneOf(o, {"cron", "tz"}) /\ ~ Given(o, {"cron", "tz"})

\* Mutant of TriggerOf: the trigger goes back with every edit.
TriggerOfAnyEdit(o) ==
    Field(<<"trigger">>, "object") @@ Field(<<"trigger", "kind">>, "text")
    @@ Copy(o, "cron", <<"trigger", "expr">>) @@ Copy(o, "tz", <<"trigger", "tz">>)
    @@ Field(<<"trigger", "expr">>, "text") @@ Field(<<"trigger", "tz">>, "text")

TriggerOf(o) ==
    IF OneOf(o, {"cron", "tz"})
    THEN Field(<<"trigger">>, "object") @@ Field(<<"trigger", "kind">>, "text")
         @@ Copy(o, "cron", <<"trigger", "expr">>) @@ Copy(o, "tz", <<"trigger", "tz">>)
         @@ Field(<<"trigger", "expr">>, "text") @@ Field(<<"trigger", "tz">>, "text")
    ELSE NoBody

Cleared(o, name, p) == IF name \in DOMAIN o THEN Field(p, "null") ELSE NoBody

schedulePatch(o) ==
    IF /\ ~ Given(o, {"details", "clearDetails"})
       /\ ~ Given(o, {"runtime", "clearRuntime"})
       /\ MayBe(o, "brief", Brief)
       /\ OneOf(o, TargetOptions \cup {"name", "cron", "tz", "enabled"})
    THEN Copy(o, "name", <<"name">>) @@ Copy(o, "enabled", <<"enabled">>) @@ TriggerOf(o)
         @@ (IF ~ OneOf(o, TargetOptions) THEN NoBody ELSE
             Field(<<"target">>, "object") @@ Copy(o, "agent", <<"target", "agent">>)
             @@ Copy(o, "brief", <<"target", "brief">>)
             @@ Cleared(o, "clearDetails", <<"target", "details">>)
             @@ Copy(o, "details", <<"target", "details">>)
             @@ Cleared(o, "clearRuntime", <<"target", "runtime">>)
             @@ Copy(o, "runtime", <<"target", "runtime">>))
    ELSE Usage

scheduleListTasks(o) ==
    [p \in {<<n>> : n \in DOMAIN o} |-> o[p[1]]]

(*-------------------------------- dashboard -----------------------------*)

(* The two forms have the same fields. The list of agents and that of the  *)
(* runtimes can be empty; a preset that says nothing and a cron expression *)
(* the preview refused keep the form from being sent, unless the preview   *)
(* has not answered yet.                                                   *)
ScheduleFormFields ==
    [name : {"text", "blank", "empty"}, agent : {"text", "empty"},
     runtime : {"text", "empty"}, brief : Strings,
     details : {"lines", "blank", "empty"}, tz : {"text"},
     expr : {"text", "empty"}]

validatePreset(f) == f["expr"] # "empty"

CreateScheduleModal(f) ==
    IF /\ Is(f, "name", Full) /\ f["agent"] # "empty" /\ Is(f, "brief", Brief)
       /\ validatePreset(f)
    THEN Copy(f, "name", <<"name">>) @@ Field(<<"target">>, "object")
         @@ Copy(f, "agent", <<"target", "agent">>) @@ Copy(f, "brief", <<"target", "brief">>)
         @@ FullOnly(f, "details", <<"target", "details">>)
         @@ FullOnly(f, "runtime", <<"target", "runtime">>)
         @@ Field(<<"trigger">>, "object") @@ Field(<<"trigger", "kind">>, "text")
         @@ Copy(f, "expr", <<"trigger", "expr">>) @@ Copy(f, "tz", <<"trigger", "tz">>)
         @@ Field(<<"enabled">>, "true")
    ELSE Usage

\* Mutant of NullIfEmpty: a field emptied is sent as it is.
EmptyAsTyped(f, n, p) == IF n \in DOMAIN f THEN Field(p, f[n]) ELSE NoBody

(* f has the fields the user changed, in their new form. A field emptied   *)
(* is sent as null where the schedule can do without it.                   *)
NullIfEmpty(f, n, p) ==
    IF n \notin DOMAIN f THEN NoBody
    ELSE Field(p, IF f[n] \in Full THEN f[n] ELSE "null")

EditScheduleModal(f) ==
    IF /\ DOMAIN f # {}
       /\ MayBe(f, "name", Full) /\ MayBe(f, "agent", {"text"}) /\ MayBe(f, "brief", Brief)
       /\ MayBe(f, "expr", {"text"})
    THEN Copy(f, "name", <<"name">>)
         @@ (IF ~ OneOf(f, {"agent", "brief", "details", "runtime"}) THEN NoBody ELSE
             Field(<<"target">>, "object") @@ Copy(f, "agent", <<"target", "agent">>)
             @@ Copy(f, "brief", <<"target", "brief">>)
             @@ NullIfEmpty(f, "details", <<"target", "details">>)
             @@ NullIfEmpty(f, "runtime", <<"target", "runtime">>))
         @@ (IF ~ OneOf(f, {"expr", "tz"}) THEN NoBody ELSE
             Field(<<"trigger">>, "object") @@ Field(<<"trigger", "kind">>, "text")
             @@ Copy(f, "expr", <<"trigger", "expr">>) @@ Copy(f, "tz", <<"trigger", "tz">>)
             @@ Field(<<"trigger", "expr">>, "text") @@ Field(<<"trigger", "tz">>, "text"))
    ELSE Usage
=============================================================================
