------------------------------- MODULE ApiTasks -------------------------------
(***************************************************************************)
(* The tasks of a workspace as the command line, the dashboard and the     *)
(* routes of the server see them.                                          *)
(***************************************************************************)
EXTENDS ApiBody

(*--------------------------- routes of the server -----------------------*)

TaskListQuery(b) ==
    MayBe(b, <<"createdSince">>, {"text"}) /\ MayBe(b, <<"status">>, {"text"})

(* Fields it does not know are let through; the brief is looked at without *)
(* the white space around it.                                              *)
TaskDispatchBody(b) ==
    /\ Is(b, <<"agent">>, Full)
    /\ Is(b, <<"brief">>, Brief)
    /\ MayBe(b, <<"details">>, Strings)
    /\ MayBe(b, <<"runtime">>, Strings)

(* before or after, never both; a number is what its text says again.      *)
(* "odd" is what is no number, or not one the route allows.                *)
TaskActivityQuery(b) ==
    /\ ~ ({<<"before">>, <<"after">>} \subseteq DOMAIN b)
    /\ \A n \in {"before", "after", "limit"} : MayBe(b, <<n>>, {"number"})

ArtifactName(b) == Is(b, <<"name">>, Brief)      \* a bare name of a file

(*------------------------------ command line ----------------------------*)

TaskOptions ==
    [list     |-> [agent : {"absent", "text"}, createdSince : {"absent", "text", "odd"},
                   status : {"absent", "text", "odd"}],
     dispatch |-> [agent : {"text", "blank", "empty"}, brief : Strings,
                   details : {"absent", "lines", "blank", "empty"},
                   detailsFile : {"absent", "text", "empty", "odd"},
                   runtime : {"absent", "text", "blank", "empty"}],
     show     |-> [tid : {"text", "blank"}],
     rm       |-> [tid : {"text", "blank"}, purge : {"absent", "true"}],
     cancel   |-> [tid : {"text", "blank"}]]

TaskActivityOptions ==
    [tid : {"text"}, follow : {"absent", "true"}, before : {"absent", "number", "odd"},
     after : {"absent", "number", "odd"}, limit : {"absent", "number", "odd"}]

(* The file of the details is read by the client; what is in it has the    *)
(* form it was given with, the empty one too, and "odd" is a file that     *)
(* cannot be read.                                                         *)
DetailsOf(typed, o) ==
    IF Is(typed, "detailsFile", {"text", "odd"}) THEN Field(<<"details">>, "lines")
    ELSE Copy(o, "details", <<"details">>)

taskDispatch(typed) ==
    LET o == Picked(typed)
    IN  IF /\ ~ Given(o, {"details", "detailsFile"})
           /\ MayBe(o, "detailsFile", {"text"})
           /\ Is(o, "agent", Full)
           /\ Is(o, "brief", Brief)
        THEN Copy(o, "agent", <<"agent">>) @@ Copy(o, "brief", <<"brief">>)
             @@ DetailsOf(typed, o) @@ Copy(o, "runtime", <<"runtime">>)
        ELSE Usage

taskList(o) == [p \in {<<n>> : n \in DOMAIN o} |-> o[p[1]]]

taskShow(o)   == IF Is(o, "tid", Full) THEN NoBody ELSE Usage
taskCancel(o) == taskShow(o)
taskRm(o)     == IF Is(o, "tid", Full) THEN Copy(o, "purge", <<"purge">>) ELSE Usage

(* Numbers are looked at when the options are read, but for the limit; a   *)
(* client that follows the log asks for the stream, where the place to     *)
(* begin is in a header and there is no query to refuse.                   *)
taskActivity(o) ==
    IF /\ Is(o, "tid", Full)
       /\ MayBe(o, "before", {"number"}) /\ MayBe(o, "after", {"number"})
       /\ ~ Given(o, {"before", "after"})
       /\ "follow" \in DOMAIN o => ~ OneOf(o, {"before", "limit"})
    THEN IF "follow" \in DOMAIN o THEN NoBody
         ELSE Copy(o, "before", <<"before">>) @@ Copy(o, "after", <<"after">>)
              @@ Copy(o, "limit", <<"limit">>)
    ELSE Usage

(*-------------------------------- dashboard -----------------------------*)

DispatchFields ==
    [agent : {"text", "empty"}, brief : Strings,
     details : {"lines", "blank", "empty"}, runtime : {"text", "empty"}]

DispatchModal(f) ==
    IF f["agent"] # "empty" /\ Is(f, "brief", Brief)
    THEN Copy(f, "agent", <<"agent">>) @@ Copy(f, "brief", <<"brief">>)
         @@ FullOnly(f, "details", <<"details">>)
         @@ FullOnly(f, "runtime", <<"runtime">>)
    ELSE Usage
==============================================================================
