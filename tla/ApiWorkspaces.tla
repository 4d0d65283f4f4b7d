---------------------------- MODULE ApiWorkspaces ----------------------------
(***************************************************************************)
(* The workspaces, and the sessions of a workspace, as the command line,   *)
(* the dashboard and the routes of the server see them.                    *)
(***************************************************************************)
EXTENDS ApiBody

(*--------------------------- routes of the server -----------------------*)

CreateWorkspaceBody(b) ==
    /\ Is(b, <<"name">>, Strings)
    /\ MayBe(b, <<"workspaceDir">>, Full \cup {"null"})

PutCurrentBody(b)     == Is(b, <<"id">>, Strings \ {"empty"})
PatchWorkspaceBody(b) == Is(b, <<"name">>, Strings)

SessionListQuery(b) ==
    MayBe(b, <<"createdSince">>, {"text"}) /\ MayBe(b, <<"activeSince">>, {"text"})

CreateSessionBody(b) ==
    Is(b, <<"agent">>, Full) /\ MayBe(b, <<"runtime">>, Strings)

SpawnSessionBody(b) == MayBe(b, <<"remote">>, Flag)

(*------------------------------ command line ----------------------------*)

WorkspaceOptions ==
    [add    |-> [name : {"text", "blank", "empty"}, workspaceDir : {"absent", "text", "blank", "empty"}],
     update |-> [id : {"text", "blank"}, name : {"absent", "text", "blank", "empty"}],
     rm     |-> [id : {"text", "blank"}, purge : {"absent", "true"}],
     use    |-> [id : {"text", "blank"}]]

SessionOptions ==
    [list  |-> [agent : {"absent", "text"}, createdSince : {"absent", "text", "odd"},
                activeSince : {"absent", "text", "odd"}],
     new   |-> [agent : {"text", "blank", "empty"}, runtime : {"absent", "text", "blank"}],
     rm    |-> [sid : {"text", "blank"}, purge : {"absent", "true"}],
     spawn |-> [sid : {"text", "blank"}, remote : {"absent", "true"}]]

workspaceAdd(o) ==
    IF Is(o, "name", Full)
    THEN Copy(o, "name", <<"name">>) @@ Copy(o, "workspaceDir", <<"workspaceDir">>)
    ELSE Usage

workspaceShow(o)   == IF Is(o, "id", Full) THEN NoBody ELSE Usage
workspaceReload(o) == workspaceShow(o)
workspaceRm(o)     == IF Is(o, "id", Full) THEN Copy(o, "purge", <<"purge">>) ELSE Usage
workspaceUpdate(o) ==
    IF Is(o, "id", Full) /\ Given(o, {"name"}) THEN Copy(o, "name", <<"name">>) ELSE Usage

(* The current workspace of the server is shared by all of its clients: a  *)
(* command line that set it would redirect the next command of another.    *)
workspaceUse(o) == Usage

sessionList(o)  == [p \in {<<n>> : n \in DOMAIN o} |-> o[p[1]]]
sessionNew(o) ==
    IF Is(o, "agent", Full)
    THEN Copy(o, "agent", <<"agent">>) @@ Copy(o, "runtime", <<"runtime">>)
    ELSE Usage
sessionShow(o)  == IF Is(o, "sid", Full) THEN NoBody ELSE Usage
sessionRm(o)    == IF Is(o, "sid", Full) THEN Copy(o, "purge", <<"purge">>) ELSE Usage
sessionSpawn(o) == IF Is(o, "sid", Full) THEN Copy(o, "remote", <<"remote">>) ELSE Usage

(*-------------------------------- dashboard -----------------------------*)

(* The agent is one of a list, or nothing when the list is empty. *)
CreateModalFields == [agent : {"text", "empty"}, runtime : {"text", "empty"}]

CreateModal(f) ==
    IF f["agent"] # "empty"
    THEN Copy(f, "agent", <<"agent">>) @@ FullOnly(f, "runtime", <<"runtime">>)
    ELSE Usage
==============================================================================
