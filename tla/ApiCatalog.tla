----------------------------- MODULE ApiCatalog -----------------------------
(***************************************************************************)
(* The catalog of a workspace (its skills, agents and mcp servers) as the  *)
(* command line, the dashboard and the routes of the server see it.        *)
(*                                                                         *)
(* For the place something is installed from, "odd" is a text that begins  *)
(* with file: already; for the text of a file, one that cannot be read.    *)
(* The path <<"*">> is the value of a body as a whole.                     *)
(***************************************************************************)
EXTENDS ApiBody

(*--------------------------- routes of the server -----------------------*)

(* The place is trimmed before the catalog parses it: one that is nothing  *)
(* but white space is refused there, not here.                             *)
InstallBody(b)   == Is(b, <<"origin">>, (Strings \ {"empty"}) \cup {"odd"})
PlanTokenBody(b) == Is(b, <<"planToken">>, Strings \ {"empty"})
ContentBody(b)   == Is(b, <<"content">>, Strings)

(* Any object, a list too: the catalog looks at the fields.                *)
MetadataBody(b)  == Is(b, <<"*">>, {"object", "array"})

(*------------------------------ command line ----------------------------*)

CatalogOptions ==
    [install |-> [url : {"absent", "text", "blank", "odd"},
                  file : {"absent", "text", "blank", "odd"}],
     update  |-> [name : {"text", "blank"}, content : {"absent", "lines", "blank", "empty"},
                  contentFile : {"absent", "text", "odd"}],
     patch   |-> [name : {"text"}, metadata : {"absent", "object", "array", "null", "odd"},
                  metadataFile : {"absent", "text", "odd"}, errorKey : {"absent", "true"}],
     sync    |-> [name : {"text"}, planToken : {"text", "blank", "empty"}],
     show    |-> [name : {"text", "blank"}]]

Place == Full \cup {"odd"}

buildInstallOrigin(o) ==
    IF /\ Is(o, "url", Place) # Is(o, "file", Place)
       /\ ~ Is(o, "url", {"odd"})
    THEN Field(<<"origin">>, "text")              \* file: is put before a path
    ELSE Usage

(* A path where a file is expected is one that can be read. *)
readContentPayload(o) ==
    IF /\ ~ Given(o, {"content", "contentFile"})
       /\ "content" \in DOMAIN o \/ Is(o, "contentFile", {"text"})
    THEN Field(<<"content">>, "lines")
    ELSE Usage

(* An object from the option or from the file. An answer with a field      *)
(* "error" is how the reading itself fails, so an object that has one is   *)
(* refused as well.                                                        *)
readMetadataPayload(o) ==
    IF /\ ~ Given(o, {"metadata", "metadataFile"})
       /\ Is(o, "metadata", {"object"}) \/ Is(o, "metadataFile", {"text"})
       /\ "errorKey" \notin DOMAIN o
    THEN Field(<<"*">>, "object") @@ Field(<<"description">>, "text")
    ELSE Usage

Named(o, body) == IF Is(o, "name", Full) THEN body ELSE Usage

catalogInstall(o)    == buildInstallOrigin(o)
catalogResolve(o)    == buildInstallOrigin(o)
catalogShow(o)       == Named(o, NoBody)
catalogRm(o)         == Named(o, NoBody)
catalogSyncResolve(o) == Named(o, NoBody)
catalogAckPrereqs(o) == Named(o, NoBody)
catalogSetEnabled(o) == Named(o, NoBody)
catalogUpdate(o)     == Named(o, readContentPayload(o))
catalogPatch(o)      == Named(o, readMetadataPayload(o))
catalogSync(o) ==
    IF Is(o, "planToken", Full) THEN Named(o, Copy(o, "planToken", <<"planToken">>)) ELSE Usage

(*-------------------------------- dashboard -----------------------------*)

InstallDialogFields ==
    [provider : {"url", "file"}, location : {"text", "blank", "empty", "odd"}]

buildOriginFromSource(f) ==
    IF f["provider"] = "url" /\ f["location"] = "odd"
    THEN Usage
    ELSE Field(<<"origin">>, "text")

InstallDialog(f) ==
    IF f["location"] \in Place THEN buildOriginFromSource(f) ELSE Usage

(* Every field of the form is sent, the ones nobody touched as they were   *)
(* when it was opened; a kind leaves out what it does not have.            *)
PatchFields(kind) ==
    {"description", "version", "dependencies"} \cup (IF kind = "skill" THEN {"prereqs"} ELSE {})

PatchDialog(kind) ==
    Field(<<"*">>, "object") @@ [p \in {<<n>> : n \in PatchFields(kind)} |-> "text"]
=============================================================================
