----------------------------- MODULE ApiWorkflows -----------------------------
(***************************************************************************)
(* The workflows of a workspace as the command line, the dashboard and the *)
(* routes of the server see them.  Lists are seen by what their members    *)
(* look like: <<"nodes", "kind">> is the kind of every node of a subgraph, *)
(* "array" a list whose members are right, "odd" one with a wrong member.  *)
(***************************************************************************)
EXTENDS ApiBody, FiniteSets

NonEmpty == Strings \ {"empty"}
Outcome  == {"succeeded", "failed"}
Kind     == {"text"}                    \* coordinator, worker; another one is "odd"
Anything == Forms                       \* a spec is looked at by its runner

(*--------------------------- routes of the server -----------------------*)

WorkflowListQuery(b) == MayBe(b, <<"createdSince">>, {"text"})

CreateWorkflowBody(b) ==
    /\ Only(b, {"brief", "details", "coordinatorAgent", "metadata"})
    /\ Is(b, <<"brief">>, Full)
    /\ Is(b, <<"coordinatorAgent">>, Full)
    /\ MayBe(b, <<"details">>, Strings)
    /\ MayBe(b, <<"metadata">>, {"object"})

AddNodeBody(b) ==
    /\ Only(b, {"kind", "spec", "parents"})
    /\ Is(b, <<"kind">>, Kind)
    /\ Is(b, <<"spec">>, Anything)
    /\ Is(b, <<"parents">>, {"array"})

AddEdgeBody(b) ==
    /\ Only(b, {"fromNodeId", "toNodeId"})
    /\ Is(b, <<"fromNodeId">>, NonEmpty)
    /\ Is(b, <<"toNodeId">>, NonEmpty)

(* A node that is there, or one of the same request: one key, no more.     *)
NodeRef(b, list, end) ==
    LET keys == {k \in DOMAIN b : Len(k) = 3 /\ SubSeq(k, 1, 2) = <<list, end>>}
    IN  /\ Cardinality(keys) = 1
        /\ \A k \in keys : k[3] \in {"nodeId", "tempId"} /\ b[k] \in NonEmpty

Members(b, list) == \E k \in DOMAIN b : Len(k) > 1 /\ k[1] = list

AddSubgraphBody(b) ==
    /\ Only(b, {"nodes", "edges"})
    /\ Is(b, <<"nodes">>, {"array"})
    /\ Is(b, <<"edges">>, {"array"})
    /\ Members(b, "nodes") =>
         /\ Within(b, "nodes", {"tempId", "kind", "spec", "existingParents"})
         /\ Is(b, <<"nodes", "tempId">>, NonEmpty)
         /\ Is(b, <<"nodes", "kind">>, Kind)
         /\ Is(b, <<"nodes", "spec">>, Anything)
         /\ MayBe(b, <<"nodes", "existingParents">>, {"array"})
    /\ Members(b, "edges") =>
         /\ Within(b, "edges", {"from", "to"})
         /\ NodeRef(b, "edges", "from")
         /\ NodeRef(b, "edges", "to")

ReplaceNodeSpecBody(b) == Only(b, {"newSpec"}) /\ Is(b, <<"newSpec">>, Anything)

FinishSucceeded(b) ==
    /\ Only(b, {"outcome", "success"})
    /\ MayBe(b, <<"success">>, {"object"})
    /\ Within(b, "success", {"output"})
    /\ MayBe(b, <<"success", "output">>, Strings \cup {"null"})

FinishFailed(b) ==
    /\ Only(b, {"outcome", "failure"})
    /\ Is(b, <<"failure">>, {"object"})
    /\ Within(b, "failure", {"kind", "message"})
    /\ MayBe(b, <<"failure", "kind">>, {"text"})         \* coordinator
    /\ Is(b, <<"failure", "message">>, Strings)

FinishWorkflowBody(b) ==
    /\ Is(b, <<"outcome">>, Outcome)
    /\ IF b[<<"outcome">>] = "succeeded" THEN FinishSucceeded(b) ELSE FinishFailed(b)

CancelWorkflowBody(b) ==
    /\ Only(b, {"cancellation"})                          \* "reason" is of an older protocol
    /\ Is(b, <<"cancellation">>, {"object"})
    /\ Within(b, "cancellation", {"kind", "message"})
    /\ MayBe(b, <<"cancellation", "kind">>, {"text"})    \* user
    /\ Is(b, <<"cancellation", "message">>, Strings)

(* summary/<path> or nodes/<node>/<path>, without a step upwards. *)
ArtifactPath(b) == Is(b, <<"encodedPath">>, {"text"})

(*------------------------------ command line ----------------------------*)

WorkflowOptions ==
    [list   |-> [q : {"absent", "text"}, coordinatorAgent : {"absent", "text"},
                 createdSince : {"absent", "text", "odd"}],
     create |-> [brief : Strings, coordAgent : {"text", "blank", "empty"},
                 details : {"absent", "lines", "empty"},
                 detailsFile : {"absent", "text", "odd"},
                 metadataFile : {"absent", "object", "array", "odd"}],
     show   |-> [wfid : {"text", "blank", "empty"}],
     nodeShow |-> [wfid : {"text"}, nid : {"text", "blank", "empty"}],
     cancel |-> [wfid : {"text"}, message : {"absent", "text", "empty"},
                 kind : {"absent", "text", "odd"}],
     finish |-> [wfid : {"text"}, outcome : Outcome \cup {"odd"},
                 summary : {"absent", "lines", "empty"}, message : {"absent", "lines", "empty"}]]

(* What the options of the coordinator's commands can be; a spec file that *)
(* cannot be read, or is no JSON, is "odd".                                *)
MutationOptions ==
    [addNode     |-> [wfid : {"text", "blank"}, kind : {"text", "odd"},
                      specFile : {"object", "null", "odd"}, parents : {"absent", "text"}],
     addEdge     |-> [wfid : {"text"}, from : {"text", "blank"}, to : {"text", "empty"}],
     replaceSpec |-> [wfid : {"text"}, nid : {"text", "blank"},
                      specFile : {"object", "null", "odd"}]]

(* What is in a subgraph file, path by path. *)
SubgraphFile ==
    [nodes : {"array", "object", "odd"}, edges : {"array", "odd"}, tempId : {"text", "empty", "odd"},
     kind : {"text", "odd"}, from : {"nodeId", "tempId", "id"}, more : {"absent", "odd"}]

workflowList(o) == [p \in {<<n>> : n \in DOMAIN o} |-> o[p[1]]]

workflowCreate(o) ==
    IF /\ Is(o, "brief", Full) /\ Is(o, "coordAgent", Full)
       /\ ~ Given(o, {"details", "detailsFile"})
       /\ MayBe(o, "detailsFile", {"text"})
       /\ MayBe(o, "metadataFile", {"object"})
    THEN Copy(o, "brief", <<"brief">>) @@ Copy(o, "coordAgent", <<"coordinatorAgent">>)
         @@ Copy(o, "details", <<"details">>)
         @@ (IF "detailsFile" \in DOMAIN o THEN Field(<<"details">>, "lines") ELSE NoBody)
         @@ Copy(o, "metadataFile", <<"metadata">>)
    ELSE Usage

workflowShow(o)       == IF Is(o, "wfid", Full) THEN NoBody ELSE Usage
workflowDag(o)        == workflowShow(o)
workflowNodeShow(o)   == IF Is(o, "wfid", Full) /\ Is(o, "nid", Full) THEN NoBody ELSE Usage
workflowRemoveNode(o) == workflowNodeShow(o)
workflowCancelNode(o) == workflowNodeShow(o)

Ends(o) == Is(o, "wfid", Full) /\ Is(o, "from", Full) /\ Is(o, "to", Full)
workflowRemoveEdge(o) == IF Ends(o) THEN NoBody ELSE Usage
workflowAddEdge(o) ==
    IF Ends(o) THEN Copy(o, "from", <<"fromNodeId">>) @@ Copy(o, "to", <<"toNodeId">>) ELSE Usage

workflowCancel(o) ==
    IF Is(o, "wfid", Full) /\ MayBe(o, "kind", {"text"})
    THEN Field(<<"cancellation">>, "object") @@ Field(<<"cancellation", "kind">>, "text")
         @@ Copy(o, "message", <<"cancellation", "message">>)
         @@ Field(<<"cancellation", "message">>, "empty")
    ELSE Usage

(* A message goes with a failure and a summary with success, never the     *)
(* other way about; the summary may be left out, the message may not.      *)
workflowFinish(o) ==
    IF /\ Is(o, "wfid", Full) /\ Is(o, "outcome", Outcome)
       /\ o["outcome"] = "failed" <=> "message" \in DOMAIN o
       /\ "summary" \in DOMAIN o => o["outcome"] = "succeeded"
    THEN Copy(o, "outcome", <<"outcome">>)
         @@ (IF o["outcome"] = "succeeded"
             THEN Field(<<"success">>, "object") @@ Copy(o, "summary", <<"success", "output">>)
                  @@ Field(<<"success", "output">>, "null")
             ELSE Field(<<"failure">>, "object") @@ Field(<<"failure", "kind">>, "text")
                  @@ Copy(o, "message", <<"failure", "message">>))
    ELSE Usage

JsonFile(o, name) == Is(o, name, {"object", "null"})

workflowAddNode(o) ==
    IF Is(o, "wfid", Full) /\ Is(o, "kind", Kind) /\ JsonFile(o, "specFile")
    THEN Copy(o, "kind", <<"kind">>) @@ Copy(o, "specFile", <<"spec">>)
         @@ Field(<<"parents">>, "array")       \* the ones without blanks; none at all too
    ELSE Usage

workflowReplaceSpec(o) ==
    IF Is(o, "wfid", Full) /\ Is(o, "nid", Full) /\ JsonFile(o, "specFile")
    THEN Copy(o, "specFile", <<"newSpec">>) ELSE Usage

(* The file is sent as it is; what is in the two lists is not looked at.   *)
workflowAddSubgraph(o) ==
    IF Is(o, "nodes", {"array"}) /\ Is(o, "edges", {"array"})
    THEN Copy(o, "nodes", <<"nodes">>) @@ Copy(o, "edges", <<"edges">>)
         @@ Copy(o, "tempId", <<"nodes", "tempId">>) @@ Copy(o, "kind", <<"nodes", "kind">>)
         @@ Field(<<"nodes", "spec">>, "object")
         @@ Field(<<"edges", "from", o["from"]>>, "text") @@ Field(<<"edges", "to", "tempId">>, "text")
         @@ Copy(o, "more", <<"more">>)
    ELSE Usage

(*-------------------------------- dashboard -----------------------------*)

CreateWorkflowFields ==
    [agent : {"text", "empty"}, brief : Strings, details : {"lines", "blank", "empty"}]

CreateWorkflowModal(f) ==
    IF Is(f, "brief", Full) /\ f["agent"] # "empty"
    THEN Copy(f, "brief", <<"brief">>) @@ Copy(f, "agent", <<"coordinatorAgent">>)
         @@ FullOnly(f, "details", <<"details">>)
    ELSE Usage
==============================================================================
