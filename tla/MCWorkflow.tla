----------------------------- MODULE MCWorkflow -----------------------------
(* Workflow with the lists of edges addSubgraph is given for TLC. *)
EXTENDS Workflow

\* No edge, one, or two.
UpToTwoEdges ==
    {{}} \cup {{e, f} : e, f \in Node \X Node}
=============================================================================
