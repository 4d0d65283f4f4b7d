-------------------------- MODULE MCActivityView --------------------------
(* ActivityView with logs that are empty or begin with an open call, and with *)
(* empty logs only.                                                        *)
EXTENDS ActivityView, TLC

MCFirst == {<<>>, <<[kind |-> "ask", call |-> 0]>>}
MCEmpty == {<<>>}
Symmetry == Permutations(Task)
=============================================================================
