----------------------------- MODULE MCWorkspace -----------------------------
(***************************************************************************)
(* One schedule and the sessions of two workspaces for TLC. They share     *)
(* nothing but the run: while the one moves, the other has not begun.      *)
(***************************************************************************)
EXTENDS MCSchedule, Sessions, TLC

CONSTANTS s1, s2, w1, w2

MCHome   == s1 :> w1 @@ s2 :> w2
Symmetry == Permutations(Calls)

DiskAtRest     == DiskInit /\ registered = {} /\ trusted = Nothing
WorkspaceInit  == Init /\ DiskInit
WorkspaceNext  ==
    \/ Init /\ DiskNext /\ UNCHANGED vars
    \/ DiskAtRest /\ Next /\ UNCHANGED diskVars
WorkspaceSpec == WorkspaceInit /\ [][WorkspaceNext]_<<vars, diskVars>>
==============================================================================
