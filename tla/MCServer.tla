------------------------------- MODULE MCServer -------------------------------
(***************************************************************************)
(* The clients of the server and the commands that start and stop it, for  *)
(* TLC. They share nothing but the run: while the ones move, the others    *)
(* have not begun.                                                         *)
(***************************************************************************)
EXTENDS MCApi, ServerLifecycle

LOCAL T == INSTANCE TLC

Symmetry == T!Permutations(Commands)

ApiAtRest  == Init /\ thing = "task" /\ row = "none"
ServerInit == Init /\ LifeInit
ServerNext ==
    \/ LifeInit /\ Next /\ UNCHANGED lifeVars
    \/ ApiAtRest /\ LifeNext /\ UNCHANGED vars
ServerSpec == ServerInit /\ [][ServerNext]_<<vars, lifeVars>>
===============================================================================
