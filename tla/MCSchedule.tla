----------------------------- MODULE MCSchedule -----------------------------
(* Schedule with triggers for TLC: a slot at every instant, and a rare one. *)
EXTENDS Schedule

Triggers == {1..MaxTime, {MaxTime}}
=============================================================================
