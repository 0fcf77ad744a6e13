----------------------------- MODULE MCBgTasks -----------------------------
(* BgTasks on small instances, for TLC. *)
EXTENDS BgTasks

CONSTANTS v1, v2, t1, t2
=============================================================================
