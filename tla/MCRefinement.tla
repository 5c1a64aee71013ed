----------------------------- MODULE MCRefinement -----------------------------
(* Instances of Timer and its abstract scheduler for TLC. *)
EXTENDS Timer, SchedulerRefinement, TLC

CONSTANTS bg, a, b, c, tm

\* b and c share a priority.
PriorMixed == a :> 0 @@ b :> 1 @@ c :> 1
=============================================================================
