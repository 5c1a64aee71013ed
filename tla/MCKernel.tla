------------------------------ MODULE MCKernel ------------------------------
(* Instances of Kernel and its abstract scheduler for TLC. *)
EXTENDS SchedulerRefinement, TLC

CONSTANTS bg, a, b, c

\* a above b and c, which share a priority.
PriorMixed == a :> 0 @@ b :> 1 @@ c :> 1
=============================================================================
