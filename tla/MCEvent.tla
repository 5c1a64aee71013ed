------------------------------- MODULE MCEvent -------------------------------
(* Instances of Event for TLC. *)
EXTENDS Event, TLC

CONSTANTS bg, a, b, c, e1

\* a and b share a priority, and wait for one event.
PriorShared == a :> 0 @@ b :> 0
BothWait    == {a, b} \X {e1}

\* Every thread has its own priority, and all wait for one event.
PriorDistinct == a :> 0 @@ b :> 1 @@ c :> 2
AllWait       == {a, b, c} \X {e1}
=============================================================================
