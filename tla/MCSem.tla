-------------------------------- MODULE MCSem --------------------------------
(* Instances of Sem for TLC. *)
EXTENDS Sem, TLC

CONSTANTS bg, a, b, c, s, s2, tm

PriorDistinct == a :> 0 @@ b :> 1 @@ c :> 2

\* Everybody waits for s, and b with a timeout for s2.
AllWait  == {a, b, c} \X {s}
OneTimed == {<<b, s2, tm>>}
=============================================================================
