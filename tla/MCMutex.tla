------------------------------- MODULE MCMutex -------------------------------
(* Instances of Mutex for TLC. *)
EXTENDS Mutex, TLC

CONSTANTS bg, a, b, c, m1, e1, e2, tm

PriorTwo      == a :> 0 @@ b :> 1
PriorDistinct == a :> 0 @@ b :> 1 @@ c :> 2

\* b enters m1 with a timeout.
OneTimed == {<<b, m1, tm>>}

\* c waits for e2, and b with a timeout for e1.
OneWaits == {<<c, e2>>}
OneEvent == {<<b, e1, tm>>}
=============================================================================
