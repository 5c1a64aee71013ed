--------------------------- MODULE MCIntervalometer ---------------------------
(* Instances of Intervalometer for TLC. *)
EXTENDS Intervalometer, TLC

CONSTANTS bg, a, b, c, ev, sw, ln, tm

\* main.c gives b and c one priority, which MCEventShared refutes: here they differ.
PriorApart == a :> 0 @@ b :> 1 @@ c :> 2

Waits == {<<a, ev>>, <<b, ev>>, <<c, ev>>, <<b, ln>>, <<c, sw>>}

\* Two short speeds, and one beyond the width of a tick, which the build cuts to a tick
\* beyond half a round.
SomeSpeeds  == 0 :> 1 @@ 1 :> 2 @@ 2 :> 20
BuiltSpeeds == 0 :> 1 @@ 1 :> 2 @@ 2 :> 13

\* The tick can follow no process of the first settings: it is too short for the exposure,
\* and the part of the interval before the focus is as long as the focus.  What is typed
\* it can.
Far   == [delay |-> 0, long |-> 17, intv |-> 4, numb |-> 2, hdr |-> 2, step |-> 1]
Quick == [delay |-> 0, long |-> 2, intv |-> 1, numb |-> 2, hdr |-> 0, step |-> 1]
OneTyped == {Quick}
=============================================================================
