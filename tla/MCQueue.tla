------------------------------- MODULE MCQueue -------------------------------
(* Instances of Queue and QueueRefinement for TLC. *)
EXTENDS QueueRefinement, TLC

CONSTANTS bg, a, b, d, pm, gm, ie, oe, e, tm, q1

PriorDistinct == a :> 0 @@ b :> 1 @@ d :> 2

TwoBytes   == q1 :> 2
PuttingOne == q1 :> pm
GettingOne == q1 :> gm
InputOne   == q1 :> ie
OutputOne  == q1 :> oe

\* a puts blocks and strings, b gets blocks, d gets strings; some with a timer.
AllCalls ==
  bg :> {} @@ a :> {queue_put(q1, 3), queue_putStr(q1, 2)}
  @@ b :> {queueTimer_get(q1, 2, tm), queue_get8(q1)} @@ d :> {queueTimer_put(q1, 2, tm), queue_getStr(q1)}

\* d puts single bytes with a timer.
Put8Calls ==
  bg :> {} @@ a :> {queue_put8(q1)} @@ b :> {queue_get8(q1)} @@ d :> {queueTimer_put8(q1, tm)}

AllWait  == {a, b, d} \X {ie, oe} \cup {a, b} \X {e}
AllTimed == {b, d} \X {ie, oe} \X {tm}
AllTimedMutex == {b, d} \X {pm, gm} \X {tm}
=============================================================================
