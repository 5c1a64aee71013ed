------------------------------- MODULE MCSerial -------------------------------
(* Instances of Serial for TLC. *)
EXTENDS Serial, TLC

CONSTANTS bg, a, b, tp, rp, tg, rg, ti, ri, to, ro, e, tm, tx, rx

PriorTwo == a :> 1 @@ b :> 0

Sizes      == tx :> 2 @@ rx :> 1
PutMutexes == tx :> tp @@ rx :> rp
GetMutexes == tx :> tg @@ rx :> rg
Inputs     == tx :> ti @@ rx :> ri
Outputs    == tx :> to @@ rx :> ro

Sessions ==
  bg :> {} @@ a :> {"serial_char"} @@ b :> {"serialTimer_getNum", "serial_option"}

QueueCalls == [t \in {bg, a, b} |-> UNION {queueCalls(c) : c \in Sessions[t]}]

Options == 0 :> 1 @@ 1 :> 1

Waits     == {<<a, e>>, <<a, to>>, <<b, to>>, <<b, ri>>}
TimedWait == {b} \X {ri} \X {tm}
TimedGet  == {b} \X {rg} \X {tm}
=============================================================================
