-------------------------------- MODULE MCDemo --------------------------------
(* An instance of Demo for TLC. *)
EXTENDS Demo, TLC

CONSTANTS bg, led, clk, term, snd, ev, sw, eoc, ln, rm, ie, oe, pm, gm, bs, t0, t1, q1

\* The priorities of _schInfo.
PriorInfo == led :> 0 @@ clk :> 1 @@ term :> 2 @@ snd :> 1

TwoBytes   == q1 :> 2
PuttingOne == q1 :> pm
GettingOne == q1 :> gm
InputOne   == q1 :> ie
OutputOne  == q1 :> oe
NoCalls    == [t \in Threads |-> {}]

Waits == {term} \X {ln, rm, sw, eoc, ie} \cup {snd} \X {ev, oe}
TimedWaits == {term} \X {ln, ie} \X {t0}
TimedGet   == {<<term, gm, t0>>}

Numbers ==
  [year |-> {2016}, month |-> {0, 2}, day |-> {29}, hour |-> {23}, min |-> {59}, sec |-> {59}]
=============================================================================
