-------------------------------- MODULE MCRtcc --------------------------------
(* Instances of Rtcc for TLC. *)
EXTENDS Rtcc, TLC

CONSTANTS bg, a, b, ev, mx, ln, rm, tm, run

\* As in main.c: the clock before the prompt.
PriorTwo == a :> 0 @@ b :> 1

Waits == {<<a, ev>>, <<a, rm>>, <<b, ln>>, <<b, rm>>}

At_(year, month, day, hour, minute, second) ==
  dateTime_setYear([century |-> 0, year |-> 0, month |-> month, day |-> day,
                    hour |-> hour, minute |-> minute, second |-> second], year)

\* The ends of February, of the year and of the seasons, and a day that is none.
Ends == {At_(2016, 2, 28, 23, 59, 59), At_(2016, 12, 30, 23, 59, 59), At_(2017, 1, 1, 0, 0, 0),
         At_(2016, 3, 26, 23, 59, 59), At_(2016, 10, 30, 23, 59, 59), At_(2016, 2, 30, 12, 0, 0)}
=============================================================================
