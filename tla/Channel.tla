------------------------------- MODULE Channel -------------------------------
(***************************************************************************)
(* What the byte queues promise: bounded first-in first-out channels of    *)
(* bytes whose messages are whole.  A message is the bytes of one call,    *)
(* numbered from 1; while a call is in the middle of its message no other  *)
(* thread puts a byte, and the same holds for the calls that get.          *)
(***************************************************************************)
EXTENDS Naturals, Sequences

CONSTANTS Channels, Threads, Capacity, Nobody

VARIABLES
  chan,    \* the bytes in every channel
  writer,  \* the thread in the middle of a message and its bytes so far
  reader   \* the thread in the middle of getting

vars == <<chan, writer, reader>>

Init ==
  /\ chan = [q \in Channels |-> << >>]
  /\ writer = [q \in Channels |-> [by |-> Nobody, i |-> 0]]
  /\ reader = [q \in Channels |-> Nobody]

Put(q, t) ==
  /\ writer[q].by \in {t, Nobody} /\ Len(chan[q]) < Capacity[q]
  /\ \E nul \in BOOLEAN :
       chan' = [chan EXCEPT ![q] = Append(@, [by |-> t, i |-> writer[q].i + 1, nul |-> nul])]
  /\ \/ writer' = [writer EXCEPT ![q] = [by |-> t, i |-> @.i + 1]]
     \/ writer' = [writer EXCEPT ![q] = [by |-> Nobody, i |-> 0]]
  /\ UNCHANGED reader

Get(q, t) ==
  /\ reader[q] \in {t, Nobody} /\ chan[q] # << >>
  /\ chan' = [chan EXCEPT ![q] = Tail(@)]
  /\ \E r \in {t, Nobody} : reader' = [reader EXCEPT ![q] = r]
  /\ UNCHANGED writer

Next == \E q \in Channels, t \in Threads : Put(q, t) \/ Get(q, t)

Spec == Init /\ [][Next]_vars

=============================================================================
