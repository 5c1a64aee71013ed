--------------------------- MODULE QueueRefinement ---------------------------
(***************************************************************************)
(* The queues, with their rings, mutexes and events, implement channels.   *)
(***************************************************************************)
EXTENDS Queue, Sequences

\* The bytes in a queue, in order.
Contents(q) == [n \in 1 .. ring[q].qty |-> nth(q, ring[q], n)]

\* The thread that is in the middle of a call of one side.
MidwayIn(q, puts) ==
  IF \E t \in Threads : Midway(t, q, puts)
  THEN CHOOSE t \in Threads : Midway(t, q, puts)
  ELSE NULL

Writer(q) ==
  LET t == MidwayIn(q, TRUE) IN [by |-> t, i |-> IF t = NULL THEN 0 ELSE job[t].done]

Promise == INSTANCE Channel WITH
  Channels <- Queues,
  Capacity <- Size,
  Nobody   <- NULL,
  chan     <- [q \in Queues |-> Contents(q)],
  writer   <- [q \in Queues |-> Writer(q)],
  reader   <- [q \in Queues |-> MidwayIn(q, FALSE)]

\* The queues deliver every byte once and in order, and keep the bytes of a call
\* together, although their calls wait in the middle (queue.h:69-180).
ImplementsChannel == Promise!Spec

=============================================================================
