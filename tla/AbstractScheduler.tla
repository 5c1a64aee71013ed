-------------------------- MODULE AbstractScheduler --------------------------
(***************************************************************************)
(* What the scheduler promises, without lists and pointers: the running    *)
(* thread, and one first-in first-out queue of ready threads per priority. *)
(* A thread that is in neither is blocked; why it is, and who wakes it, is *)
(* the business of the objects above the scheduler.                        *)
(***************************************************************************)
EXTENDS Integers, Sequences, SequencesExt

CONSTANTS
  Threads,     \* the threads
  Background,  \* the thread that is always ready or running
  Lowest       \* its priority; 0 is the highest

VARIABLES
  on,     \* the scheduler has been started
  run,    \* the running thread
  ready,  \* ready[p]: the queue of priority p
  prior   \* prior[t]: the priority of t

vars == <<on, run, ready, prior>>

Priors == 0 .. Lowest

Init ==
  /\ on = FALSE
  /\ run = Background
  /\ ready = [p \in Priors |-> << >>]
  /\ prior \in [Threads -> Priors]

Queued(t) == \E p \in Priors : \E i \in DOMAIN ready[p] : ready[p][i] = t
Blocked(t) == t # run /\ ~ Queued(t)

Put(q, t) == [p \in Priors |-> IF p = prior[t] THEN Append(q[p], t) ELSE q[p]]

\* The queues after the threads of s became ready, one after the other.
PutAll(q, s) == FoldLeft(Put, q, s)

\* The head of the highest priority queue that is not empty runs.
Dispatch(q) ==
  \E p \in Priors :
    /\ q[p] # << >> /\ \A h \in 0 .. p - 1 : q[h] = << >>
    /\ run' = Head(q[p])
    /\ ready' = [h \in Priors |-> IF h = p THEN Tail(q[p]) ELSE q[h]]

Add(t) ==
  /\ ~ on /\ Blocked(t)
  /\ \E p \in 0 .. Lowest - 1 :
       /\ prior' = [prior EXCEPT ![t] = p]
       /\ ready' = [ready EXCEPT ![p] = Append(@, t)]
  /\ UNCHANGED <<on, run>>

Start == ~ on /\ on' = TRUE /\ Dispatch(Put(ready, run)) /\ UNCHANGED prior

\* The running thread goes to the end of its queue.
Yield == on /\ Dispatch(Put(ready, run)) /\ UNCHANGED <<on, prior>>

Block == on /\ run # Background /\ Dispatch(ready) /\ UNCHANGED <<on, prior>>

\* The distinct threads of s become ready in this order, and the running thread
\* yields exactly when one of them has a higher priority.
Wake(s) ==
  /\ on
  /\ IF \E i \in DOMAIN s : prior[s[i]] < prior[run]
     THEN Dispatch(Put(PutAll(ready, s), run))
     ELSE ready' = PutAll(ready, s) /\ UNCHANGED run
  /\ UNCHANGED <<on, prior>>

SetPriority(p) ==
  /\ on /\ prior' = [prior EXCEPT ![run] = p]
  /\ UNCHANGED <<on, run, ready>>

Next ==
  \/ Start \/ Yield \/ Block
  \/ \E t \in Threads : Add(t)
  \/ \E S \in SUBSET {t \in Threads : Blocked(t)} : \E s \in SetToSeqs(S) : Wake(s)
  \/ \E p \in 0 .. Lowest - 1 : SetPriority(p)

Spec == Init /\ [][Next]_vars

=============================================================================
