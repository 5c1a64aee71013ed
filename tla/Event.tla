-------------------------------- MODULE Event --------------------------------
(***************************************************************************)
(* Events (anyRTOS.c:95-142 and 252-289) on top of the scheduler.  An      *)
(* event is one prior list: a thread that waits is put in the list, and a  *)
(* notification moves the first thread, or all of them, to their ready     *)
(* queues.  The interrupt variants do not yield: they tell the routine     *)
(* whether to, and it ends in task_yieldISR (timers.c, serial-port.c).     *)
(***************************************************************************)
EXTENDS Kernel

CONSTANTS
  Events,     \* the events clients wait for and notify
  Broadcasts, \* the events clients notify to all
  EventUsers  \* the <<thread, event>> pairs of the calls to event_wait

ASSUME EventAssumption ==
  /\ Events \subseteq PriorLists
  /\ Broadcasts \subseteq Events
  /\ EventUsers \subseteq (Threads \ {Background}) \X Events

Inside(label, object) == [at |-> label, on |-> object]

EventPoints == KernelPoints \cup {Inside("event_wait", e) : e \in Events}

-----------------------------------------------------------------------------
(* Internal functions *)

\* The memory of _waitInPriorList when it has given up the processor.
waitInPriorList(m, l) == jump(priorList_put(m, l, m.running))

\* _resumeFromPriorList(l), in a critical section of its own.
ResumeFromPriorList(t, l) ==
  IF k.head[l] = NULL
  THEN UNCHANGED k /\ Return(t)
  ELSE ResumeAndReturn(t, priorList_get(k, l), k.head[l])

\* The list decides with its first thread's priority if the caller yields.
resumeFullPriorList(m, l) ==
  IF m.head[l] # NULL /\ preempts(m, m.head[l])
  THEN yieldISR(threadQueueArray_putList(m, l))
  ELSE threadQueueArray_putList(m, l)

\* _resumeFullPriorList(l), in a critical section of its own.
ResumeFullPriorList(t, l) ==
  /\ k' = resumeFullPriorList(k, l)
  /\ IF k.head[l] # NULL /\ preempts(k, k.head[l])
       THEN Leave(t, At("yield")) ELSE Return(t)

\* An interrupt routine that resumes from l, and yields if it is told to.
ResumeFromPriorListISR(t, l) ==
  /\ InterruptsEnabled(t) /\ k.head[l] # NULL
  /\ k' = resume(priorList_get(k, l), k.head[l])
  /\ UNCHANGED <<critical, sr, pc>>

ResumeFullPriorListISR(t, l) ==
  /\ InterruptsEnabled(t) /\ k.head[l] # NULL
  /\ k' = resumeFullPriorList(k, l)
  /\ UNCHANGED <<critical, sr, pc>>

-----------------------------------------------------------------------------
(* Event control *)

event_wait(t, e) ==
  /\ User(t) /\ <<t, e>> \in EventUsers
  /\ k' = waitInPriorList(k, e)
  /\ Leave(t, Inside("event_wait", e))

event_wait_return(t) ==
  /\ k.running = t /\ pc[t].at = "event_wait" /\ sr[t]
  /\ Finish(t)
  /\ UNCHANGED k

event_notify(t, e)    == User(t) /\ ResumeFromPriorList(t, e)
event_notifyAll(t, e) == User(t) /\ ResumeFullPriorList(t, e)

event_notifyISR(t, e)    == ResumeFromPriorListISR(t, e)
event_notifyAllISR(t, e) == ResumeFullPriorListISR(t, e)

EventThread ==
  \/ KernelThread
  \/ \E t \in Threads :
       \/ checkIRQ(t, {"event_wait"})
       \/ event_wait_return(t)
       \/ \E e \in Events : event_wait(t, e) \/ event_notify(t, e)
       \/ \E e \in Broadcasts : event_notifyAll(t, e)

EventInterrupt ==
  \/ KernelInterrupt
  \/ \E t \in Threads :
       \/ \E e \in Events : event_notifyISR(t, e)
       \/ \E e \in Broadcasts : event_notifyAllISR(t, e)

EventNext == EventThread \/ EventInterrupt

EventSpec == KernelInit /\ [][EventNext]_kernelVars

-----------------------------------------------------------------------------
(* Properties *)

\* The waiting threads of a list, following its links.
Waiters(l) == Chain(k.nextPr, k.head[l])

\* What a notification sets in ready state is a thread blocked by the event
\* (event.h:49): whoever the list of an event leads to waits for that event.
OnlyBlockedAreListed ==
  \A e \in Events : \A t \in Waiters(e) : pc[t] = Inside("event_wait", e)

\* The lists are sorted by priority (thread-list.h:191), but for the first thread:
\* a notification finds the waiters behind it in order.
SortedBehindFirst(l) ==
  \A t \in Waiters(l) :
    t # k.head[l] /\ k.nextPr[t] # NULL => k.prior[t] <= k.prior[k.nextPr[t]]

=============================================================================
