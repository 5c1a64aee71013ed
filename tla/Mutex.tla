-------------------------------- MODULE Mutex --------------------------------
(***************************************************************************)
(* Mutual exclusion (anyRTOS.c:297-341) with its timed entries             *)
(* (anyRTOS.c:508-536).  A mutex is its owner and a prior list.  The owner *)
(* that leaves wakes every waiter, and each of them tries again when it    *)
(* gets the processor; a timed entry tries again once.                     *)
(*                                                                         *)
(* busy is the owner in the code.  inside is what the clients know: the    *)
(* mutexes a thread was let into by a call and has not left.               *)
(***************************************************************************)
EXTENDS Timer

CONSTANTS
  Mutexes,     \* the mutexes
  MutexCalls,  \* the labels of the calls that enter them
  TimedMutex   \* the <<thread, mutex, timer>> of the timed entries

EnterLabels == {"mutex_enter", "mutex_enterCritical"}
TimedLabels == {"mutexTimer_enter", "mutexTimer_enterCritical"}

ASSUME MutexAssumption ==
  /\ Mutexes \subseteq PriorLists \ Events
  /\ MutexCalls \subseteq EnterLabels \cup TimedLabels
  /\ TimedMutex \subseteq (Threads \ {Background}) \X Mutexes \X TickLists

VARIABLES
  busy,   \* busy[m]: the owner of a mutex, or NULL
  inside  \* inside[t]: the mutexes t has entered

mutexVars == <<k, critical, sr, pc, now, due, busy, inside>>

MutexPoints ==
  TimerPoints
    \cup [at : EnterLabels, on : Mutexes]
    \cup [at : TimedLabels, on : Mutexes, timer : TickLists]

MutexInit ==
  /\ TimerInit
  /\ busy = [m \in Mutexes |-> NULL]
  /\ inside = [t \in Threads |-> {}]

\* The calls that leave the client in a critical section.
staysCritical(label) == label \in {"mutex_enterCritical", "mutexTimer_enterCritical"}

-----------------------------------------------------------------------------

\* A client enters a mutex it is not in, unless it is the background thread.
MayEnter(t, m, label) ==
  /\ User(t) /\ t # Background /\ m \notin inside[t]
  /\ label \in MutexCalls
  /\ staysCritical(label) => critical[t] < MaxNest

Take(t, m) ==
  /\ busy' = [busy EXCEPT ![m] = t]
  /\ inside' = [inside EXCEPT ![t] = @ \cup {m}]
  /\ UNCHANGED k

\* The mutex is free when the call is made.
mutex_enter_free(t, m, label) ==
  /\ MayEnter(t, m, label)
  /\ label \in TimedLabels => \E tm \in TickLists : <<t, m, tm>> \in TimedMutex
  /\ busy[m] = NULL
  /\ Take(t, m)
  /\ IF staysCritical(label) THEN Leave(t, At("user")) ELSE Return(t)

mutex_enter_wait(t, m, label) ==
  /\ MayEnter(t, m, label) /\ label \in EnterLabels
  /\ busy[m] # NULL
  /\ k' = waitInPriorList(k, m)
  /\ Leave(t, Inside(label, m))
  /\ UNCHANGED <<busy, inside>>

\* Mutant: without the dint of _checkIRQ.
Entered_enabled(t) ==
  IF staysCritical(pc[t].at)
  THEN /\ pc' = [pc EXCEPT ![t] = At("user")]
       /\ UNCHANGED <<critical, sr>>
  ELSE Finish(t)

\* The end of a call that waited: critical was incremented when it began.
Entered(t) ==
  IF staysCritical(pc[t].at)
  THEN /\ pc' = [pc EXCEPT ![t] = At("user")]
       /\ sr' = [sr EXCEPT ![t] = FALSE]
       /\ UNCHANGED critical
  ELSE Finish(t)

\* The test of the loop of _enterMutex, after the dint of _checkIRQ.
mutex_enter_retry(t) ==
  /\ k.running = t /\ pc[t].at \in EnterLabels /\ sr[t]
  /\ LET m == pc[t].on
     IN  \/ busy[m] = NULL /\ Take(t, m) /\ Entered(t)
         \/ /\ busy[m] # NULL
            /\ k' = waitInPriorList(k, m)
            /\ sr' = [sr EXCEPT ![t] = FALSE]
            /\ UNCHANGED <<critical, pc, busy, inside>>

mutexTimer_enter_wait(t, m, tm, label) ==
  /\ MayEnter(t, m, label) /\ label \in TimedLabels
  /\ <<t, m, tm>> \in TimedMutex /\ InWindow(due[t], tm)
  /\ busy[m] # NULL
  /\ k' = jump(tickList_put(priorList_put(k, m, t), tm, t))
  /\ Leave(t, [at |-> label, on |-> m, timer |-> tm])
  /\ UNCHANGED <<busy, inside>>

\* Mutant: takes the mutex when it was woken, without looking at it.
TimedEntry_woken(t) == TimedResult(t)

\* Whether the timed entry of t is about to return true.
TimedEntry(t) == TimedResult(t) /\ busy[pc[t].on] = NULL

mutexTimer_return(t) ==
  /\ k.running = t /\ pc[t].at \in TimedLabels
  /\ \/ TimedEntry(t) /\ Take(t, pc[t].on) /\ Entered(t)
     \/ ~ TimedEntry(t) /\ Finish(t) /\ UNCHANGED <<k, busy, inside>>

Release(t, m) ==
  /\ User(t)
  /\ busy' = [busy EXCEPT ![m] = NULL]
  /\ inside' = [inside EXCEPT ![t] = @ \ {m}]

\* Mutant: wakes only the first waiter.
mutex_exit_first(t, m) == Release(t, m) /\ ResumeFromPriorList(t, m)

mutex_exit(t, m) == Release(t, m) /\ ResumeFullPriorList(t, m)

\* The critical section that this call leaves is the client's own.
mutex_exitCritical(t, m) ==
  /\ Release(t, m) /\ critical[t] > 0
  /\ k' = resumeFullPriorList(k, m)
  /\ IF k.head[m] # NULL /\ preempts(k, k.head[m])
     THEN pc' = [pc EXCEPT ![t] = At("yield")] /\ UNCHANGED <<critical, sr>>
     ELSE Finish(t)

MutexThread ==
  \/ TimerThread /\ UNCHANGED <<busy, inside>>
  \/ /\ UNCHANGED <<now, due>>
     /\ \E t \in Threads :
          \/ checkIRQ(t, EnterLabels) /\ UNCHANGED <<busy, inside>>
          \/ mutex_enter_retry(t)
          \/ mutexTimer_return(t)
          \/ \E m \in Mutexes :
               \/ m \in inside[t] /\ (mutex_exit(t, m) \/ mutex_exitCritical(t, m))
               \/ \E label \in MutexCalls :
                    \/ mutex_enter_free(t, m, label)
                    \/ mutex_enter_wait(t, m, label)
                    \/ \E tm \in TickLists : mutexTimer_enter_wait(t, m, tm, label)

MutexNext ==
  \/ MutexThread
  \/ TimerInterrupt /\ UNCHANGED <<busy, inside>>

MutexSpec == MutexInit /\ [][MutexNext]_mutexVars

-----------------------------------------------------------------------------
(* Properties *)

\* Types of the kernel's memory and of the mutexes.
MutexTypeOK ==
  /\ KernelTypes
  /\ pc \in [Threads -> MutexPoints]
  /\ busy \in [Mutexes -> Threads \cup {NULL}]
  /\ inside \in [Threads -> SUBSET Mutexes]

\* Mutual exclusion (mutex.h:48-62): whichever way they came in, and whatever
\* woke them, no two threads are inside a mutex; its owner is the one that is.
MutualExclusion ==
  \A m \in Mutexes : {t \in Threads : m \in inside[t]} = {busy[m]} \ {NULL}

\* Nobody is left waiting for a free mutex (anyRTOS.c:306-309): a waiter that
\* lost the race for it is back in the list only if the mutex is taken.
NoStrandedWaiter == \A m \in Mutexes : busy[m] = NULL => Waiters(m) = {}

MutexWaitLists(t) ==
  IF pc[t].at \in TimedLabels THEN {pc[t].on, pc[t].timer} ELSE WaitLists(t)

\* No thread is lost by entering, waiting, trying again and leaving.
MutexLosesNoThread ==
  /\ QueuesWellFormed
  /\ \A t \in Threads :
       Accounted(t, {m \in Mutexes : t \in Waiters(m)} \cup ListsHolding(t),
                 MutexWaitLists(t))

=============================================================================
