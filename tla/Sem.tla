--------------------------------- MODULE Sem ---------------------------------
(***************************************************************************)
(* Semaphores (anyRTOS.c:436-473, 538-554).  A semaphore is a state, red   *)
(* or green, and a prior list.                                             *)
(*                                                                         *)
(* sem_signalISR ends in _exitCritical, which enables interrupts inside of *)
(* the interrupt routine when the thread it interrupted is in no critical  *)
(* section.  From there to the end of the routine other interrupts are     *)
(* served, and they may switch context: frame[t] is what the routine that  *)
(* interrupted t still has to do when t runs again.                        *)
(***************************************************************************)
EXTENDS Timer

CONSTANTS
  Sems,      \* the semaphores
  SemUsers,  \* the <<thread, semaphore>> of the calls to sem_wait
  TimedSems  \* the <<thread, semaphore, timer>> of the calls to semTimer_wait

ASSUME SemAssumption ==
  /\ Sems \subseteq PriorLists \ Events
  /\ SemUsers \subseteq (Threads \ {Background}) \X Sems
  /\ TimedSems \subseteq (Threads \ {Background}) \X Sems \X TickLists

VARIABLES
  state,  \* state[s]: "RED" or "GREEN"
  frame   \* frame[t]: "none", or how the routine that interrupted t ends

semVars == <<k, critical, sr, pc, now, due, state, frame>>

SemPoints ==
  TimerPoints
    \cup [at : {"sem_wait"}, on : Sems]
    \cup [at : {"semTimer_wait"}, on : Sems, timer : TickLists]

SemInit ==
  /\ TimerInit
  /\ state = [s \in Sems |-> "GREEN"]
  /\ frame = [t \in Threads |-> "none"]

-----------------------------------------------------------------------------

turn(s, colour) == state' = [state EXCEPT ![s] = colour]

\* The semaphore is free when t calls: with or without a timeout.
sem_wait_green(t, s) ==
  /\ User(t)
  /\ <<t, s>> \in SemUsers \/ \E tm \in TickLists : <<t, s, tm>> \in TimedSems
  /\ state[s] = "GREEN" /\ turn(s, "RED")
  /\ UNCHANGED k /\ Return(t)

sem_wait_red(t, s) ==
  /\ User(t) /\ <<t, s>> \in SemUsers
  /\ state[s] = "RED" /\ UNCHANGED state
  /\ k' = waitInPriorList(k, s)
  /\ Leave(t, Inside("sem_wait", s))

\* The code tests the state once, before it waits.
sem_wait_return(t) ==
  /\ k.running = t /\ pc[t].at = "sem_wait" /\ sr[t]
  /\ turn(pc[t].on, "RED")
  /\ UNCHANGED k /\ Finish(t)

\* Mutant: turns the semaphore green and wakes nobody.
sem_signal_silent(t, s) ==
  /\ User(t)
  /\ turn(s, "GREEN")
  /\ UNCHANGED k /\ Return(t)

sem_signal(t, s) ==
  /\ User(t)
  /\ turn(s, "GREEN")
  /\ ResumeFromPriorList(t, s)

semTimer_wait_red(t, s, tm) ==
  /\ User(t) /\ <<t, s, tm>> \in TimedSems /\ InWindow(due[t], tm)
  /\ state[s] = "RED" /\ UNCHANGED state
  /\ k' = jump(tickList_put(priorList_put(k, s, t), tm, t))
  /\ Leave(t, [at |-> "semTimer_wait", on |-> s, timer |-> tm])

semTimer_return(t) ==
  /\ k.running = t /\ pc[t].at = "semTimer_wait"
  /\ IF TimedResult(t) THEN turn(pc[t].on, "RED") ELSE UNCHANGED state
  /\ UNCHANGED k /\ Finish(t)

-----------------------------------------------------------------------------
(* The interrupt routine that signals, and yields if it is told to. *)

\* Whether _exitCritical enables interrupts in the routine that interrupts t.
opens(t) == critical[t] = 0

\* BOUND: a routine that signals is not itself interrupted by another one.
sem_signalISR(t, s) ==
  /\ InterruptsEnabled(t) /\ frame[t] = "none"
  /\ turn(s, "GREEN")
  /\ LET th    == k.head[s]
         woken == IF th = NULL THEN k
                  ELSE threadQueueArray_put(priorList_get(k, s), th)
         yield == th # NULL /\ preempts(k, th)
     IN  IF opens(t)
         THEN /\ k' = woken
              /\ frame' = [frame EXCEPT ![t] = IF yield THEN "yield" ELSE "end"]
         ELSE /\ k' = IF yield THEN yieldISR(woken) ELSE woken
              /\ UNCHANGED frame
  /\ UNCHANGED <<critical, sr, pc>>

\* Mutant: drops the advice to yield.
isr_end_staying(t) ==
  /\ k.running = t /\ frame[t] # "none"
  /\ frame' = [frame EXCEPT ![t] = "none"]
  /\ UNCHANGED <<k, critical, sr, pc, state>>

\* What the routine does after the interrupts that came in between.
isr_end(t) ==
  /\ k.running = t /\ frame[t] # "none"
  /\ k' = IF frame[t] = "yield" THEN yieldISR(k) ELSE k
  /\ frame' = [frame EXCEPT ![t] = "none"]
  /\ UNCHANGED <<critical, sr, pc, state>>

SemThread ==
  \/ TimerThread /\ UNCHANGED <<state, frame>>
  \/ /\ UNCHANGED <<now, due, frame>>
     /\ \E t \in Threads :
          \/ checkIRQ(t, {"sem_wait"}) /\ UNCHANGED state
          \/ sem_wait_return(t)
          \/ semTimer_return(t)
          \/ \E s \in Sems :
               \/ sem_wait_green(t, s)
               \/ sem_wait_red(t, s)
               \/ sem_signal(t, s)
               \/ \E tm \in TickLists : semTimer_wait_red(t, s, tm)

SemInterrupt ==
  \/ TimerInterrupt /\ UNCHANGED <<state, frame>>
  \/ /\ UNCHANGED <<now, due>>
     /\ \E t \in Threads :
          \/ isr_end(t)
          \/ \E s \in Sems : sem_signalISR(t, s)

\* The code of a thread does not run on under an interrupt routine.
SemNext ==
  \/ \E t \in Threads : k.running = t /\ frame[t] = "none" /\ SemThread
  \/ SemInterrupt

SemSpec == SemInit /\ [][SemNext]_semVars

-----------------------------------------------------------------------------
(* Properties *)

\* Types of the kernel's memory and of the semaphores.
SemTypeOK ==
  /\ KernelTypes
  /\ pc \in [Threads -> SemPoints]
  /\ state \in [Sems -> {"RED", "GREEN"}]
  /\ frame \in [Threads -> {"none", "end", "yield"}]

SemWaitLists(t) ==
  IF pc[t].at = "semTimer_wait" THEN {pc[t].on, pc[t].timer} ELSE WaitLists(t)

\* No thread is lost by waiting for semaphores and being signalled, by threads
\* and by interrupt routines that are interrupted before they yield.
SemLosesNoThread ==
  /\ QueuesWellFormed
  /\ \A t \in Threads :
       Accounted(t, {s \in Sems : t \in Waiters(s)} \cup ListsHolding(t),
                 SemWaitLists(t))

\* sem_wait waits until the semaphore is not busy (sem.h:49): a thread that was
\* woken and is about to pass finds it green.
WokenFindsGreen ==
  \A t \in Threads :
    k.running = t /\ frame[t] = "none" /\ sr[t] /\ pc[t].at = "sem_wait" =>
      state[pc[t].on] = "GREEN"

\* No signal is lost (anyRTOS.c:458-471): when threads wait at a green semaphore,
\* the signal has woken one that has not passed yet.
NoLostSignal ==
  \A s \in Sems :
    state[s] = "GREEN" /\ Waiters(s) # {} =>
      \E t \in Threads \ Waiters(s) :
        pc[t].at \in {"sem_wait", "semTimer_wait"} /\ pc[t].on = s

\* The waiting lists stay sorted by priority behind their first thread, in any
\* order of waits, signals and time-outs (thread-list.h:191).
ListsSorted == \A l \in PriorLists : SortedBehindFirst(l)

\* Preemptive priority scheduling survives interrupts that interrupt each
\* other: a ready thread has a higher priority than the running one only while
\* the routine that woke it has not ended.
PreemptiveAfterInterrupts ==
  pc[Background].at # "boot" /\ frame[k.running] = "none" =>
    \A p \in ReadyPriors(k) : k.prior[k.running] <= p

=============================================================================
