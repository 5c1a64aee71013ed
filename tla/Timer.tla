-------------------------------- MODULE Timer --------------------------------
(***************************************************************************)
(* Timers (anyRTOS.c:175-202 and 349-419) and the wait for an event or a   *)
(* timer, whichever comes first (anyRTOS.c:482-504).  A timer is a tick    *)
(* counter and a tick list.  A thread in it waits until the counter gets   *)
(* the tick of the thread; one that also waits for an event is in the      *)
(* event's prior list at the same time, and whoever takes it out of one    *)
(* list takes it out of the other through the back pointers.               *)
(*                                                                         *)
(* The counters and ticks of the code are modulo TickMod.  The model also  *)
(* keeps the time they stand for: now[tm] counts all ticks of a timer, and *)
(* due[t] is the time whose residue is the tick of t.  Only the residues   *)
(* are given to the list operators.                                        *)
(***************************************************************************)
EXTENDS Event

CONSTANTS
  TimerUsers,  \* the threads that wait for timers
  TimerCalls,  \* the labels of the calls they make
  TickCalls,   \* the calls they make to set their tick
  TimedUsers,  \* the <<thread, event, timer>> of the calls to eventTimer_wait
  Abortable,   \* the labels of the waits that clients abort
  Delays,      \* the numbers of ticks clients ask for
  MaxDelay,    \* how far in the future a wait may end
  MaxLate,     \* how far in the past a wait may end
  MaxTicks     \* BOUND: the ticks of a timer

TimerLabels == {"timer_wait", "timer_shift", "timer_period", "timer_delay"}
TickLabels  == {"task_updateTick", "task_setTimeout", "task_increaseTimeout"}

ASSUME TimerAssumption ==
  /\ TimerUsers \subseteq Threads \ {Background}
  /\ TimerCalls \subseteq TimerLabels /\ TickCalls \subseteq TickLabels
  /\ TimedUsers \subseteq (Threads \ {Background}) \X Events \X TickLists
  /\ Delays \subseteq Nat
  /\ MaxDelay \in Nat /\ MaxLate \in Nat /\ MaxTicks \in Nat

VARIABLES
  now,  \* now[tm]: the ticks of a timer since timer_init
  due   \* due[t]: the time whose residue is the tick of thread t

timerVars == <<k, critical, sr, pc, now, due>>

Times == -MaxLate .. MaxTicks + MaxDelay

TimerPoints ==
  EventPoints
    \cup [at : TimerLabels, on : TickLists, tmp : Times]
    \cup [at : {"eventTimer_wait"}, on : Events, timer : TickLists]

TimerInit ==
  /\ KernelInit
  /\ now = [tm \in TickLists |-> 0]
  /\ due = [th \in Threads |-> 0]

-----------------------------------------------------------------------------
(* The tick of the running thread *)

setTick(m, t, time) == [m EXCEPT !.tick[t] = time % TickMod]

\* The waits clients ask for end within MaxDelay of now, or ended not more than
\* MaxLate ago.
InWindow(time, tm) == time \in now[tm] - MaxLate .. now[tm] + MaxDelay

SetDue(t, label, time) ==
  /\ User(t) /\ t \in TimerUsers /\ label \in TickCalls
  /\ k' = setTick(k, t, time)
  /\ due' = [due EXCEPT ![t] = time]
  /\ Return(t)
  /\ UNCHANGED now

task_updateTick(t, tm) == SetDue(t, "task_updateTick", now[tm])

task_setTimeout(t, tm, d) ==
  InWindow(now[tm] + d, tm) /\ SetDue(t, "task_setTimeout", now[tm] + d)

task_increaseTimeout(t, tm, d) ==
  InWindow(due[t] + d, tm) /\ SetDue(t, "task_increaseTimeout", due[t] + d)

-----------------------------------------------------------------------------
(* Waits.  The label says what happens to the tick when the thread returns. *)

\* _waitTimer, with the tick of t set to a time, until it gets the processor.
WaitTimer(t, tm, label, time) ==
  /\ User(t) /\ t \in TimerUsers /\ label \in TimerCalls
  /\ InWindow(time, tm)
  /\ k' = jump(tickList_put(setTick(k, t, time), tm, t))
  /\ due' = [due EXCEPT ![t] = time]
  /\ Leave(t, [at |-> label, on |-> tm, tmp |-> due[t]])
  /\ UNCHANGED now

timer_wait(t, tm)      == WaitTimer(t, tm, "timer_wait", due[t])
timer_shift(t, tm, d)  == WaitTimer(t, tm, "timer_shift", due[t] + d)
timer_period(t, tm, d) == WaitTimer(t, tm, "timer_period", due[t] + d)
timer_delay(t, tm, d)  == WaitTimer(t, tm, "timer_delay", now[tm] + d)

\* timer_shift and timer_delay give the thread its tick back.
restores(label) == label \in {"timer_shift", "timer_delay"}

timer_return(t) ==
  /\ k.running = t /\ pc[t].at \in TimerLabels /\ sr[t]
  /\ LET time == IF restores(pc[t].at) THEN pc[t].tmp ELSE due[t]
     IN  /\ k' = setTick(k, t, time)
         /\ due' = [due EXCEPT ![t] = time]
  /\ Finish(t)
  /\ UNCHANGED now

\* _waitPriorTickLists: in both lists, and no _checkIRQ.
eventTimer_wait(t, e, tm) ==
  /\ User(t) /\ <<t, e, tm>> \in TimedUsers
  /\ InWindow(due[t], tm)
  /\ k' = jump(tickList_put(priorList_put(k, e, t), tm, t))
  /\ Leave(t, [at |-> "eventTimer_wait", on |-> e, timer |-> tm])
  /\ UNCHANGED <<now, due>>

\* What the call is about to return: the event occurred before the timeout.
TimedResult(t) == k.prevTk[t] = REMOVED

eventTimer_return(t) ==
  /\ k.running = t /\ pc[t].at = "eventTimer_wait"
  /\ Finish(t)
  /\ UNCHANGED <<k, now, due>>

\* A client gives the timer that a thread waits for.
timer_abort(t, tm, th) ==
  /\ User(t)
  /\ threadList_has(k, tm, th) /\ pc[th].at \in Abortable
  /\ ResumeAndReturn(t, threadList_remove(k, tm, th), th)
  /\ UNCHANGED <<now, due>>

-----------------------------------------------------------------------------
(* The tick, in the interrupt routine of the timer driver *)

\* Mutant: advises to yield for the last thread it wakes only.
timer_tick_last(m, tm, tick) ==
  LET turns == 2 * Cardinality(Threads)
      after[n \in 0 .. turns] ==
        IF n = 0 THEN [mem |-> m, yield |-> FALSE]
        ELSE LET r  == after[n - 1]
                 th == tickList_due(r.mem, tm, tick)
             IN  IF th = NULL THEN r
                 ELSE [mem   |-> threadQueueArray_put(tickList_get(r.mem, tm, tick), th),
                       yield |-> preempts(r.mem, th)]
  IN  after[turns]

\* The memory and the advice to yield after n turns of the loop of timer_tick.
\* BOUND: as for threadQueueArray_putList.
timer_tick_loop(m, tm, tick) ==
  LET turns == 2 * Cardinality(Threads)
      after[n \in 0 .. turns] ==
        IF n = 0 THEN [mem |-> m, yield |-> FALSE]
        ELSE LET r  == after[n - 1]
                 th == tickList_due(r.mem, tm, tick)
             IN  IF th = NULL THEN r
                 ELSE [mem   |-> threadQueueArray_put(tickList_get(r.mem, tm, tick), th),
                       yield |-> r.yield \/ preempts(r.mem, th)]
  IN  after[turns]

timer_tick(t, tm) ==
  /\ InterruptsEnabled(t) /\ now[tm] < MaxTicks
  /\ now' = [now EXCEPT ![tm] = @ + 1]
  /\ LET r == timer_tick_loop(k, tm, now'[tm] % TickMod)
     IN  k' = IF r.yield THEN yieldISR(r.mem) ELSE r.mem
  /\ UNCHANGED <<critical, sr, pc, due>>

TimerThread ==
  \/ EventThread /\ UNCHANGED <<now, due>>
  \/ \E t \in Threads :
       \/ checkIRQ(t, TimerLabels) /\ UNCHANGED <<now, due>>
       \/ timer_return(t)
       \/ \E tm \in TickLists :
            \/ timer_wait(t, tm)
            \/ task_updateTick(t, tm)
            \/ \E d \in Delays :
                 \/ timer_shift(t, tm, d)
                 \/ timer_period(t, tm, d)
                 \/ timer_delay(t, tm, d)
                 \/ task_setTimeout(t, tm, d)
                 \/ task_increaseTimeout(t, tm, d)
            \/ \E th \in Threads : timer_abort(t, tm, th)
       \/ \E e \in Events :
            \/ \E tm \in TickLists : eventTimer_wait(t, e, tm)
            \/ pc[t].on = e /\ eventTimer_return(t)

TimerInterrupt ==
  \/ EventInterrupt /\ UNCHANGED <<now, due>>
  \/ \E t \in Threads : \E tm \in TickLists : timer_tick(t, tm)

TimerNext == TimerThread \/ TimerInterrupt

TimerSpec == TimerInit /\ [][TimerNext]_timerVars

-----------------------------------------------------------------------------
(* Properties *)

\* Types, and the ticks are the residues of the times they stand for.
TimerTypeOK ==
  /\ KernelTypes
  /\ pc \in [Threads -> TimerPoints]
  /\ now \in [TickLists -> 0 .. MaxTicks]
  /\ due \in [Threads -> Times]
  /\ \A t \in Threads : k.tick[t] = due[t] % TickMod

\* The threads of a tick list, following its links.
Sleepers(tm) == Chain(TkLinks(k), k.head[tm])

\* A tick wakes the threads whose time has come and no other (timer.h:54-57),
\* although the list is sorted by counters that wrap around: what stays in the
\* list after a tick is what is due later.
TickWakesExactlyTheDue ==
  [][\A tm \in TickLists :
       now'[tm] # now[tm] =>
         Sleepers(tm)' = {t \in Sleepers(tm) : due[t] > now'[tm]}]_timerVars

\* The lists a waiting thread is in, by its call.
WaitLists(t) ==
  IF pc[t].at = "eventTimer_wait" THEN {pc[t].on, pc[t].timer} ELSE {pc[t].on}

\* The lists that hold a thread.
ListsHolding(t) ==
  {e \in Events : t \in Waiters(e)} \cup {tm \in TickLists : t \in Sleepers(tm)}

\* No thread is lost, and none is left in one list when it was taken out of the
\* other (thread-list.h:89-126): events, ticks and aborts in any order leave
\* every thread running, ready, or in all the lists it waits in.
TimerLosesNoThread ==
  /\ QueuesWellFormed
  /\ \A e \in Events : Terminates(k.nextPr, k.head[e])
  /\ \A tm \in TickLists : Terminates(TkLinks(k), k.head[tm])
  /\ \A t \in Threads : Accounted(t, ListsHolding(t), WaitLists(t))

\* The result of a timed wait (event.h:74-80): a thread about to return that
\* the timer got its tick first does so only when the timer did.
TimeoutNotEarly ==
  \A t \in Threads :
    k.running = t /\ "timer" \in DOMAIN pc[t] /\ ~ TimedResult(t) =>
      due[t] <= now[pc[t].timer]

=============================================================================
