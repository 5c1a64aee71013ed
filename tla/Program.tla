-------------------------------- MODULE Program --------------------------------
(***************************************************************************)
(* The threads of an application.  task[t] is a record: task[t].at is the    *)
(* next statement of t, the other fields are locals.  Statements between   *)
(* two kernel calls are one step.                                          *)
(***************************************************************************)
EXTENDS TimerDriver

VARIABLE task  \* task[t]: the next statement of t, and its locals

programVars == <<driverVars, task>>

\* What the kernel calls of a statement leave alone.
driverOnly == <<aboveKernel, qty, running>>

At0(at) == [at |-> at]

\* t runs its own code, and its next statement is this one.
Stmt(t, at) == User(t) /\ task[t].at = at

Goto(t, at) == task' = [task EXCEPT ![t].at = at]

\* Calls on the way from a statement to another.
Enter(t, from, to) ==
  Stmt(t, from) /\ task_enterCritical(t) /\ Goto(t, to) /\ UNCHANGED driverOnly

Exit(t, from, to) ==
  Stmt(t, from) /\ task_exitCritical(t) /\ Goto(t, to) /\ UNCHANGED driverOnly

WaitEvent(t, e, from, to) ==
  Stmt(t, from) /\ event_wait(t, e) /\ Goto(t, to) /\ UNCHANGED driverOnly

TimerOn(t, tm, from, to)  == Stmt(t, from) /\ timer_on(t, tm) /\ Goto(t, to)
TimerOff(t, tm, from, to) == Stmt(t, from) /\ timer_off(t, tm) /\ Goto(t, to)

\* One of the waits for a timer.
Sleep(t, wait, from, to) ==
  Stmt(t, from) /\ wait /\ Goto(t, to) /\ UNCHANGED <<timeOnly, qty, running>>

EnterMutex(t, m, from, to) ==
  /\ Stmt(t, from) /\ Goto(t, to)
  /\ mutex_enter_free(t, m, "mutex_enter") \/ mutex_enter_wait(t, m, "mutex_enter")
  /\ UNCHANGED <<mutexOnly, qty, running>>

\* A statement without a kernel call.
Local(t, from, to) ==
  Stmt(t, from) /\ Goto(t, to) /\ UNCHANGED <<kernelVars, driverOnly>>

\* What is read is there, or is waited for.
Reads(t, e, from, to) == Local(t, from, to) \/ WaitEvent(t, e, from, to)

\* The interrupt of a timer, when t runs.  A tick lasts longer than the return of
\* a thread that the tick before woke.
Tick(t, tm) == timer_isr(t, tm) /\ pc[t].at \notin TimerLabels /\ UNCHANGED task

\* An interrupt that notifies an event.
Interrupt(t, e) == event_notifyISR(t, e) /\ UNCHANGED <<driverOnly, task>>

\* The kernel: the start, and the second half of the calls of t.
KernelSteps(labels) ==
  /\ \/ boot
     \/ \E t \in Threads :
          Returns(t) \/ (checkIRQ(t, labels) /\ UNCHANGED aboveKernel)
  /\ UNCHANGED <<qty, running, task>>
=============================================================================
