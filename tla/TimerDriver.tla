----------------------------- MODULE TimerDriver -----------------------------
(***************************************************************************)
(* The timer driver, timers.c: a hardware timer runs while threads need    *)
(* it.  A thread that needs it turns it on, which sets its tick too, and   *)
(* off when it is done; the driver counts them in one byte.                *)
(***************************************************************************)
EXTENDS Client

CONSTANT QtyMod  \* _timer0_Qty and _timer1_Qty are counters modulo this (256)

ASSUME TimerDriverAssumption == QtyMod \in Nat \ {0}

VARIABLES
  qty,     \* qty[tm]: the number of threads that need a timer
  running  \* running[tm]: MC_1, the timer counts and interrupts

driverVars == <<mutexVars, qty, running>>

\* timer_allInit
DriverInit ==
  /\ MutexInit
  /\ qty = [tm \in TickLists |-> 0]
  /\ running = [tm \in TickLists |-> FALSE]

timer_on(t, tm) ==
  /\ task_updateTick(t, tm)
  /\ qty' = [qty EXCEPT ![tm] = (@ + 1) % QtyMod]
  /\ running' = [running EXCEPT ![tm] = @ \/ qty[tm] = 0]
  /\ UNCHANGED timeOnly

\* Mutant: stops the timer when one thread is left.
timer_off_last(t, tm) ==
  /\ User(t) /\ Return(t)
  /\ qty' = [qty EXCEPT ![tm] = (@ - 1) % QtyMod]
  /\ running' = [running EXCEPT ![tm] = @ /\ qty[tm] > 2]
  /\ UNCHANGED <<k, aboveKernel>>

timer_off(t, tm) ==
  /\ User(t) /\ Return(t)
  /\ qty' = [qty EXCEPT ![tm] = (@ - 1) % QtyMod]
  /\ running' = [running EXCEPT ![tm] = @ /\ qty[tm] # 1]
  /\ UNCHANGED <<k, aboveKernel>>

\* The interrupt routine of the timer, when t runs.
timer_isr(t, tm) ==
  /\ running[tm] /\ timer_tick(t, tm)
  /\ UNCHANGED <<timeOnly, qty, running>>

\* A thread that waits for a timer does not wait for one that stands still
\* (timers.c:150-162): whoever turned it off meanwhile was not the last.
SleeperTimed == \A tm \in TickLists : Sleepers(tm) # {} => running[tm]

=============================================================================
