--------------------------------- MODULE Demo ---------------------------------
(***************************************************************************)
(* The demo program of the kernel, main.c: a LED blinks, a clock counts    *)
(* seconds, a terminal obeys commands, and a thread sends messages to one  *)
(* of them through a queue.  All are in a critical section that they leave *)
(* only to wait.  The LED, the clock and the time-outs of the terminal     *)
(* share timer 0; the test of the timer uses timer 1.                      *)
(*                                                                         *)
(* The serial port, which Serial models, is two events here: Room, it has  *)
(* room for what is printed, and Line, a line or a key that is waited for  *)
(* has been typed.  Whatever is printed may wait any number of times.      *)
(***************************************************************************)
EXTENDS Queue, Program, DemoCalendar

CONSTANTS
  Led, Clock, Term, Sender,           \* the threads of _schInfo
  timer0, timer1,                     \* the timers of the driver
  _event, _queue,                     \* what Term and Sender share
  _switch, _endOfConversion, _busy,   \* the objects of the board and the ADC
  Line, Room,                         \* external: the serial port
  Tenth, Fifth, Second, FiveSeconds,  \* 0.1, 0.2, 1 and 5 s in ticks of timer 0
  TestTicks,                          \* 0.1 s in ticks of timer 1
  Letters, PtrSize, StrSize,          \* the bytes of the messages (26, 2, 8)
  Rounds, Lines,                      \* the repetitions of the tests (5, 9)
  Typed,                              \* Typed[f]: the numbers typed for a field
  Seconds                             \* the test times that are typed

VARIABLES
  _clock,      \* the dateTime and the flag go
  converting   \* ADC10SC: a conversion is under way

demoOnly == <<ring, job, _clock, converting>>
demoVars == <<programVars, demoOnly>>

DemoInit ==
  /\ DriverInit
  /\ ring = [q \in Queues |-> queue_init(q)]
  /\ job = [t \in Threads |-> Idle]
  /\ _clock = [dateTime |-> [f \in DOMAIN dateTime_init |-> 0], go |-> FALSE]
  /\ converting = FALSE
  /\ task = [t \in Threads |->
               IF t = Sender THEN [at |-> "enter", a |-> 1, cnt |-> 0] ELSE At0("enter")]

-----------------------------------------------------------------------------
(* main and the background *)

_schInfo == <<Led, Clock, Term, Sender>>

main ==
  /\ \/ \E i \in DOMAIN _schInfo :
          scheduler_add(_schInfo[i]) /\ \A j \in 1 .. i - 1 : pc[_schInfo[j]].at # "new"
     \/ (\A th \in Threads : pc[th].at # "new") /\ scheduler_run
     \/ scheduler_run_return
  /\ UNCHANGED <<driverOnly, task, demoOnly>>

background ==
  /\ Enter(Background, "enter", "toggle") \/ Exit(Background, "toggle", "enter")
  /\ UNCHANGED demoOnly

-----------------------------------------------------------------------------
(* The LED and the clock *)

_led_task(t) ==
  /\ \/ Enter(t, "enter", "on")
     \/ TimerOn(t, timer0, "on", "shine")
     \/ Sleep(t, timer_shift(t, timer0, Tenth), "shine", "dark")
     \/ Sleep(t, timer_period(t, timer0, Second), "dark", "shine")
  /\ UNCHANGED demoOnly

clockOnly == <<ring, job, converting>>

_clock_task(t) ==
  /\ \/ Enter(t, "enter", "on") /\ UNCHANGED _clock
     \/ /\ TimerOn(t, timer0, "on", "period")
        /\ _clock' = [dateTime |-> dateTime_init, go |-> FALSE]
     \/ Sleep(t, timer_period(t, timer0, Second), "period", "second") /\ UNCHANGED _clock
     \/ /\ Local(t, "second", "period")
        /\ _clock' = IF _clock.go THEN [_clock EXCEPT !.dateTime = dateTime_incSec(@)]
                     ELSE _clock
  /\ UNCHANGED clockOnly

-----------------------------------------------------------------------------
(* Calls of the queue *)

\* A statement that calls the queue, and what task becomes.
QueueCall(t, c, from, to) ==
  /\ Stmt(t, from) /\ queue_enter(t, c) /\ task' = [task EXCEPT ![t] = to]
  /\ UNCHANGED <<qty, running, _clock, converting>>

\* The steps of a thread inside a call of the kernel or of the queue.  A byte
\* that is got is what the call returns.
calls(t) ==
  /\ \/ InCall(t)
     \/ checkIRQ(t, {"isr"}) /\ UNCHANGED <<aboveKernel, ring, job>>
  /\ task' = IF Doing(t, "moving") /\ ~ job[t].call.puts /\ ~ stuck(job[t].call)
             THEN [task EXCEPT ![t].got = front(job[t].call.q)] ELSE task
  /\ UNCHANGED <<qty, running, _clock, converting>>

\* The thread that sends: the letters one by one, then, but for one of four
\* times, a pointer and a string.
_queue_task(t) ==
  LET j == task[t] IN
  \/ Enter(t, "enter", "wait") /\ UNCHANGED demoOnly
  \/ WaitEvent(t, _event, "wait", "letter") /\ UNCHANGED demoOnly
  \/ QueueCall(t, [queue_put8(_queue) EXCEPT !.from = j.a - 1], "letter",
               IF j.a < Letters THEN [j EXCEPT !.a = @ + 1] ELSE [j EXCEPT !.a = 1, !.at = "count"])
  \/ /\ Stmt(t, "count")
     /\ LET cnt == (j.cnt + 1) % 4
        IN  task' = [task EXCEPT ![t] =
              [j EXCEPT !.cnt = cnt, !.at = IF cnt = 0 THEN "wait" ELSE "pointer"]]
     /\ UNCHANGED <<kernelVars, driverOnly, demoOnly>>
  \/ QueueCall(t, [queue_put(_queue, PtrSize) EXCEPT !.from = Letters],
               "pointer", [j EXCEPT !.at = "string"])
  \/ QueueCall(t, [queue_putStr(_queue, StrSize) EXCEPT !.from = Letters + PtrSize],
               "string", [j EXCEPT !.at = "wait"])

-----------------------------------------------------------------------------
(* The terminal: what its commands have in common *)

\* Whatever is printed, on the way to a statement.
Prints(t, from, to) == Local(t, from, to) \/ WaitEvent(t, Room, from, from)

\* serialTimer_get: a key is there, or is waited for until the tick of t.
ReadsInTime(t, from, yes, no) ==
  \/ Local(t, from, yes)
  \/ /\ Stmt(t, from) /\ eventTimer_wait(t, Line, timer0)
     /\ UNCHANGED <<timeOnly, qty, running, task>>
  \/ /\ task[t].at = from /\ eventTimer_return(t)
     /\ Goto(t, IF TimedResult(t) THEN yes ELSE no)
     /\ UNCHANGED <<timeOnly, qty, running>>

\* timer_on and task_increaseTimeout.
TimeoutIn(t, from, mid, to) ==
  \/ TimerOn(t, timer0, from, mid)
  \/ /\ Stmt(t, mid) /\ task_increaseTimeout(t, timer0, FiveSeconds) /\ Goto(t, to)
     /\ UNCHANGED <<timeOnly, qty, running>>

-----------------------------------------------------------------------------
(* The commands *)

_commands == {"text", "time", "set time", "queue", "timer", "temp", "switch"}

\* help, clear, hello, an empty line and an unknown one print, if anything.
text(t) == Prints(t, "text", "prompt") /\ UNCHANGED demoOnly

_time_command(t) == Prints(t, "time", "prompt") /\ UNCHANGED demoOnly

Asked == <<"year", "month", "day", "hour", "min", "sec">>

\* The field a number goes to, an unsigned byte but for the year.
enters(dt, f, number) ==
  CASE f = "year"  -> dateTime_setYear(dt, number)
    [] f = "month" -> [dt EXCEPT !.month = (number - 1) % 256]
    [] OTHER       -> [dt EXCEPT ![f] = number]

\* A number that is out of range is asked for again.
accepts(dt, f) ==
  CASE f = "year"  -> TRUE
    [] f = "month" -> dt.month <= december
    [] f = "day"   -> dateTime_check(dt)
    [] f = "hour"  -> dt.hour <= 23
    [] OTHER       -> dt[f] <= 59

_setTime_command(t) ==
  /\ \/ /\ Stmt(t, "set time") /\ _clock' = [_clock EXCEPT !.go = FALSE]
        /\ task' = [task EXCEPT ![t] = [at |-> "asking", n |-> 1]]
        /\ UNCHANGED <<kernelVars, driverOnly>>
     \/ Prints(t, "asking", "typing") /\ UNCHANGED _clock
     \/ Reads(t, Line, "typing", "typed") /\ UNCHANGED _clock
     \/ LET f == Asked[task[t].n] IN
        /\ Stmt(t, "typed") /\ UNCHANGED <<kernelVars, driverOnly>>
        /\ \E number \in Typed[f] :
             LET dt == enters(_clock.dateTime, f, number)
                 ok == accepts(dt, f)
             IN  /\ _clock' = [dateTime |-> dt, go |-> ok /\ f = "sec"]
                 /\ task' = [task EXCEPT ![t] =
                      IF ok /\ f = "sec" THEN At0("time")
                      ELSE [at |-> "asking", n |-> IF ok THEN @.n + 1 ELSE @.n]]
  /\ UNCHANGED clockOnly

\* The test of the queue and of time-outs: what comes is what Sender sends, or
\* nothing in time.  Sender puts a pointer in one call, of which not only a part is got
\* in time: the call returns true if a byte was got.
_queueTest_command(t) ==
  \/ /\ \/ Prints(t, "queue", "queueOn")
        \/ TimeoutIn(t, "queueOn", "queueTick", "queueKey")
        \/ ReadsInTime(t, "queueKey", "start", "off")
        \/ /\ Stmt(t, "start")
           /\ task' = [task EXCEPT ![t] = [at |-> "round", j |-> Rounds, got |-> NULL]]
           /\ UNCHANGED <<kernelVars, driverOnly>>
        \/ /\ Stmt(t, "round") /\ task[t].j > 0 /\ event_notify(t, _event)
           /\ Goto(t, "letter") /\ UNCHANGED driverOnly
        \/ task[t].at = "round" /\ task[t].j = 0 /\ Local(t, "round", "off")
        \/ /\ task[t].at = "gotLetter"
           /\ Prints(t, "gotLetter", IF task[t].got.i = Letters THEN "wait" ELSE "letter")
        \/ /\ Stmt(t, "wait") /\ task_setTimeout(t, timer0, Fifth) /\ Goto(t, "pointer")
           /\ UNCHANGED <<timeOnly, qty, running>>
        \/ /\ task[t].at = "gotPointer"
           /\ Prints(t, "gotPointer", IF task[t].got = NULL THEN "gotString" ELSE "string")
        \/ /\ Stmt(t, "gotString")
           /\ task' = [task EXCEPT ![t].at = "round", ![t].j = @ - 1]
           /\ UNCHANGED <<kernelVars, driverOnly>>
        \/ WaitEvent(t, Room, "gotString", "gotString")
        \/ TimerOff(t, timer0, "off", "prompt")
     /\ UNCHANGED demoOnly
  \/ QueueCall(t, queue_get8(_queue), "letter", [task[t] EXCEPT !.at = "gotLetter"])
  \/ QueueCall(t, queueTimer_get(_queue, PtrSize, timer0), "pointer",
               [task[t] EXCEPT !.at = "gotPointer", !.got = NULL])
  \/ QueueCall(t, queueTimer_getStr(_queue, timer0), "string",
               [task[t] EXCEPT !.at = "gotString", !.got = NULL])

\* The test of the timer: j seconds of 0.1 s periods, with a tick printed in
\* each but the last.  The number is typed key by key, each with the time-out.
_timerTest_command(t) ==
  /\ \/ Prints(t, "timer", "timerOn")
     \/ TimeoutIn(t, "timerOn", "timerTick", "timerKey")
     \/ ReadsInTime(t, "timerKey", "timerTyped", "off")
     \/ Prints(t, "timerTyped", "timerKey")
     \/ \E s \in Seconds :
          /\ Stmt(t, "timerTyped") /\ timer_off(t, timer0)
          /\ task' = [task EXCEPT ![t] = [at |-> "testOn", j |-> s, i |-> Lines]]
     \/ TimerOn(t, timer1, "testOn", IF task[t].j > 0 THEN "test" ELSE "tested")
     \/ Prints(t, "test", "period")
     \/ LET j == task[t] IN
        /\ Stmt(t, "period") /\ timer_period(t, timer1, TestTicks)
        /\ task' = [task EXCEPT ![t] =
             IF j.i > 0 THEN [j EXCEPT !.at = "test", !.i = @ - 1]
             ELSE IF j.j > 1 THEN [j EXCEPT !.at = "test", !.j = @ - 1, !.i = Lines]
             ELSE [j EXCEPT !.at = "tested"]]
        /\ UNCHANGED <<timeOnly, qty, running>>
     \/ Prints(t, "tested", "testOff")
     \/ TimerOff(t, timer1, "testOff", "prompt")
  /\ UNCHANGED demoOnly

\* adc_get: the conversion begins with interrupts disabled, so that it cannot
\* end before it is waited for.
_temp_command(t) ==
  \/ /\ Stmt(t, "temp") /\ Goto(t, "convert")
     /\ \/ mutex_enter_free(t, _busy, "mutex_enterCritical")
        \/ mutex_enter_wait(t, _busy, "mutex_enterCritical")
     /\ UNCHANGED <<mutexOnly, qty, running, demoOnly>>
  \/ /\ WaitEvent(t, _endOfConversion, "convert", "converted") /\ converting' = TRUE
     /\ UNCHANGED <<ring, job, _clock>>
  \/ /\ Stmt(t, "converted") /\ mutex_exitCritical(t, _busy) /\ Goto(t, "text")
     /\ UNCHANGED <<mutexOnly, qty, running, demoOnly>>

\* board_switch_waitToPressed and board_switch_waitToReleased.
waitSwitch(t, from, mid, end, to) ==
  Enter(t, from, mid) \/ WaitEvent(t, _switch, mid, end) \/ Exit(t, end, to)

_switch_command(t) ==
  /\ \/ Prints(t, "switch", "press") \/ Prints(t, "switch", "release")
     \/ waitSwitch(t, "press", "pressing", "pressed", "isPressed")
     \/ Prints(t, "isPressed", "release")
     \/ waitSwitch(t, "release", "releasing", "released", "text")
  /\ UNCHANGED demoOnly

_term_task(t) ==
  \/ /\ \/ Enter(t, "enter", "hello")
        \/ Prints(t, "hello", "prompt")
        \/ Prints(t, "prompt", "read")
        \/ \E c \in _commands : Reads(t, Line, "read", c)
     /\ UNCHANGED demoOnly
  \/ text(t) \/ _time_command(t) \/ _setTime_command(t) \/ _queueTest_command(t)
  \/ _timerTest_command(t) \/ _temp_command(t) \/ _switch_command(t)

-----------------------------------------------------------------------------
(* Interrupts, when t runs *)

\* The end of a conversion.
adc_isr(t) ==
  converting /\ notifyInISR(t, _endOfConversion) /\ converting' = FALSE

_port1_isr(t) == notifyInISR(t, _switch) /\ UNCHANGED converting

interrupts(t) ==
  \/ /\ adc_isr(t) \/ _port1_isr(t) \/ (notifyInISR_end(t) /\ UNCHANGED converting)
     /\ UNCHANGED <<driverOnly, task, ring, job, _clock>>
  \/ /\ Tick(t, timer0) \/ Tick(t, timer1) \/ Interrupt(t, Line) \/ Interrupt(t, Room)
     /\ UNCHANGED demoOnly

DemoNext ==
  \/ main
  \/ background
  \/ \E t \in Threads : calls(t) \/ interrupts(t)
  \/ _led_task(Led)
  \/ _clock_task(Clock)
  \/ job[Term].at = "idle" /\ _term_task(Term)
  \/ job[Sender].at = "idle" /\ _queue_task(Sender)

DemoSpec == DemoInit /\ [][DemoNext]_demoVars

-----------------------------------------------------------------------------
(* Properties *)

\* A wait for an event or a tick ends with the first of them (event.h:76): a
\* thread that goes on in its own code does not wait for a timer any more.
WaitIsOver ==
  \A t \in Threads : User(t) => \A tm \in TickLists : t \notin Sleepers(tm)

=============================================================================
