--------------------------------- MODULE Rtcc ---------------------------------
(***************************************************************************)
(* The real time clock calendar, rtcc.c, with the prompt that commands it. *)
(* Rtcc adds a second to the clock when one has passed, calls the function *)
(* of the alarm when it is due, and turns its timer off while the clock is *)
(* stopped.  Prompt sets, prints and stops the clock and its alarm.  Both  *)
(* run in a critical section, which they leave only to wait, and share the *)
(* date-times through a mutex, because they wait while they use them: for  *)
(* the lines that are typed, and for room to print.                        *)
(***************************************************************************)
EXTENDS Program, Calendar

CONSTANTS
  Rtcc, Prompt,     \* the threads
  timer0,           \* the timer of the driver that they use
  _event, _mutex,   \* what they share
  Line, Room,       \* external: a line was typed; the serial port has room
  OneSecond,        \* _ONE_SECOND, in ticks
  Funcs,            \* the functions an alarm may call
  Typed,            \* the date-times users type
  Missed            \* the fields users first type a value out of range for

ASSUME RtccAssumption ==
  /\ {Rtcc, Prompt} \subseteq Threads \ {Background} /\ Rtcc # Prompt
  /\ timer0 \in TickLists /\ {_event, Line, Room} \subseteq Events /\ _mutex \in Mutexes
  /\ _event \notin {Line, Room}
  /\ OneSecond \in Nat \ {0} /\ NULL \notin Funcs
  /\ Typed \subseteq [century : Nat, year : Nat, month : Nat, day : Nat,
                      hour : Nat, minute : Nat, second : Nat]
  /\ Missed \subseteq {"month", "hour", "minute", "second"}

VARIABLES
  _go,     \* the clock runs
  _func,   \* the function of the alarm, or NULL
  _clock,  \* _time, _weekDay and _season
  _alarm   \* the date-time of the alarm

shared == <<_go, _func, _clock, _alarm>>
rtccVars == <<programVars, shared>>

\* rtcc_init and the first statements of the threads.
RtccInit ==
  /\ DriverInit
  /\ _go = FALSE /\ _func = NULL
  /\ _clock = clockOf(dateTime_init) /\ _alarm = dateTime_init
  /\ task = [t \in Threads |-> At0(IF t \in {Rtcc, Prompt} THEN "enter" ELSE "none")]

\* mutex_exit, on the way to a statement.
ExitMutex(t, from, to) ==
  /\ Stmt(t, from) /\ mutex_exit(t, _mutex) /\ Goto(t, to)
  /\ UNCHANGED <<mutexOnly, qty, running>>

-----------------------------------------------------------------------------
(* The thread of the clock *)

\* Mutant: later, and not later or equal.
due_alarm_late(c) ==
  _func # NULL /\ dateTime_isLaterOrEqual(c.time, _alarm) /\ c.time # _alarm

\* Whether the alarm is due.
due_alarm(c) == _func # NULL /\ dateTime_isLaterOrEqual(c.time, _alarm)

incSecond(t) ==
  /\ Stmt(t, "inc") /\ _clock' = _incSecond(_clock)
  /\ Local(t, "inc", IF due_alarm(_clock') THEN "call" ELSE "leave")
  /\ UNCHANGED <<_go, _func, _alarm>>

\* Mutant: the function is forgotten after the mutex was left.
alarmDone_outside(t) ==
  \/ ExitMutex(t, "called", "forget") /\ UNCHANGED shared
  \/ _func' = NULL /\ Local(t, "forget", "second") /\ UNCHANGED <<_go, _clock, _alarm>>

alarmDone(t) ==
  /\ _func' = NULL /\ Local(t, "called", "leave")
  /\ UNCHANGED <<_go, _clock, _alarm>>

\* Mutant: rests with its timer on.
rest_on(t) ==
  /\ ~ _go /\ Local(t, "check", "off") /\ UNCHANGED shared

\* The clock was stopped: the timer is not needed.
rest(t) ==
  /\ ~ _go /\ TimerOff(t, timer0, "check", "off") /\ UNCHANGED shared

rtcc_task(t) ==
  \/ /\ \/ Enter(t, "enter", "stopped")
        \/ ~ _go /\ WaitEvent(t, _event, "stopped", "stopped")
        \/ _go /\ TimerOn(t, timer0, "stopped", "second")
        \/ Sleep(t, timer_period(t, timer0, OneSecond), "second", "check")
        \/ WaitEvent(t, _event, "off", "on")
        \/ TimerOn(t, timer0, "on", "check")
        \/ _go /\ EnterMutex(t, _mutex, "check", "inc")
        \* _func: it may have to wait for room to print "Already running."
        \/ Local(t, "call", "called")
        \/ WaitEvent(t, Room, "call", "called")
        \/ ExitMutex(t, "leave", "second")
     /\ UNCHANGED shared
  \/ rest(t) \/ incSecond(t) \/ alarmDone(t)

-----------------------------------------------------------------------------
(* The commands of the prompt *)

\* _enter: the six numbers, in the order they are asked for.
Asked == <<"year", "month", "day", "hour", "minute", "second">>

outOfRange == [month |-> 13, hour |-> 24, minute |-> 60, second |-> 60]

store(dt, f, goal) ==
  IF f = "year" THEN dateTime_setYear(dt, dateTime_getYear(goal))
  ELSE [dt EXCEPT ![f] = goal[f]]

Entering(dt) ==
  IF task[Prompt].dest = "time"
  THEN _clock' = [_clock EXCEPT !.time = dt] /\ UNCHANGED _alarm
  ELSE _alarm' = dt /\ UNCHANGED _clock

\* The user will type these numbers.
startEntry(t, dest) ==
  \E goal \in Typed :
    task' = [task EXCEPT ![t] = [at |-> "typing", n |-> 1, dest |-> dest, goal |-> goal]]

\* A number was typed.  After the last one the ranges are checked.
number(t) ==
  LET j  == task[t]
      f  == Asked[j.n]
      dt == IF j.dest = "time" THEN _clock.time ELSE _alarm
      dt2 == store(dt, f, j.goal)
  IN /\ Stmt(t, "typed")
     /\ \/ /\ Entering(dt2)
           /\ IF j.n < 6 THEN task' = [task EXCEPT ![t] = [j EXCEPT !.at = "typing", !.n = j.n + 1]]
              ELSE IF dateTime_checkRanges(dt2) THEN Goto(t, "entered")
              ELSE startEntry(t, j.dest)
        \/ /\ f \in Missed /\ Entering([dt EXCEPT ![f] = outOfRange[f]])
           /\ Goto(t, "typing")
     /\ UNCHANGED <<kernelVars, driverOnly, _go, _func>>

\* The end of rtcc_enterTime and of rtcc_enterAlarm: the mutex is left.
entered(t) ==
  /\ Stmt(t, "entered") /\ mutex_exit(t, _mutex)
  /\ IF task[t].dest = "time"
     THEN _clock' = clockOf(_clock.time) /\ Goto(t, "printTime")
     ELSE UNCHANGED _clock /\ task' = [task EXCEPT ![t] = At0("prompt")]
  /\ UNCHANGED <<mutexOnly, qty, running, _go, _func, _alarm>>

\* Mutant: starts the clock without a word to its thread.
rtcc_start_silent(t) ==
  /\ Stmt(t, "start") /\ _go' = TRUE
  /\ task' = [task EXCEPT ![t] = At0("prompt")]
  /\ UNCHANGED <<kernelVars, driverOnly, _func, _clock, _alarm>>

\* The end of rtcc_enterTime, after rtcc_print.
rtcc_start(t) ==
  /\ Stmt(t, "start") /\ _go' = TRUE /\ event_notify(t, _event)
  /\ task' = [task EXCEPT ![t] = At0("prompt")]
  /\ UNCHANGED <<driverOnly, _func, _clock, _alarm>>

rtcc_stop(t) ==
  _go' = FALSE /\ Local(t, "command", "prompt") /\ UNCHANGED <<_func, _clock, _alarm>>

\* Without the mutex.
rtcc_alarmOff(t) ==
  _func' = NULL /\ Local(t, "command", "prompt") /\ UNCHANGED <<_go, _clock, _alarm>>

\* The function is set before the date-time is typed.
rtcc_enterAlarm(t) ==
  /\ Stmt(t, "alarm") /\ _func' \in Funcs /\ startEntry(t, "alarm")
  /\ UNCHANGED <<kernelVars, driverOnly, _go, _clock, _alarm>>

rtcc_enterTime(t) ==
  /\ Stmt(t, "time") /\ startEntry(t, "time")
  /\ UNCHANGED <<kernelVars, driverOnly, shared>>

\* rtcc_print and rtcc_printAlarm, on the way to a statement.
printing(t, from, busy_, to) ==
  \/ EnterMutex(t, _mutex, from, busy_)
  \/ WaitEvent(t, Room, busy_, busy_)
  \/ ExitMutex(t, busy_, to)

prompt_task(t) ==
  \/ /\ \/ Enter(t, "enter", "on")
        \/ TimerOn(t, timer0, "on", "delay")
        \/ Sleep(t, timer_delay(t, timer0, 1), "delay", "off")
        \/ TimerOff(t, timer0, "off", "prompt")
        \/ Reads(t, Line, "prompt", "command")
        \/ EnterMutex(t, _mutex, "command", "time")
        \/ EnterMutex(t, _mutex, "command", "alarm")
        \/ Reads(t, Line, "typing", "typed")
        \/ printing(t, "command", "printing", "prompt")
        \/ printing(t, "printTime", "printingTime", "start")
     /\ UNCHANGED shared
  \/ rtcc_enterTime(t) \/ rtcc_enterAlarm(t) \/ number(t) \/ entered(t)
  \/ rtcc_start(t) \/ rtcc_stop(t) \/ rtcc_alarmOff(t)

-----------------------------------------------------------------------------

RtccNext ==
  \/ /\ \/ KernelSteps({})
        \/ \E t \in Threads :
             Tick(t, timer0) \/ Interrupt(t, Line) \/ Interrupt(t, Room)
     /\ UNCHANGED shared
  \/ rtcc_task(Rtcc)
  \/ prompt_task(Prompt)

RtccSpec == RtccInit /\ [][RtccNext]_rtccVars

-----------------------------------------------------------------------------
(* Properties *)

\* The order of time, by days and then seconds, whatever the code compares.
Before(a, b) ==
  LET days(dt) == (dateTime_getYear(dt) * 12 + dt.month) * 32 + dt.day
      secs(dt) == (dt.hour * 60 + dt.minute) * 60 + dt.second
  IN  days(a) < days(b) \/ (days(a) = days(b) /\ secs(a) < secs(b))

\* A date of the calendar: 30 days have September, ...
Valid(dt) ==
  LET year == dateTime_getYear(dt)
      leap == year % 4 = 0 /\ (year % 100 # 0 \/ year % 400 = 0)
      days == CASE dt.month \in {4, 6, 9, 11} -> 30
                [] dt.month = 2 -> IF leap THEN 29 ELSE 28
                [] OTHER -> 31
  IN  /\ dt.month \in 1 .. 12 /\ dt.day \in 1 .. days
      /\ dt.hour \in 0 .. 23 /\ dt.minute \in 0 .. 59 /\ dt.second \in 0 .. 59

\* Nobody sees a date that is not one (rtcc.c:66-98, 198-245): what is half typed,
\* or typed wrong, stays inside of the mutex, and the clock goes from valid dates
\* to valid dates over the ends of months and the changes of season.
DatesValid ==
  _mutex \notin inside[Prompt] => Valid(_clock.time) /\ Valid(_alarm)

\* Time goes on (rtcc.c:198-245): a second never takes the clock back, but for the
\* hour at the beginning of winter.
ClockGoesOn ==
  [][Stmt(Rtcc, "inc") /\ _clock' # _clock =>
       \/ Before(_clock.time, _clock'.time)
       \/ /\ _clock.season # WINTER /\ _clock'.season = WINTER
          /\ _clock.time.minute = 59 /\ _clock'.time.minute = 0]_rtccVars

\* An alarm is neither early nor missed (rtcc.c:264-268): it is called when its time
\* has come, and the clock does not go on without it having been.
AlarmOnTime ==
  /\ Stmt(Rtcc, "call") => _func # NULL /\ ~ Before(_clock.time, _alarm)
  /\ Stmt(Rtcc, "leave") => _func = NULL \/ Before(_clock.time, _alarm)

\* An alarm that was set stays set until it was called or turned off
\* (rtcc.c:113-118 against 265-268), also when it is set while another is called.
AlarmKept ==
  [][_func # NULL /\ _func' = NULL =>
       \/ Stmt(Prompt, "command")
       \/ task[Rtcc].at = "called" /\ ~ Before(_clock.time, _alarm)]_rtccVars

\* No start is lost (rtcc.c:107-109 against 253 and 258-262): when the clock should
\* go its thread does not wait to be told so.
NoLostStart == _go => Rtcc \notin Waiters(_event)

\* The timer does not run for nothing (rtcc.c:259, prompt.c:78-80): a thread that
\* waits for a start, or a command, has given it back.
NoTimerLeft ==
  Rtcc \in Waiters(_event) /\ Prompt \in Waiters(Line) => ~ running[timer0]

=============================================================================
