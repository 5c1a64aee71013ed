---------------------------- MODULE Intervalometer ----------------------------
(***************************************************************************)
(* The intervalometer, intervalometer.c, with the threads that command it: *)
(* the prompt (prompt.c) and the switch (switch.c, board-msp-exp430g2.c).  *)
(* Shooter is the thread of the highest priority that opens and closes the *)
(* shutter; it runs in a critical section which it only leaves to wait.    *)
(*                                                                         *)
(* task[t].at is the next statement of t.  The text printed is left out,    *)
(* and a line typed at the prompt is an event that an interrupt notifies.  *)
(***************************************************************************)
EXTENDS Program

CONSTANTS
  Shooter, Prompt, Switch, \* the threads
  timer1,                  \* the timer of the driver that they use
  commandEvent, _switch,   \* _commandEvent, and _switch of the board
  Line,                    \* external: a line was typed
  Freq,      \* HAL_TIMER1_FREQ, the ticks of a second
  Lead,      \* the 3 seconds of focus
  Speeds,    \* the ticks of the times that _speedNames names, from 0
  _speeds,   \* the table of ticks, as it is built
  Start,     \* the first values of the settings
  Typed,     \* the settings users type
  Zeroes,    \* the settings users first type a zero for
  MaxLeaks   \* BOUND: how often a stop leaves the timer on

\* Times in seconds.
Settings ==
  [delay : Nat, long : Nat, intv : Nat, numb : Nat, hdr : DOMAIN Speeds, step : Nat]

ASSUME IntervalometerAssumption ==
  /\ {Shooter, Prompt, Switch} \subseteq Threads \ {Background}
  /\ Shooter # Prompt /\ Shooter # Switch /\ Prompt # Switch
  /\ timer1 \in TickLists /\ {commandEvent, _switch, Line} \subseteq Events
  /\ commandEvent \notin {_switch, Line} /\ <<Shooter, commandEvent>> \in EventUsers
  /\ Zeroes \subseteq {"long", "intv", "numb"}
  /\ Freq \in Nat \ {0} /\ Lead \in Nat \ {0} /\ Freq * Lead <= HalfRound
  /\ \A i \in DOMAIN Speeds : i \in Nat /\ 0 .. i \subseteq DOMAIN Speeds
  /\ Speeds \in [DOMAIN Speeds -> Nat \ {0}]
  /\ Start \in Settings /\ Typed \subseteq Settings
  /\ MaxLeaks \in Nat /\ MaxLeaks + 3 < QtyMod

\* The compiler converts the times of _speeds to ticks.  What it makes of one that does
\* not fit is undefined.
ASSUME SpeedsAssumption ==
  /\ _speeds \in [DOMAIN Speeds -> 1 .. TickMod - 1]
  /\ \A i \in DOMAIN Speeds : Speeds[i] < TickMod => _speeds[i] = Speeds[i]

VARIABLES
  cmd,   \* _commandCode
  leds,  \* the LEDs that shine: "focus" and "shut"
  set    \* the settings _delay, _long, _intv, _numb, _hdr, _step

ownVars == <<cmd, leds, set>>
interVars == <<programVars, ownVars>>

\* interval_init and the first statements of the threads.
InterInit ==
  /\ DriverInit
  /\ cmd = "NOTHING" /\ leds = {} /\ set = Start
  /\ task = [t \in Threads |-> At0(CASE t = Shooter -> "enter"
                                    [] t = Prompt  -> "enter"
                                    [] t = Switch  -> "press"
                                    [] OTHER       -> "none")]

-----------------------------------------------------------------------------
(* The shooter *)

\* Mutant: no time is no tick.
sec_none(x) == (Freq * x) % TickMod

\* timer1_sec: x seconds in ticks, cut to the width of a tick_t, and at least one.
sec(x) == LET n == (Freq * x) % TickMod IN IF n = 0 THEN 1 ELSE n

\* The waits of a process: none (0) before the focus when the focus takes it all.
Before(x) == IF x >= Lead THEN sec(x - Lead) ELSE 0
Focus(x)  == IF x >= Lead THEN sec(Lead) ELSE sec(x)

\* _commandCode = CMD_NOTHING and the notification.
park(t) ==
  /\ Stmt(t, "park") /\ cmd' = "NOTHING"
  /\ event_notify(t, commandEvent) /\ Goto(t, "idle")
  /\ UNCHANGED <<driverOnly, leds, set>>

\* A process begins with the settings of now, whose waits follow from them.
idle(t) ==
  /\ Stmt(t, "idle")
  /\ \/ /\ cmd = "NOTHING" /\ event_wait(t, commandEvent)
        /\ UNCHANGED <<task, driverOnly>>
     \/ /\ cmd # "NOTHING" /\ timer_on(t, timer1)
        /\ task' = [task EXCEPT ![t] =
             [at |-> "delay", delay |-> set.delay, intv |-> set.intv,
              long |-> 0, i |-> 0, speed |-> 0, since |-> 0]]
  /\ UNCHANGED ownVars

\* timer_period or timer_shift, then the next statement; the LEDs change before.
Wait(t, wait, to, shine) ==
  /\ wait /\ task' = to /\ leds' = shine
  /\ UNCHANGED <<timeOnly, qty, running, cmd, set>>

Jump(t, to, shine) ==
  /\ Goto(t, to) /\ leds' = shine
  /\ UNCHANGED <<kernelVars, driverOnly, cmd, set>>

\* A stop seen before the first shot goes back without timer_off.
delay(t) ==
  LET d == Before(task[t].delay) IN
  /\ Stmt(t, "delay")
  /\ IF cmd = "STOP" THEN Jump(t, "park", leds)
     ELSE IF d = 0 THEN Jump(t, "lead", leds)
     ELSE Wait(t, timer_period(t, timer1, d), [task EXCEPT ![t].at = "lead"], leds)

lead(t) ==
  /\ Stmt(t, "lead")
  /\ IF cmd = "STOP" THEN Jump(t, "park", leds)
     ELSE Wait(t, timer_period(t, timer1, Focus(task[t].delay)),
                [task EXCEPT ![t].at = "led"], leds \cup {"focus"})

\* Mutant: an HDR process steps on before its exposure.
exposure_next(j) ==
  IF cmd = "INTER" THEN sec(j.long)
  ELSE _speeds[IF j.speed + set.step \in DOMAIN Speeds THEN j.speed + set.step ELSE j.speed]

\* The shutter opens for one exposure.
exposure(j) == IF cmd = "INTER" THEN sec(j.long) ELSE _speeds[j.speed]

expose(t, j) ==
  Wait(t, timer_period(t, timer1, exposure(j)),
        [task EXCEPT ![t] = [j EXCEPT !.at = "exposed", !.since = now[timer1]]], {"shut"})

\* The loops begin: the exposure and the first speed are what they are now.
begun(j) == [j EXCEPT !.long = set.long, !.speed = set.hdr]

\* Mutant: opens the shutter without a look at the command.
led_unchecked(t) == Stmt(t, "led") /\ expose(t, begun(task[t]))

led(t) ==
  /\ Stmt(t, "led")
  /\ IF cmd = "STOP" THEN Jump(t, "park", leds \ {"focus"}) ELSE expose(t, begun(task[t]))

\* No more shots: all done, or the HDR speeds are at their end.
last(j) ==
  \/ j.i + 1 >= set.numb
  \/ cmd = "HDR" /\ j.speed + set.step \notin DOMAIN Speeds

\* Mutant: the shutter stays open for the next wait.
exposed_open(t) ==
  LET j == task[t]
      d == Before(j.intv)
      next == [task EXCEPT ![t].at = "gap", ![t].i = @ + 1]
  IN /\ Stmt(t, "exposed")
     /\ IF cmd = "STOP" \/ last(j) THEN Jump(t, "off", leds)
        ELSE IF d = 0
        THEN /\ task' = next
             /\ UNCHANGED <<kernelVars, driverOnly, ownVars>>
        ELSE Wait(t, timer_period(t, timer1, d), next, leds)

\* The shutter closes.  The interval of a shooting is a shift, which gives the
\* thread its tick back; that of an HDR process is a period.
exposed(t) ==
  LET j == task[t]
      d == Before(j.intv)
      next == [task EXCEPT ![t].at = "gap", ![t].i = @ + 1,
                          ![t].speed = IF cmd = "HDR" THEN @ + set.step ELSE @]
  IN /\ Stmt(t, "exposed")
     /\ IF cmd = "STOP" \/ last(j) THEN Jump(t, "off", leds \ {"shut"})
        ELSE IF d = 0
        THEN /\ task' = next /\ leds' = leds \ {"shut"}
             /\ UNCHANGED <<kernelVars, driverOnly, cmd, set>>
        ELSE Wait(t, IF cmd = "INTER" THEN timer_shift(t, timer1, d)
                                       ELSE timer_period(t, timer1, d),
                   next, leds \ {"shut"})

gap(t) ==
  /\ Stmt(t, "gap")
  /\ IF cmd = "STOP" THEN Jump(t, "off", leds)
     ELSE Wait(t, timer_period(t, timer1, Focus(task[t].intv)),
                [task EXCEPT ![t].at = "focused"], leds \cup {"focus"})

focused(t) ==
  /\ Stmt(t, "focused")
  /\ IF cmd = "STOP" THEN Jump(t, "off", leds \ {"focus"}) ELSE expose(t, task[t])

off(t) ==
  /\ Stmt(t, "off") /\ timer_off(t, timer1)
  /\ task' = [task EXCEPT ![t] = At0("park")] /\ UNCHANGED ownVars

intervalometer_task(t) ==
  \/ Enter(t, "enter", "park") /\ UNCHANGED ownVars
  \/ park(t) \/ idle(t) \/ delay(t) \/ lead(t) \/ led(t)
  \/ exposed(t) \/ gap(t) \/ focused(t) \/ off(t)

-----------------------------------------------------------------------------
(* The commands, called by a thread that goes on at task[t].then *)

Call(t, at, then) == task' = [task EXCEPT ![t] = [at |-> at, then |-> then]]

\* Back in the caller: out of the critical section.
Back(t) ==
  /\ Stmt(t, "back") /\ task_exitCritical(t)
  /\ task' = [task EXCEPT ![t] = At0(@.then)]
  /\ UNCHANGED <<driverOnly, ownVars>>

\* interval_run and interval_hdr.  An alarm or a switch may be first.
_setCommand(t, c) ==
  /\ Stmt(t, c) /\ Goto(t, "back")
  /\ IF cmd = "NOTHING"
     THEN cmd' = c /\ event_notify(t, commandEvent)
     ELSE UNCHANGED <<kernelVars, cmd>>
  /\ UNCHANGED <<driverOnly, leds, set>>

\* interval_stop: the command and the abort of whatever wait the shooter is in.
interval_stop(t) ==
  /\ Stmt(t, "stop")
  /\ IF cmd = "NOTHING"
     THEN Goto(t, "back") /\ UNCHANGED <<kernelVars, now, due, cmd>>
     ELSE /\ cmd' = "STOP" /\ Goto(t, "stopping")
          /\ \/ timer_abort(t, timer1, Shooter)
             \/ /\ ~ threadList_has(k, timer1, Shooter)
                /\ Return(t) /\ UNCHANGED <<k, now, due>>
  /\ UNCHANGED <<timeOnly, qty, running, leds, set>>

interval_stopped(t) ==
  /\ Stmt(t, "stopping")
  /\ \/ cmd = "STOP" /\ event_wait(t, commandEvent) /\ UNCHANGED task
     \/ cmd # "STOP" /\ Goto(t, "back") /\ UNCHANGED kernelVars
  /\ UNCHANGED <<driverOnly, ownVars>>

commands(t) ==
  \/ _setCommand(t, "INTER") \/ _setCommand(t, "HDR")
  \/ interval_stop(t) \/ interval_stopped(t) \/ Back(t)

-----------------------------------------------------------------------------
(* The prompt and the switch *)

\* A command enters its critical section, inside of that of the thread.
\* BOUND: no stop before the first shot when MaxLeaks of them have been.
Leaking == task[Shooter].at \in {"delay", "lead", "led"} /\ qty[timer1] > MaxLeaks

command(t) ==
  /\ Stmt(t, "command") /\ task_enterCritical(t)
  /\ \E at \in {"INTER", "HDR", "stop"} :
       (at = "stop" => ~ Leaking) /\ Call(t, at, "prompt")
  /\ UNCHANGED <<driverOnly, ownVars>>

Fields == <<"delay", "long", "intv", "numb", "hdr", "step">>

\* interval_enterSettings looks once if a process is running.
enterSettings(t) ==
  /\ Stmt(t, "command")
  /\ IF cmd = "NOTHING"
     THEN \E s \in Typed : task' = [task EXCEPT ![t] = [at |-> "typing", n |-> 1, goal |-> s]]
     ELSE Goto(t, "prompt")
  /\ UNCHANGED <<kernelVars, driverOnly, ownVars>>

\* A number was typed; a zero is stored and asked for again.
typed(t) ==
  LET f == Fields[task[t].n]
      next == IF task[t].n = 6 THEN At0("prompt")
              ELSE [task[t] EXCEPT !.at = "typing", !.n = @ + 1]
  IN /\ Stmt(t, "typed")
     /\ \/ set' = [set EXCEPT ![f] = task[t].goal[f]] /\ task' = [task EXCEPT ![t] = next]
        \/ /\ f \in Zeroes
           /\ set' = [set EXCEPT ![f] = 0] /\ Goto(t, "typing")
     /\ UNCHANGED <<kernelVars, driverOnly, cmd, leds>>

prompt_task(t) ==
  \/ Enter(t, "enter", "prompt") /\ UNCHANGED ownVars
  \/ Reads(t, Line, "prompt", "command") /\ UNCHANGED ownVars
  \/ command(t) \/ enterSettings(t)
  \/ Reads(t, Line, "typing", "typed") /\ UNCHANGED ownVars
  \/ typed(t)

\* board_switch_waitToPressed and board_switch_waitToReleased.
waitSwitch(t, at, wait, end, then) ==
  /\ Enter(t, at, wait) \/ WaitEvent(t, _switch, wait, end) \/ Exit(t, end, then)
  /\ UNCHANGED ownVars

\* The test is not in the critical section of the call that follows it.
pressed(t) ==
  Local(t, "pressed", IF cmd # "NOTHING" THEN "callStop" ELSE "callRun") /\ UNCHANGED ownVars

callFunc(t) ==
  /\ \/ Stmt(t, "callStop") /\ ~ Leaking /\ Call(t, "stop", "release")
     \/ Stmt(t, "callRun") /\ Call(t, "INTER", "release")
  /\ task_enterCritical(t)
  /\ UNCHANGED <<driverOnly, ownVars>>

\* Two ticks against bounces.
debounce(t) ==
  /\ \/ TimerOn(t, timer1, "debounce", "bounce")
     \/ Sleep(t, timer_delay(t, timer1, 2), "bounce", "steady")
     \/ TimerOff(t, timer1, "steady", "press")
  /\ UNCHANGED ownVars

switch_task(t) ==
  \/ waitSwitch(t, "press", "pressing", "pressEnd", "pressed")
  \/ pressed(t) \/ callFunc(t)
  \/ waitSwitch(t, "release", "releasing", "releaseEnd", "debounce")
  \/ debounce(t)

-----------------------------------------------------------------------------
(* Interrupts *)

_port1_isr(t) ==
  (notifyInISR(t, _switch) \/ notifyInISR_end(t)) /\ UNCHANGED <<driverOnly, ownVars, task>>

InterNext ==
  \/ /\ \/ KernelSteps({"isr"})
        \/ \E t \in Threads : Tick(t, timer1) \/ Interrupt(t, Line)
     /\ UNCHANGED ownVars
  \/ \E t \in Threads : commands(t) \/ _port1_isr(t)
  \/ intervalometer_task(Shooter)
  \/ prompt_task(Prompt)
  \/ switch_task(Switch)

InterSpec == InterInit /\ [][InterNext]_interVars

-----------------------------------------------------------------------------
(* Properties *)

\* The camera is left in peace (intervalometer.c:101-111): focus and shutter are
\* never on together, the shutter is open only while the shooter waits for the
\* end of an exposure, and when no process runs both are off, however it ended.
LedsSafe ==
  /\ leds # {"focus", "shut"}
  /\ "shut" \in leds => task[Shooter].at = "exposed"
  /\ cmd = "NOTHING" => leds = {}

\* A stop is not slept over (intervalometer.c:157-166): from the abort of its wait
\* on the shooter does not wait again until the process is over.
StopNotSleptOver == cmd = "STOP" => Shooter \notin Sleepers(timer1)

\* The ticks of the time that was set for an exposure; no time is one tick.
asked(j) ==
  IF cmd # "INTER" THEN Speeds[j.speed] ELSE IF j.long = 0 THEN 1 ELSE Freq * j.long

\* What the tick of the shooter can follow: no wait of the process so far was longer than
\* half a round of the counter (thread-list.h:38), 8 seconds at its 3900 ticks a second,
\* and in a shooting the part of the interval before the focus is shorter than the focus:
\* line 212 does not add it to the tick, and a longer one leaves the next waits in the past.
Followed(j) ==
  /\ Freq * (j.delay - Lead) <= HalfRound /\ Freq * (j.intv - Lead) <= HalfRound
  /\ IF cmd = "INTER" THEN Before(j.intv) < Focus(j.intv) /\ Freq * j.long <= HalfRound
                      ELSE \A i \in 0 .. j.speed : Speeds[i] <= HalfRound

\* An exposure lasts as long as it was set (intervalometer.c:81-84 and 47-52) unless it
\* is stopped, whatever is typed meanwhile, as long as its process is one that the tick
\* can follow.
ExposureLasts ==
  Stmt(Shooter, "exposed") /\ cmd # "STOP" /\ Followed(task[Shooter]) =>
    now[timer1] - task[Shooter].since = asked(task[Shooter])

\* Where the tick cannot follow, an exposure is cut short, and never lasts longer than
\* it was set (intervalometer.c:81-84): not after waits that wrapped or were cut to the
\* width of a tick, and not with what is typed while the process runs.
ExposureNotLonger ==
  Stmt(Shooter, "exposed") /\ cmd # "STOP" =>
    now[timer1] - task[Shooter].since <= asked(task[Shooter])

=============================================================================
