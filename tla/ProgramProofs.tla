----------------------------- MODULE ProgramProofs -----------------------------
(***************************************************************************)
(* Proofs about the two programs.  Of the intervalometer, for every speed, *)
(* setting and thread and whatever the users do: the outputs to the camera *)
(* are off when no process runs; no wait for the timer outlasts a stop;    *)
(* nobody waits for the timer while it stands still; and an exposure lasts *)
(* as long as it was set.  The last three rest on the lists of ListProofs. *)
(* Of the calendar of the demo program, for every date-time: comparing is  *)
(* a total order and a second more is the next date-time in that order.    *)
(***************************************************************************)
EXTENDS Intervalometer, DemoCalendar, ListProofs

-----------------------------------------------------------------------------
(* The LEDs follow the statement of the shooter: each one that shines was lit  *)
(* for the wait the shooter is in.  From its first statement after the wait    *)
(* for a command on, a command is there.                                       *)

Calm      == {"enter", "park", "idle"}
Focusing  == {"led", "focused"}
Exposing  == {"exposed"}
Between   == {"delay", "lead", "gap", "off"}
Commanded == Focusing \cup Exposing \cup Between

\* The statement of the shooter, and its LEDs.
ShooterAt(at, shine) ==
  /\ at \in Calm \cup Commanded
  /\ shine = IF at \in Focusing THEN {"focus"}
             ELSE IF at \in Exposing THEN {"shut"} ELSE {}

Following ==
  /\ DOMAIN task = Threads
  /\ "at" \in DOMAIN task[Shooter]
  /\ ShooterAt(task[Shooter].at, leds)
  /\ task[Shooter].at \in Commanded => cmd # "NOTHING"

\* The statement, the LEDs and the command say it all.
LEMMA FollowingSafe == Following => LedsSafe
BY DEF Following, ShooterAt, LedsSafe, Calm, Focusing, Exposing, Between, Commanded

\* interval_init leaves the LEDs off.
LEMMA InitFollowing == InterInit => Following
BY IntervalometerAssumption
DEF InterInit, Following, ShooterAt, At0, Calm, Focusing, Exposing, Between, Commanded

\* A step that leaves the shooter where it is, takes no command back.
LEMMA SameFollowing ==
  ASSUME Following, DOMAIN task' = Threads, task'[Shooter] = task[Shooter],
         leds' = leds, cmd # "NOTHING" => cmd' # "NOTHING"
  PROVE  Following'
BY DEF Following, ShooterAt

\* A step of the shooter to a statement, with the LEDs of that statement.
LEMMA StepFollowing ==
  ASSUME NEW at, NEW record, Following, task' = [task EXCEPT ![Shooter] = record],
         "at" \in DOMAIN record, record.at = at, ShooterAt(at, leds'),
         at \in Commanded => cmd' # "NOTHING"
  PROVE  Following'
BY IntervalometerAssumption DEF Following

\* The same, when only the statement changes.
LEMMA GoFollowing ==
  ASSUME NEW at, Following, Goto(Shooter, at), ShooterAt(at, leds'),
         at \in Commanded => cmd' # "NOTHING"
  PROVE  Following'
<1>1. task' = [task EXCEPT ![Shooter] = [task[Shooter] EXCEPT !.at = at]]
  BY IntervalometerAssumption DEF Goto, Following
<1>2. /\ "at" \in DOMAIN [task[Shooter] EXCEPT !.at = at]
      /\ [task[Shooter] EXCEPT !.at = at].at = at
  BY DEF Following
<1> QED  BY <1>1, <1>2, StepFollowing

\* What another thread does to its own record.
LEMMA OtherFollowing ==
  ASSUME Following, NEW t \in Threads, t # Shooter, NEW record,
         task' = [task EXCEPT ![t] = record],
         leds' = leds, cmd # "NOTHING" => cmd' # "NOTHING"
  PROVE  Following'
<1>1. DOMAIN task' = Threads /\ task'[Shooter] = task[Shooter]
  BY IntervalometerAssumption DEF Following
<1> QED  BY <1>1, SameFollowing

LEMMA OtherGoes ==
  ASSUME Following, NEW t \in Threads, t # Shooter, NEW at, Goto(t, at),
         leds' = leds, cmd # "NOTHING" => cmd' # "NOTHING"
  PROVE  Following'
<1>1. task' = [task EXCEPT ![t] = [task[t] EXCEPT !.at = at]]
  BY DEF Goto, Following
<1> QED  BY <1>1, OtherFollowing

\* Nobody but the shooter runs a command.
LEMMA Commander ==
  ASSUME Following, NEW t \in Threads,
         NEW at \in {"INTER", "HDR", "stop", "stopping", "back"}, Stmt(t, at)
  PROVE  t # Shooter
BY DEF Following, ShooterAt, Stmt, Calm, Focusing, Exposing, Between, Commanded

LEMMA CommandsFollowing ==
  ASSUME Following, NEW t \in Threads, commands(t)
  PROVE  Following'
<1>1. ASSUME NEW c \in {"INTER", "HDR"}, _setCommand(t, c) PROVE Following'
  <2>1. t # Shooter  BY <1>1, Commander DEF _setCommand
  <2>2. Goto(t, "back") /\ leds' = leds /\ (cmd # "NOTHING" => cmd' # "NOTHING")
    BY <1>1 DEF _setCommand
  <2> QED  BY <2>1, <2>2, OtherGoes
<1>2. CASE interval_stop(t)
  <2>1. t # Shooter  BY <1>2, Commander DEF interval_stop
  <2>2. leds' = leds /\ (cmd # "NOTHING" => cmd' # "NOTHING")
    BY <1>2 DEF interval_stop
  <2>3. Goto(t, "back") \/ Goto(t, "stopping")  BY <1>2 DEF interval_stop
  <2> QED  BY <2>1, <2>2, <2>3, OtherGoes
<1>3. CASE interval_stopped(t)
  <2>1. t # Shooter  BY <1>3, Commander DEF interval_stopped
  <2>2. leds' = leds /\ cmd' = cmd  BY <1>3 DEF interval_stopped, ownVars
  <2>3. UNCHANGED task \/ Goto(t, "back")  BY <1>3 DEF interval_stopped
  <2>4. CASE UNCHANGED task  BY <2>2, <2>4, SameFollowing DEF Following
  <2> QED  BY <2>1, <2>2, <2>3, <2>4, OtherGoes
<1>4. CASE Back(t)
  <2>1. t # Shooter  BY <1>4, Commander DEF Back
  <2>2. leds' = leds /\ cmd' = cmd  BY <1>4 DEF Back, ownVars
  <2>3. task' = [task EXCEPT ![t] = At0(task[t].then)]  BY <1>4 DEF Back, Following
  <2> QED  BY <2>1, <2>2, <2>3, OtherFollowing
<1> QED  BY <1>1, <1>2, <1>3, <1>4 DEF commands

\* The exposure: the shutter, and the wait for its end.
LEMMA ExposeFollowing ==
  ASSUME Following, NEW j, "at" \in DOMAIN j, expose(Shooter, j), cmd # "NOTHING"
  PROVE  Following'
<1> DEFINE record == [j EXCEPT !.at = "exposed", !.since = now[timer1]]
<1>1. /\ task' = [task EXCEPT ![Shooter] = record]
      /\ leds' = {"shut"} /\ cmd' = cmd
  BY DEF expose, Wait
<1>2. "at" \in DOMAIN record /\ record.at = "exposed"
  OBVIOUS
<1>3. ShooterAt("exposed", leds')
  BY <1>1 DEF ShooterAt, Calm, Focusing, Exposing, Between, Commanded
<1> HIDE DEF record
<1> QED  BY <1>1, <1>2, <1>3, StepFollowing

\* A jump of the shooter under the same command, and a wait.
LEMMA JumpFollowing ==
  ASSUME Following, NEW at, NEW shine, Jump(Shooter, at, shine), ShooterAt(at, shine),
         at \in Commanded => cmd # "NOTHING"
  PROVE  Following'
<1>1. Goto(Shooter, at) /\ leds' = shine /\ cmd' = cmd
  BY DEF Jump
<1> QED  BY <1>1, GoFollowing

LEMMA WaitFollowing ==
  ASSUME Following, NEW at, NEW shine, NEW to, NEW wait, Wait(Shooter, wait, to, shine),
         NEW record, to = [task EXCEPT ![Shooter] = record],
         "at" \in DOMAIN record, record.at = at,
         ShooterAt(at, shine), at \in Commanded => cmd # "NOTHING"
  PROVE  Following'
<1>1. task' = [task EXCEPT ![Shooter] = record] /\ leds' = shine /\ cmd' = cmd
  BY DEF Wait
<1> QED  BY <1>1, StepFollowing

\* At one of its statements the shooter has these LEDs.
LEMMA LedsAt ==
  ASSUME Following, NEW at, Stmt(Shooter, at)
  PROVE  /\ ShooterAt(at, leds)
         /\ at \in Commanded => cmd # "NOTHING"
         /\ "at" \in DOMAIN task[Shooter] /\ DOMAIN task = Threads
BY DEF Following, Stmt

\* A wait of the shooter that is at a statement, and goes on at another.
LEMMA GoWaitFollowing ==
  ASSUME Following, NEW from, NEW at, NEW shine, NEW wait, Stmt(Shooter, from),
         Wait(Shooter, wait, [task EXCEPT ![Shooter].at = at], shine),
         ShooterAt(at, shine), at \in Commanded => cmd # "NOTHING"
  PROVE  Following'
<1> DEFINE record == [task[Shooter] EXCEPT !.at = at]
<1>1. /\ "at" \in DOMAIN record /\ record.at = at
      /\ [task EXCEPT ![Shooter].at = at] = [task EXCEPT ![Shooter] = record]
  BY IntervalometerAssumption, LedsAt
<1> HIDE DEF record
<1> QED  BY <1>1, WaitFollowing

LEMMA ShooterFollowing ==
  ASSUME Following, intervalometer_task(Shooter)
  PROVE  Following'
<1> DEFINE t == Shooter
           j == task[t]
<1>a. t \in Threads  BY IntervalometerAssumption
<1> USE DEF ShooterAt, Calm, Focusing, Exposing, Between, Commanded
<1>1. CASE Enter(t, "enter", "park") /\ UNCHANGED ownVars
  <2>1. /\ Stmt(t, "enter") /\ Goto(t, "park") /\ leds' = leds
    BY <1>1 DEF Enter, ownVars
  <2>2. ShooterAt("park", leds')  BY <2>1, LedsAt
  <2> QED  BY <2>1, <2>2, GoFollowing
<1>2. CASE park(t)
  <2>1. /\ Stmt(t, "park") /\ Goto(t, "idle") /\ leds' = leds
    BY <1>2 DEF park
  <2>2. ShooterAt("idle", leds')  BY <2>1, LedsAt
  <2> QED  BY <2>1, <2>2, GoFollowing
<1>3. CASE idle(t)
  <2>1. Stmt(t, "idle") /\ leds' = leds /\ cmd' = cmd  BY <1>3 DEF idle, ownVars
  <2>2. CASE UNCHANGED task
    BY <2>1, <2>2, SameFollowing DEF Following
  <2>3. CASE ~ UNCHANGED task
    <3> DEFINE record == [at |-> "delay", delay |-> set.delay, intv |-> set.intv,
                long |-> 0, i |-> 0, speed |-> 0, since |-> 0]
    <3>1. cmd # "NOTHING" /\ task' = [task EXCEPT ![t] = record]
      BY <1>3, <2>3 DEF idle
    <3>2. "at" \in DOMAIN record /\ record.at = "delay"  OBVIOUS
    <3>3. ShooterAt("delay", leds')  BY <2>1, LedsAt
    <3> HIDE DEF record
    <3> QED  BY <2>1, <3>1, <3>2, <3>3, StepFollowing
  <2> QED  BY <2>2, <2>3
<1>4. CASE delay(t)
  <2>1. Stmt(t, "delay")  BY <1>4 DEF delay
  <2>2. leds = {} /\ cmd # "NOTHING"  BY <2>1, LedsAt
  <2>3. CASE Jump(t, "park", leds)
    BY <2>2, <2>3, JumpFollowing
  <2>4. CASE Jump(t, "lead", leds)
    BY <2>2, <2>4, JumpFollowing
  <2>5. CASE Wait(t, timer_period(t, timer1, Before(j.delay)), [task EXCEPT ![t].at = "lead"], leds)
    <3>1. ShooterAt("lead", leds)  BY <2>2
    <3> QED  BY <2>1, <2>2, <2>5, <3>1, GoWaitFollowing
  <2> QED  BY <1>4, <2>3, <2>4, <2>5 DEF delay
<1>5. CASE lead(t)
  <2>1. Stmt(t, "lead")  BY <1>5 DEF lead
  <2>2. leds = {} /\ cmd # "NOTHING"  BY <2>1, LedsAt
  <2>3. CASE Jump(t, "park", leds)
    BY <2>2, <2>3, JumpFollowing
  <2>4. CASE Wait(t, timer_period(t, timer1, Focus(j.delay)),
                  [task EXCEPT ![t].at = "led"], leds \cup {"focus"})
    <3>1. ShooterAt("led", leds \cup {"focus"})  BY <2>2
    <3> QED  BY <2>1, <2>2, <2>4, <3>1, GoWaitFollowing
  <2> QED  BY <1>5, <2>3, <2>4 DEF lead
<1>6. CASE led(t)
  <2>1. Stmt(t, "led")  BY <1>6 DEF led
  <2>2. leds = {"focus"} /\ cmd # "NOTHING" /\ "at" \in DOMAIN j  BY <2>1, LedsAt
  <2>3. CASE Jump(t, "park", leds \ {"focus"})
    <3>1. ShooterAt("park", leds \ {"focus"})  BY <2>2
    <3> QED  BY <2>3, <3>1, JumpFollowing
  <2>4. CASE expose(t, begun(j))
    <3>1. "at" \in DOMAIN begun(j)  BY <2>2 DEF begun
    <3> QED  BY <2>2, <2>4, <3>1, ExposeFollowing
  <2> QED  BY <1>6, <2>3, <2>4 DEF led
<1>7. CASE exposed(t)
  <2>1. Stmt(t, "exposed")  BY <1>7 DEF exposed
  <2>2. leds = {"shut"} /\ cmd # "NOTHING" /\ "at" \in DOMAIN j /\ DOMAIN task = Threads
    BY <2>1, LedsAt
  <2> DEFINE next == [task EXCEPT ![t].at = "gap", ![t].i = @ + 1,
                          ![t].speed = IF cmd = "HDR" THEN @ + set.step ELSE @]
             record == [j EXCEPT !.at = "gap", !.i = @ + 1,
                          !.speed = IF cmd = "HDR" THEN @ + set.step ELSE @]
             wait == IF cmd = "INTER" THEN timer_shift(t, timer1, Before(j.intv))
                                       ELSE timer_period(t, timer1, Before(j.intv))
  <2>3. next = [task EXCEPT ![Shooter] = record] /\ "at" \in DOMAIN record /\ record.at = "gap"
    BY <1>a, <2>2
  <2>4. ShooterAt("gap", leds \ {"shut"}) /\ ShooterAt("off", leds \ {"shut"})  BY <2>2
  <2>5. \/ Jump(t, "off", leds \ {"shut"})
        \/ task' = next /\ leds' = leds \ {"shut"} /\ cmd' = cmd
        \/ Wait(t, wait, next, leds \ {"shut"})
    BY <1>7 DEF exposed
  <2> HIDE DEF next, record, wait
  <2> QED  BY <2>2, <2>3, <2>4, <2>5, JumpFollowing, StepFollowing, WaitFollowing
<1>8. CASE gap(t)
  <2>1. Stmt(t, "gap")  BY <1>8 DEF gap
  <2>2. leds = {} /\ cmd # "NOTHING"  BY <2>1, LedsAt
  <2>3. CASE Jump(t, "off", leds)
    BY <2>2, <2>3, JumpFollowing
  <2>4. CASE Wait(t, timer_period(t, timer1, Focus(j.intv)),
                  [task EXCEPT ![t].at = "focused"], leds \cup {"focus"})
    <3>1. ShooterAt("focused", leds \cup {"focus"})  BY <2>2
    <3> QED  BY <2>1, <2>2, <2>4, <3>1, GoWaitFollowing
  <2> QED  BY <1>8, <2>3, <2>4 DEF gap
<1>9. CASE focused(t)
  <2>1. Stmt(t, "focused")  BY <1>9 DEF focused
  <2>2. leds = {"focus"} /\ cmd # "NOTHING" /\ "at" \in DOMAIN j  BY <2>1, LedsAt
  <2>3. CASE Jump(t, "off", leds \ {"focus"})
    <3>1. ShooterAt("off", leds \ {"focus"})  BY <2>2
    <3> QED  BY <2>2, <2>3, <3>1, JumpFollowing
  <2>4. CASE expose(t, j)
    BY <2>2, <2>4, ExposeFollowing
  <2> QED  BY <1>9, <2>3, <2>4 DEF focused
<1>10. CASE off(t)
  <2>1. /\ Stmt(t, "off") /\ leds' = leds
        /\ task' = [task EXCEPT ![Shooter] = At0("park")]
    BY <1>10 DEF off, ownVars
  <2>2. ShooterAt("park", leds')  BY <2>1, LedsAt
  <2>3. "at" \in DOMAIN At0("park") /\ At0("park").at = "park"  BY DEF At0
  <2> QED  BY <2>1, <2>2, <2>3, StepFollowing
<1> HIDE DEF ShooterAt, Calm, Focusing, Exposing, Between, Commanded
<1> QED
  BY <1>1, <1>2, <1>3, <1>4, <1>5, <1>6, <1>7, <1>8, <1>9, <1>10 DEF intervalometer_task
\* The prompt and the switch move themselves, and leave the LEDs and the command.
LEMMA PromptFollowing ==
  ASSUME Following, prompt_task(Prompt)
  PROVE  Following'
<1> DEFINE t == Prompt
<1>a. t \in Threads /\ t # Shooter  BY IntervalometerAssumption
<1>b. leds' = leds /\ cmd' = cmd
  BY DEF prompt_task, Enter, Reads, command, enterSettings, typed, ownVars
<1>c. ASSUME NEW at, Goto(t, at) PROVE Following'
  BY <1>a, <1>b, <1>c, OtherGoes
<1>d. ASSUME NEW record, task' = [task EXCEPT ![t] = record] PROVE Following'
  BY <1>a, <1>b, <1>d, OtherFollowing
<1>1. CASE Enter(t, "enter", "prompt")
  BY <1>1, <1>c DEF Enter
<1>2. ASSUME NEW from, NEW to, Reads(t, Line, from, to) PROVE Following'
  BY <1>2, <1>c DEF Reads, Local, WaitEvent
<1>3. CASE command(t)
  BY <1>3, <1>d DEF command, Call
<1>4. CASE enterSettings(t)
  BY <1>4, <1>c, <1>d DEF enterSettings
<1>5. CASE typed(t)
  <2> DEFINE next == IF task[t].n = 6 THEN At0("prompt")
                     ELSE [task[t] EXCEPT !.at = "typing", !.n = @ + 1]
  <2>1. task' = [task EXCEPT ![t] = next] \/ Goto(t, "typing")
    BY <1>5 DEF typed
  <2> HIDE DEF next
  <2> QED  BY <2>1, <1>c, <1>d
<1> QED  BY <1>1, <1>2, <1>3, <1>4, <1>5 DEF prompt_task

LEMMA SwitchFollowing ==
  ASSUME Following, switch_task(Switch)
  PROVE  Following'
<1> DEFINE t == Switch
<1>a. t \in Threads /\ t # Shooter  BY IntervalometerAssumption
<1>b. leds' = leds /\ cmd' = cmd
  BY DEF switch_task, waitSwitch, pressed, callFunc, debounce, ownVars
<1>c. ASSUME NEW at, Goto(t, at) PROVE Following'
  BY <1>a, <1>b, <1>c, OtherGoes
<1>1. ASSUME NEW at, NEW wait, NEW end, NEW then, waitSwitch(t, at, wait, end, then)
      PROVE  Following'
  BY <1>1, <1>c DEF waitSwitch, Enter, WaitEvent, Exit
<1>2. CASE pressed(t)
  BY <1>2, <1>c DEF pressed, Local
<1>3. CASE callFunc(t)
  <2>1. PICK at, then : task' = [task EXCEPT ![t] = [at |-> at, then |-> then]]
    BY <1>3 DEF callFunc, Call
  <2> QED  BY <2>1, <1>a, <1>b, OtherFollowing
<1>4. CASE debounce(t)
  BY <1>4, <1>c DEF debounce, TimerOn, Sleep, TimerOff
<1> QED  BY <1>1, <1>2, <1>3, <1>4 DEF switch_task

\* An interrupt and the kernel move no program.
LEMMA KernelFollowing ==
  ASSUME Following, UNCHANGED task, UNCHANGED ownVars
  PROVE  Following'
BY SameFollowing DEF Following, ownVars

LEMMA NextFollowing == Following /\ [InterNext]_interVars => Following'
<1> SUFFICES ASSUME Following, [InterNext]_interVars PROVE Following'
  OBVIOUS
<1>1. CASE KernelSteps({"isr"}) /\ UNCHANGED ownVars
  BY <1>1, KernelFollowing DEF KernelSteps
<1>2. ASSUME NEW t \in Threads, Tick(t, timer1) \/ Interrupt(t, Line), UNCHANGED ownVars
      PROVE  Following'
  BY <1>2, KernelFollowing DEF Tick, Interrupt
<1>3. ASSUME NEW t \in Threads, _port1_isr(t) PROVE Following'
  BY <1>3, KernelFollowing DEF _port1_isr
<1>4. CASE UNCHANGED interVars
  BY <1>4, KernelFollowing DEF interVars, programVars
<1> QED
  BY <1>1, <1>2, <1>3, <1>4, CommandsFollowing, ShooterFollowing, PromptFollowing,
     SwitchFollowing DEF InterNext

\* However a process ends, at a stop at any moment of it too, it leaves the camera
\* in peace: the shutter is open only during an exposure, never with the focus on,
\* and both are off when no process runs (intervalometer.c:101-111 and 169-244).
THEOREM CameraLeftInPeace == InterSpec => []LedsSafe
<1>1. InterInit => Following  BY InitFollowing
<1>2. Following /\ [InterNext]_interVars => Following'  BY NextFollowing
<1>3. Following => LedsSafe  BY FollowingSafe
<1> QED  BY <1>1, <1>2, <1>3, PTL DEF InterSpec

-----------------------------------------------------------------------------
(* The calendar of the demo program *)

\* The values of a dateTime_t, but for the width of its fields.
DateTime ==
  [century : Nat, year : Nat, month : Nat, day : Nat, hour : Nat, min : Nat, sec : Nat]

\* What dateTime_check lets pass, but for the day 0, which it does not look at.
Date == {dt \in DateTime : dateTime_check(dt) /\ dt.day # 0}

\* The comparison of date-time.c:85-101 is a total order: any two date-times
\* compare, both ways only if they are the same, and comparisons chain.
THEOREM ComparisonIsTotalOrder ==
  ASSUME NEW a \in DateTime, NEW b \in DateTime, NEW c \in DateTime
  PROVE  /\ dateTime_isGreaterOrEqual(a, b) \/ dateTime_isGreaterOrEqual(b, a)
         /\ dateTime_isGreaterOrEqual(a, b) /\ dateTime_isGreaterOrEqual(b, a) => a = b
         /\ dateTime_isGreaterOrEqual(a, b) /\ dateTime_isGreaterOrEqual(b, c)
              => dateTime_isGreaterOrEqual(a, c)
<1>1. dateTime_isGreaterOrEqual(a, b) \/ dateTime_isGreaterOrEqual(b, a)
  BY DEF DateTime, dateTime_isGreaterOrEqual
<1>2. dateTime_isGreaterOrEqual(a, b) /\ dateTime_isGreaterOrEqual(b, a) => a = b
  BY DEF DateTime, dateTime_isGreaterOrEqual
<1>3. dateTime_isGreaterOrEqual(a, b) /\ dateTime_isGreaterOrEqual(b, c)
        => dateTime_isGreaterOrEqual(a, c)
  BY DEF DateTime, dateTime_isGreaterOrEqual
<1> QED BY <1>1, <1>2, <1>3

\* A date-time whose fields from the seconds, or from the day, up are replaced.
LEMMA Replaced ==
  ASSUME NEW dt \in DateTime, NEW u \in Nat, NEW v \in Nat
  PROVE  /\ [dt EXCEPT !.sec = u, !.min = v] \in DateTime
         /\ [dt EXCEPT !.day = u, !.month = v] \in DateTime
         /\ \A w \in Nat :
              /\ [dt EXCEPT !.sec = u, !.min = v, !.hour = w] \in DateTime
              /\ [dt EXCEPT !.day = u, !.month = v, !.year = w] \in DateTime
              /\ \A x \in Nat :
                   [dt EXCEPT !.day = u, !.month = v, !.year = w, !.century = x] \in DateTime
<1>1. /\ [dt EXCEPT !.sec = u, !.min = v] \in DateTime
      /\ [dt EXCEPT !.day = u, !.month = v] \in DateTime
  BY DEF DateTime
<1>2. ASSUME NEW w \in Nat
      PROVE  /\ [dt EXCEPT !.sec = u, !.min = v, !.hour = w] \in DateTime
             /\ [dt EXCEPT !.day = u, !.month = v, !.year = w] \in DateTime
  BY DEF DateTime
<1>3. ASSUME NEW w \in Nat, NEW x \in Nat
      PROVE  [dt EXCEPT !.day = u, !.month = v, !.year = w, !.century = x] \in DateTime
  BY DEF DateTime
<1> QED
  BY ONLY <1>1, <1>2, <1>3, Zenon

\* A month has from 28 to 31 days.
LEMMA MonthLength ==
  ASSUME NEW dt \in DateTime, dt.month <= december
  PROVE  _getMonthDaysQty(dt) \in 28 .. 31
BY DEF DateTime, december, february, _getMonthDaysQty, monthDaysQty

\* How many days the month has depends on no field below the month.
LEMMA MonthLengthOf ==
  ASSUME NEW a \in DateTime, NEW b \in DateTime,
         a.century = b.century, a.year = b.year, a.month = b.month
  PROVE  _getMonthDaysQty(a) = _getMonthDaysQty(b)
BY DEF _getMonthDaysQty, _isLeapYear, dateTime_getYear

\* A second more on the same day.
LEMMA SameDay ==
  ASSUME NEW dt \in Date, dt.sec < 59 \/ dt.min < 59 \/ dt.hour < 23
  PROVE  LET next == dateTime_incSec(dt) IN
         /\ next \in DateTime
         /\ next.century = dt.century /\ next.year = dt.year
         /\ next.month = dt.month /\ next.day = dt.day
         /\ next.hour <= 23 /\ next.min <= 59 /\ next.sec <= 59
         /\ \/ next.hour = dt.hour /\ next.min = dt.min /\ next.sec = dt.sec + 1
            \/ dt.sec = 59 /\ next.hour = dt.hour /\ next.min = dt.min + 1 /\ next.sec = 0
            \/ /\ dt.sec = 59 /\ dt.min = 59
               /\ next.hour = dt.hour + 1 /\ next.min = 0 /\ next.sec = 0
<1> DEFINE next == dateTime_incSec(dt)
<1>1. dt \in DateTime /\ dt.hour <= 23 /\ dt.min <= 59 /\ dt.sec <= 59
  BY DEF Date, dateTime_check
<1>2. dt.sec + 1 \in Nat /\ dt.min + 1 \in Nat /\ dt.hour + 1 \in Nat
  BY <1>1 DEF DateTime
<1>3. CASE dt.sec < 59
  <2>1. dateTime_incSec(dt) = [dt EXCEPT !.sec = @ + 1]
    BY <1>3 DEF dateTime_incSec
  <2> QED BY <1>1, <1>3, <2>1 DEF DateTime
<1>4. CASE ~ (dt.sec < 59) /\ dt.min < 59
  <2>1. dateTime_incSec(dt) = [dt EXCEPT !.sec = 0, !.min = @ + 1]
    BY <1>4 DEF dateTime_incSec
  <2>2. next \in DateTime
    <3>1. [dt EXCEPT !.sec = 0, !.min = dt.min + 1] \in DateTime
      BY <1>2, <1>1, Replaced, Zenon
    <3> QED BY <2>1, <3>1
  <2>3. /\ next.century = dt.century /\ next.year = dt.year
        /\ next.month = dt.month /\ next.day = dt.day
        /\ next.sec = 0 /\ next.min = dt.min + 1 /\ next.hour = dt.hour
    BY <1>1, <2>1 DEF DateTime
  <2> QED BY <1>1, <1>4, <2>2, <2>3 DEF DateTime
<1>5. CASE ~ (dt.sec < 59) /\ ~ (dt.min < 59) /\ dt.hour < 23
  <2>1. dateTime_incSec(dt) = [dt EXCEPT !.sec = 0, !.min = 0, !.hour = @ + 1]
    BY <1>5 DEF dateTime_incSec
  <2>2. next \in DateTime
    <3>1. [dt EXCEPT !.sec = 0, !.min = 0, !.hour = dt.hour + 1] \in DateTime
      BY <1>2, <1>1, Replaced, Zenon
    <3> QED BY <2>1, <3>1
  <2>3. /\ next.century = dt.century /\ next.year = dt.year
        /\ next.month = dt.month /\ next.day = dt.day
        /\ next.sec = 0 /\ next.min = 0 /\ next.hour = dt.hour + 1
    BY <1>1, <2>1 DEF DateTime
  <2> QED BY <1>1, <1>5, <2>2, <2>3 DEF DateTime
<1> QED BY <1>3, <1>4, <1>5

\* A second more at midnight: the day, the month, the year or the century is next.
LEMMA NextDay ==
  ASSUME NEW dt \in Date, ~ (dt.sec < 59 \/ dt.min < 59 \/ dt.hour < 23)
  PROVE  LET next == dateTime_incSec(dt)
             days  == _getMonthDaysQty(dt)
         IN
         /\ dt.sec = 59 /\ dt.min = 59 /\ dt.hour = 23
         /\ next \in DateTime /\ next.sec = 0 /\ next.min = 0 /\ next.hour = 0
         /\ \/ /\ dt.day < days /\ next.day = dt.day + 1 /\ next.month = dt.month
               /\ next.year = dt.year /\ next.century = dt.century
            \/ /\ dt.day = days /\ next.day = 1 /\ dt.month < 11 /\ next.month = dt.month + 1
               /\ next.year = dt.year /\ next.century = dt.century
            \/ /\ dt.day = days /\ next.day = 1 /\ dt.month = 11 /\ next.month = 0
               /\ dt.year < 99 /\ next.year = dt.year + 1 /\ next.century = dt.century
            \/ /\ dt.day = days /\ next.day = 1 /\ dt.month = 11 /\ next.month = 0
               /\ dt.year = 99 /\ next.year = 0 /\ next.century = dt.century + 1
<1> DEFINE next == dateTime_incSec(dt)
           midnight == [dt EXCEPT !.sec = 0, !.min = 0, !.hour = 0]
           days == _getMonthDaysQty(dt)
<1>1. dt \in DateTime /\ dt.day <= days /\ dt.month <= 11 /\ dt.year <= 99
  BY DEF Date, dateTime_check, december
<1>2. dt.sec = 59 /\ dt.min = 59 /\ dt.hour = 23
  BY <1>1 DEF Date, DateTime, dateTime_check
<1>3. /\ midnight \in DateTime /\ midnight.sec = 0 /\ midnight.min = 0 /\ midnight.hour = 0
      /\ midnight.day = dt.day /\ midnight.month = dt.month
      /\ midnight.year = dt.year /\ midnight.century = dt.century
  <2>1. midnight \in DateTime
    BY <1>1 DEF DateTime
  <2>2. /\ midnight.sec = 0 /\ midnight.min = 0 /\ midnight.hour = 0
        /\ midnight.day = dt.day /\ midnight.month = dt.month
        /\ midnight.year = dt.year /\ midnight.century = dt.century
    BY <1>1 DEF DateTime
  <2> QED
    BY <2>1, <2>2
<1>4. dateTime_incSec(dt) = incDay(midnight)
  BY Zenon DEF dateTime_incSec
<1> HIDE DEF midnight
<1>5. /\ midnight.day + 1 \in Nat /\ midnight.month + 1 \in Nat
       /\ midnight.year + 1 \in Nat /\ midnight.century + 1 \in Nat
  BY <1>3 DEF DateTime
<1>6. _getMonthDaysQty(midnight) = days
  BY <1>1, <1>3, MonthLengthOf
<1>7. days \in Nat
  BY <1>1, MonthLength DEF december
<1>8. _getMonthDaysQty(midnight) = days /\ days \in Nat
  BY <1>6, <1>7
<1> HIDE DEF days
<1>9. CASE dt.day < days
  <2>1. incDay(midnight) = [midnight EXCEPT !.day = @ + 1]
    BY <1>3, <1>8, <1>9 DEF incDay
  <2> QED BY <1>1, <1>2, <1>3, <1>4, <1>9, <2>1 DEF DateTime, days
<1>10. CASE dt.day = days /\ dt.month < 11
  <2>1. incDay(midnight) = [midnight EXCEPT !.day = 1, !.month = @ + 1]
    BY <1>3, <1>8, <1>10 DEF incDay, december
  <2>2. next \in DateTime
    <3>1. [midnight EXCEPT !.day = 1, !.month = midnight.month + 1] \in DateTime
      BY <1>3, <1>5, Replaced, Zenon
    <3> QED BY <1>4, <2>1, <3>1
  <2>3. /\ next.sec = 0 /\ next.min = 0 /\ next.hour = 0 /\ next.day = 1
        /\ next.month = dt.month + 1 /\ next.year = dt.year /\ next.century = dt.century
    BY <1>3, <1>4, <2>1 DEF DateTime
  <2> QED BY <1>2, <1>10, <2>2, <2>3 DEF days
<1>11. CASE dt.day = days /\ dt.month = 11 /\ dt.year < 99
  <2>1. incDay(midnight) = [midnight EXCEPT !.day = 1, !.month = 0, !.year = @ + 1]
    BY <1>3, <1>8, <1>11 DEF incDay, december, january
  <2>2. next \in DateTime
    <3>1. [midnight EXCEPT !.day = 1, !.month = 0, !.year = midnight.year + 1] \in DateTime
      BY <1>3, <1>5, Replaced, Zenon
    <3> QED BY <1>4, <2>1, <3>1
  <2>3. /\ next.sec = 0 /\ next.min = 0 /\ next.hour = 0 /\ next.day = 1
        /\ next.month = 0 /\ next.year = dt.year + 1 /\ next.century = dt.century
    BY <1>3, <1>4, <2>1 DEF DateTime
  <2> QED BY <1>2, <1>11, <2>2, <2>3 DEF days
<1>12. CASE dt.day = days /\ dt.month = 11 /\ dt.year = 99
  <2>1. incDay(midnight) = [midnight EXCEPT !.day = 1, !.month = 0, !.year = 0, !.century = @ + 1]
    BY <1>3, <1>8, <1>12 DEF incDay, december, january
  <2>2. next \in DateTime
    <3>1. [midnight EXCEPT !.day = 1, !.month = 0, !.year = 0,
                           !.century = midnight.century + 1] \in DateTime
      BY <1>3, <1>5, Replaced, Zenon
    <3> QED BY <1>4, <2>1, <3>1
  <2>3. /\ next.sec = 0 /\ next.min = 0 /\ next.hour = 0 /\ next.day = 1
        /\ next.month = 0 /\ next.year = 0 /\ next.century = dt.century + 1
    BY <1>3, <1>4, <2>1 DEF DateTime
  <2> QED BY <1>2, <1>12, <2>2, <2>3 DEF days
<1> QED
  <2>1. dt.day < days \/ dt.day = days
    BY <1>1, <1>8 DEF DateTime
  <2>2. dt.month < 11 \/ dt.month = 11
    BY <1>1 DEF DateTime
  <2>3. dt.year < 99 \/ dt.year = 99
    BY <1>1 DEF DateTime
  <2> QED BY <1>9, <1>10, <1>11, <1>12, <2>1, <2>2, <2>3

\* The clock of the demo never shows a date that does not exist
\* (date-time.c:68-82): a second after a date is a date.
THEOREM SecondAfterDateIsDate ==
  ASSUME NEW dt \in Date
  PROVE  dateTime_incSec(dt) \in Date
<1> DEFINE next == dateTime_incSec(dt)
<1>1. /\ dt \in DateTime /\ dt.day <= _getMonthDaysQty(dt) /\ dt.day # 0
      /\ dt.month <= 11 /\ dt.year <= 99 /\ dt.century # 0
  BY DEF Date, dateTime_check, december
<1>2. CASE dt.sec < 59 \/ dt.min < 59 \/ dt.hour < 23
  <2>1. /\ next \in DateTime /\ next.century = dt.century /\ next.year = dt.year
        /\ next.month = dt.month /\ next.day = dt.day
        /\ next.hour <= 23 /\ next.min <= 59 /\ next.sec <= 59
    BY <1>2, SameDay
  <2> HIDE DEF next
  <2>2. _getMonthDaysQty(next) = _getMonthDaysQty(dt)
    BY <1>1, <2>1, MonthLengthOf
  <2>3. next \in Date
    BY <1>1, <2>1, <2>2 DEF Date, dateTime_check, december
  <2> QED BY <2>3 DEF next
<1>3. CASE ~ (dt.sec < 59 \/ dt.min < 59 \/ dt.hour < 23)
  <2>1. /\ next \in DateTime /\ next.sec = 0 /\ next.min = 0 /\ next.hour = 0
        /\ \/ /\ dt.day < _getMonthDaysQty(dt) /\ next.day = dt.day + 1
              /\ next.month = dt.month /\ next.year = dt.year /\ next.century = dt.century
           \/ /\ next.day = 1 /\ next.month <= 11 /\ next.year <= 99 /\ next.century # 0
    BY <1>1, <1>3, NextDay DEF DateTime
  <2> HIDE DEF next
  <2>2. next.month <= 11 /\ next.year <= 99 /\ next.century # 0 /\ next.day # 0
    BY <1>1, <2>1 DEF DateTime
  <2>3. next.day <= _getMonthDaysQty(next)
    <3>1. CASE next.day = 1
      BY <2>1, <2>2, <3>1, MonthLength DEF december
    <3>2. CASE next.day # 1
      <4>1. /\ next.month = dt.month /\ next.year = dt.year /\ next.century = dt.century
            /\ next.day = dt.day + 1 /\ dt.day < _getMonthDaysQty(dt)
        BY <2>1, <3>2
      <4>2. _getMonthDaysQty(next) = _getMonthDaysQty(dt) /\ _getMonthDaysQty(dt) \in Nat
        BY <1>1, <2>1, <4>1, MonthLength, MonthLengthOf DEF december
      <4> QED BY <1>1, <4>1, <4>2 DEF DateTime
    <3> QED BY <3>1, <3>2
  <2>4. next \in Date
    BY <2>1, <2>2, <2>3 DEF Date, dateTime_check, december
  <2> QED BY <2>4 DEF next
<1> QED BY <1>2, <1>3

\* The clock of the demo leaves no second out and tells none twice
\* (date-time.c:68-82): what it shows next is later, and every other later date
\* comes after it.
THEOREM SecondAfterIsNext ==
  ASSUME NEW dt \in Date
  PROVE  /\ dateTime_isGreaterOrEqual(dateTime_incSec(dt), dt) /\ dateTime_incSec(dt) # dt
         /\ \A x \in Date :
              dateTime_isGreaterOrEqual(x, dt) /\ x # dt
                => dateTime_isGreaterOrEqual(x, dateTime_incSec(dt))
<1> DEFINE next == dateTime_incSec(dt)
<1>1. dt \in DateTime /\ dt.sec <= 59 /\ dt.min <= 59 /\ dt.hour <= 23
  BY DEF Date, dateTime_check
<1>2. CASE dt.sec < 59 \/ dt.min < 59 \/ dt.hour < 23
  <2>1. /\ next \in DateTime /\ next.century = dt.century /\ next.year = dt.year
        /\ next.month = dt.month /\ next.day = dt.day
        /\ \/ next.hour = dt.hour /\ next.min = dt.min /\ next.sec = dt.sec + 1
           \/ dt.sec = 59 /\ next.hour = dt.hour /\ next.min = dt.min + 1 /\ next.sec = 0
           \/ /\ dt.sec = 59 /\ dt.min = 59
              /\ next.hour = dt.hour + 1 /\ next.min = 0 /\ next.sec = 0
    BY <1>2, SameDay
  <2> HIDE DEF next
  <2>2. dateTime_isGreaterOrEqual(next, dt) /\ next # dt
    BY <1>1, <2>1 DEF DateTime, dateTime_isGreaterOrEqual
  <2>3. ASSUME NEW x \in Date, dateTime_isGreaterOrEqual(x, dt), x # dt
        PROVE  dateTime_isGreaterOrEqual(x, next)
    <3>1. x \in DateTime /\ x.sec <= 59 /\ x.min <= 59 /\ x.hour <= 23
      BY DEF Date, dateTime_check
    <3> QED BY <1>1, <2>1, <2>3, <3>1 DEF DateTime, dateTime_isGreaterOrEqual
  <2> QED BY <2>2, <2>3 DEF next
<1>3. CASE ~ (dt.sec < 59 \/ dt.min < 59 \/ dt.hour < 23)
  <2> DEFINE days == _getMonthDaysQty(dt)
  <2>1. /\ dt.sec = 59 /\ dt.min = 59 /\ dt.hour = 23
        /\ next \in DateTime /\ next.sec = 0 /\ next.min = 0 /\ next.hour = 0
        /\ \/ /\ dt.day < days /\ next.day = dt.day + 1 /\ next.month = dt.month
              /\ next.year = dt.year /\ next.century = dt.century
           \/ /\ dt.day = days /\ next.day = 1 /\ dt.month < 11 /\ next.month = dt.month + 1
              /\ next.year = dt.year /\ next.century = dt.century
           \/ /\ dt.day = days /\ next.day = 1 /\ dt.month = 11 /\ next.month = 0
              /\ dt.year < 99 /\ next.year = dt.year + 1 /\ next.century = dt.century
           \/ /\ dt.day = days /\ next.day = 1 /\ dt.month = 11 /\ next.month = 0
              /\ dt.year = 99 /\ next.year = 0 /\ next.century = dt.century + 1
    BY <1>3, NextDay
  <2> HIDE DEF next
  <2>2. dateTime_isGreaterOrEqual(next, dt) /\ next # dt
    BY <1>1, <2>1 DEF DateTime, dateTime_isGreaterOrEqual
  <2>3. ASSUME NEW x \in Date, dateTime_isGreaterOrEqual(x, dt), x # dt
        PROVE  dateTime_isGreaterOrEqual(x, next)
    <3>1. /\ x \in DateTime /\ x.sec <= 59 /\ x.min <= 59 /\ x.hour <= 23
          /\ x.day # 0 /\ x.month <= 11 /\ x.year <= 99
      BY DEF Date, dateTime_check, december
    <3>2. x.century = dt.century /\ x.year = dt.year /\ x.month = dt.month => x.day <= days
      BY <1>1, <3>1, MonthLengthOf DEF Date, dateTime_check
    <3>3. \/ x.century > dt.century
          \/ x.century = dt.century /\ x.year > dt.year
          \/ x.century = dt.century /\ x.year = dt.year /\ x.month > dt.month
          \/ x.century = dt.century /\ x.year = dt.year /\ x.month = dt.month /\ x.day > dt.day
      BY <1>1, <2>1, <2>3, <3>1 DEF DateTime, dateTime_isGreaterOrEqual
    <3> HIDE DEF days
    <3> QED BY <1>1, <2>1, <3>1, <3>2, <3>3 DEF DateTime, dateTime_isGreaterOrEqual
  <2> QED BY <2>2, <2>3 DEF next
<1> QED BY <1>2, <1>3

-----------------------------------------------------------------------------
(* The points of a thread that interrupt routines interrupt, again and again    *)
(* while they wait to go on.  Level(S, n) has those of S under n routines.       *)

Interrupted(S) == [at : {"isr"}, on : {NULL}, back : S]

Levels(S, n, f) == f = [i \in 0 .. n |-> IF i = 0 THEN S ELSE Interrupted(f[i - 1])]
Level(S, n)     == (CHOOSE f : Levels(S, n, f))[n]
Frames(S)       == UNION {Level(S, n) : n \in Nat}

LEMMA LevelsNext ==
  ASSUME NEW S, NEW n \in Nat, NEW f, Levels(S, n, f)
  PROVE  \E g : Levels(S, n + 1, g)
<1> DEFINE g == [i \in 0 .. n + 1 |-> IF i = 0 THEN S ELSE Interrupted(f[i - 1])]
<1>1. ASSUME NEW i \in 0 .. n PROVE g[i] = f[i]
  BY DEF Levels
<1>2. ASSUME NEW i \in 0 .. n + 1, i # 0 PROVE g[i] = Interrupted(g[i - 1])
  <2>1. i - 1 \in 0 .. n
    BY <1>2
  <2>2. g[i] = Interrupted(f[i - 1])
    BY <1>2
  <2> HIDE DEF g
  <2> QED
    BY <2>1, <2>2, <1>1
<1>3. g[0] = S
  OBVIOUS
<1>4. \A i \in 0 .. n + 1 : g[i] = IF i = 0 THEN S ELSE Interrupted(g[i - 1])
  BY <1>2, <1>3
<1>5. g = [i \in 0 .. n + 1 |-> g[i]]
  OBVIOUS
<1> HIDE DEF g
<1>6. g = [i \in 0 .. n + 1 |-> IF i = 0 THEN S ELSE Interrupted(g[i - 1])]
  BY <1>4, <1>5
<1> QED
  BY <1>6 DEF Levels

LEMMA LevelsExist ==
  ASSUME NEW S, NEW n \in Nat
  PROVE  \E f : Levels(S, n, f)
<1> DEFINE Bad == {i \in Nat : ~ \E f : Levels(S, i, f)}
<1> SUFFICES ASSUME Bad # {} PROVE FALSE
  OBVIOUS
<1>1. PICK i \in Bad : \A j \in Bad : i <= j
  BY LeastElement
<1>2. i # 0
  <2>1. Levels(S, 0, [j \in 0 .. 0 |-> S])
    BY DEF Levels
  <2> QED
    BY <2>1
<1>3. i - 1 \in Nat /\ i - 1 \notin Bad
  BY <1>1, <1>2
<1>4. PICK f : Levels(S, i - 1, f)
  BY <1>3
<1>5. \E g : Levels(S, i - 1 + 1, g)
  BY <1>3, <1>4, LevelsNext
<1>6. i - 1 + 1 = i
  BY <1>1
<1> QED
  BY <1>1, <1>5, <1>6

LEMMA LevelsAgree ==
  ASSUME NEW S, NEW n \in Nat, NEW m \in Nat, NEW f, NEW g,
         Levels(S, n, f), Levels(S, m, g), NEW i \in Nat, i <= n, i <= m
  PROVE  f[i] = g[i]
<1> DEFINE Bad == {j \in Nat : j <= n /\ j <= m /\ f[j] # g[j]}
<1> SUFFICES ASSUME Bad # {} PROVE FALSE
  OBVIOUS
<1>1. PICK j \in Bad : \A l \in Bad : j <= l
  BY LeastElement
<1>2. f[0] = S /\ g[0] = S
  BY DEF Levels
<1>3. j # 0
  BY <1>1, <1>2
<1>4. f[j] = Interrupted(f[j - 1]) /\ g[j] = Interrupted(g[j - 1])
  BY <1>1, <1>3 DEF Levels
<1>5. j - 1 \in Nat /\ j - 1 <= n /\ j - 1 <= m /\ ~ (j <= j - 1)
  BY <1>1, <1>3
<1>6. j - 1 \notin Bad
  BY <1>1, <1>5
<1>7. f[j - 1] = g[j - 1]
  BY <1>5, <1>6
<1> QED
  BY <1>1, <1>4, <1>7

LEMMA LevelIs ==
  ASSUME NEW S, NEW n \in Nat
  PROVE  /\ Level(S, 0) = S
         /\ Level(S, n + 1) = Interrupted(Level(S, n))
<1>1. PICK f : f = (CHOOSE g : Levels(S, n, g)) /\ Levels(S, n, f)
  BY LevelsExist
<1>2. PICK h : h = (CHOOSE g : Levels(S, n + 1, g)) /\ Levels(S, n + 1, h)
  BY LevelsExist
<1>3. PICK z : z = (CHOOSE g : Levels(S, 0, g)) /\ Levels(S, 0, z)
  BY LevelsExist
<1>4. Level(S, n) = f[n] /\ Level(S, n + 1) = h[n + 1] /\ Level(S, 0) = z[0]
  BY <1>1, <1>2, <1>3 DEF Level
<1>5. z[0] = S
  BY <1>3 DEF Levels
<1>6. h[n + 1] = Interrupted(h[n + 1 - 1])
  <2>1. Levels(S, n + 1, h)
    BY <1>2
  <2>2. n + 1 \in 0 .. n + 1 /\ n + 1 # 0
    OBVIOUS
  <2> QED
    BY ONLY <2>1, <2>2 DEF Levels
<1>7. n + 1 - 1 = n /\ n <= n /\ n <= n + 1
  OBVIOUS
<1>8. h[n] = f[n]
  BY <1>1, <1>2, <1>7, LevelsAgree
<1> QED
  BY <1>4, <1>5, <1>6, <1>7, <1>8

\* A frame is a point of S, or a routine over a frame.
LEMMA FramesAre ==
  ASSUME NEW S, NEW p
  PROVE  /\ S \subseteq Frames(S)
         /\ p \in Frames(S) <=> p \in S \/ p \in Interrupted(Frames(S))
<1>1. S \subseteq Frames(S)
  <2>1. Level(S, 0) = S
    BY LevelIs
  <2> QED
    BY <2>1 DEF Frames
<1>2. ASSUME p \in Frames(S) PROVE p \in S \/ p \in Interrupted(Frames(S))
  <2>1. PICK n \in Nat : p \in Level(S, n)
    BY <1>2 DEF Frames
  <2>2. CASE n = 0
    BY <2>1, <2>2, LevelIs
  <2>3. CASE n # 0
    <3>1. PICK m \in Nat : n = m + 1
      <4>1. n - 1 \in Nat /\ n = n - 1 + 1
        BY <2>3
      <4> QED
        BY <4>1
    <3>2. p \in Interrupted(Level(S, m))
      BY <2>1, <3>1, LevelIs
    <3>3. Level(S, m) \subseteq Frames(S)
      BY DEF Frames
    <3> QED
      BY <3>2, <3>3 DEF Interrupted
  <2> QED
    BY <2>2, <2>3
<1>3. ASSUME p \in Interrupted(Frames(S)) PROVE p \in Frames(S)
  <2>1. p.back \in Frames(S) /\ p = [at |-> "isr", on |-> NULL, back |-> p.back]
    BY <1>3 DEF Interrupted
  <2>2. PICK n \in Nat : p.back \in Level(S, n)
    BY <2>1 DEF Frames
  <2>3. p \in Interrupted(Level(S, n))
    BY <2>1, <2>2 DEF Interrupted
  <2>4. p \in Level(S, n + 1) /\ n + 1 \in Nat
    BY <2>3, LevelIs
  <2> QED
    BY <2>4 DEF Frames
<1> QED
  BY <1>1, <1>2, <1>3

-----------------------------------------------------------------------------
(* The lists of the intervalometer *)

\* Where a thread is that was started: at no call but those it makes.
Base(t) ==
  {p \in TimerPoints :
     /\ p.at \notin {"new", "boot", "suspend"} /\ "timer" \notin DOMAIN p
     /\ t = Background => p.at \in Home
     /\ In(p) = {} \/ <<t, In(p)>> \in TimerUses}

InterPoints == TimerPoints \cup UNION {Frames(Base(t)) : t \in Threads}

\* A frame of t, and a routine over it.
LEMMA FramePoint ==
  ASSUME NEW t \in Threads, NEW p \in Frames(Base(t))
  PROVE  /\ p \in InterPoints
         /\ p.at \notin {"new", "boot", "suspend"} /\ "timer" \notin DOMAIN p
         /\ t = Background => p.at \in Home
         /\ In(p) = {} \/ <<t, In(p)>> \in TimerUses
         /\ p.at = "isr" => In(p) = {} /\ p.back \in Frames(Base(t))
         /\ LET q == [at |-> "isr", on |-> NULL, back |-> p] IN
            q \in Frames(Base(t)) /\ In(q) = {} /\ q.at = "isr"
<1> DEFINE q == [at |-> "isr", on |-> NULL, back |-> p]
<1>1. q \in Interrupted(Frames(Base(t))) /\ In(q) = {} /\ q.at = "isr"
  BY DEF Interrupted, In
<1>2. q \in Frames(Base(t))
  BY <1>1, FramesAre
<1>3. p \in InterPoints
  BY DEF InterPoints
<1>4. CASE p \in Interrupted(Frames(Base(t)))
  <2>1. /\ p.at = "isr" /\ p.on = NULL /\ p.back \in Frames(Base(t))
        /\ "timer" \notin DOMAIN p
    BY <1>4 DEF Interrupted
  <2>2. In(p) = {}
    BY <2>1 DEF In
  <2> QED
    BY <1>1, <1>2, <1>3, <2>1, <2>2 DEF Home
<1>5. CASE p \in Base(t)
  <2>1. p.at # "isr"
    BY <1>5 DEF Base, TimerPoints, EventPoints, KernelPoints, At, Inside, TimerLabels
  <2> QED
    BY <1>1, <1>2, <1>3, <1>5, <2>1 DEF Base
<1> QED
  BY <1>4, <1>5, FramesAre

LEMMA InterPointsSeated == Seated(InterPoints)
<1>1. Seated(TimerPoints) /\ Timed(TimerPoints)
  BY TimerPointsSeated DEF Seated
<1>2. ASSUME NEW p \in InterPoints
      PROVE  \/ p \in TimerPoints
             \/ p.at = "isr" /\ In(p) = {} /\ "timer" \notin DOMAIN p
  <2>1. CASE p \in TimerPoints
    BY <2>1
  <2>2. CASE p \notin TimerPoints
    <3>1. PICK t \in Threads : p \in Frames(Base(t))
      BY <2>2 DEF InterPoints
    <3>2. p \in Base(t) \/ p \in Interrupted(Frames(Base(t)))
      BY <3>1, FramesAre
    <3>3. p \in Interrupted(Frames(Base(t)))
      BY <2>2, <3>2 DEF Base
    <3>4. p.at = "isr"
      BY <3>3 DEF Interrupted
    <3> QED
      BY <3>1, <3>4, FramePoint
  <2> QED
    BY <2>1, <2>2
<1>3. TimerPoints \subseteq InterPoints
  BY DEF InterPoints
<1>4. Timed(InterPoints)
  BY <1>1, <1>2, <1>3 DEF Timed, TimerLabels
<1>5. ASSUME NEW p \in InterPoints
      PROVE  /\ In(p) \subseteq Lists
             /\ p.at \in Home \cup {"new", "suspend"} => In(p) = {}
             /\ p.at \in {"event_wait", "eventTimer_wait"} \cup TimerLabels =>
                  In(p) \subseteq Events \cup TickLists
             /\ p.at \in TimerLabels => In(p) = {p.on}
             /\ "timer" \in DOMAIN p => p.on \in PriorLists /\ p.timer \in TickLists
  <2>1. CASE p \in TimerPoints
    BY <1>1, <2>1 DEF Seated
  <2>2. CASE p \notin TimerPoints
    BY <1>2, <2>2 DEF TimerLabels
  <2> QED
    BY <2>1, <2>2
<1> QED
  BY <1>4, <1>5 DEF Seated

LEMMA InBase ==
  ASSUME NEW t \in Threads, NEW p \in TimerPoints, NEW label, p.at = label,
         label \notin {"new", "boot", "suspend"}, "timer" \notin DOMAIN p,
         t # Background, NEW x, In(p) = x, <<t, x>> \in TimerUses
  PROVE  p \in Base(t)
BY DEF Base

\* The points that the calls of the program lead to.
LEMMA BasePoints ==
  ASSUME NEW t \in Threads
  PROVE  /\ \A label \in {"run", "user", "yield"} : At(label) \in Frames(Base(t))
         /\ \A e \in Events : <<t, e>> \in EventUsers =>
              Inside("event_wait", e) \in Frames(Base(t)) /\ In(Inside("event_wait", e)) = {e}
         /\ \A label \in TimerCalls, tm \in TickLists, time \in Times : t \in TimerUsers =>
              LET p == [at |-> label, on |-> tm, tmp |-> time] IN
              p \in Frames(Base(t)) /\ In(p) = {tm}
<1>1. ASSUME NEW label \in {"run", "user", "yield"} PROVE At(label) \in Base(t)
  <2>1. In(At(label)) = {} /\ At(label).at = label /\ "timer" \notin DOMAIN At(label)
    BY NotIn
  <2> QED
    BY <2>1 DEF Base, TimerPoints, EventPoints, KernelPoints, Home
<1>2. ASSUME NEW e \in Events, <<t, e>> \in EventUsers
      PROVE  Inside("event_wait", e) \in Base(t) /\ In(Inside("event_wait", e)) = {e}
  <2> DEFINE p == Inside("event_wait", e)
  <2>1. e \in Lists /\ t # Background
    BY <1>2, EventAssumption, ListAssumption DEF Lists
  <2>2. In(p) = {e} /\ p.at = "event_wait" /\ "timer" \notin DOMAIN p
    BY <2>1, InsideIn DEF Inside
  <2>3. p \in TimerPoints
    BY DEF TimerPoints, EventPoints
  <2>4. <<t, {e}>> \in TimerUses
    <3>1. <<t, e>> \in EventUsers /\ <<t, e>>[1] = t /\ <<t, e>>[2] = e
      BY <1>2
    <3> QED
      BY <3>1 DEF TimerUses
  <2>5. p.at \notin {"new", "boot", "suspend"}
    BY <2>2
  <2> HIDE DEF p
  <2>6. p \in Base(t)
    BY ONLY <2>1, <2>2, <2>3, <2>4, <2>5, t \in Threads, InBase
  <2> QED
    BY <2>2, <2>6 DEF p
<1>3. ASSUME NEW label \in TimerCalls, NEW tm \in TickLists, NEW time \in Times, t \in TimerUsers
      PROVE  LET p == [at |-> label, on |-> tm, tmp |-> time] IN
             p \in Base(t) /\ In(p) = {tm}
  <2> DEFINE p == [at |-> label, on |-> tm, tmp |-> time]
  <2>1. t # Background /\ label \in TimerLabels /\ tm # NULL
    BY <1>3, TimerAssumption, ListAssumption, AddressAssumption DEF Lists
  <2>2. p.at = label /\ "timer" \notin DOMAIN p /\ In(p) = {tm}
    BY <2>1 DEF In
  <2>3. p \in TimerPoints
    BY <2>1 DEF TimerPoints
  <2>4. <<t, {tm}>> \in TimerUses
    BY <1>3 DEF TimerUses
  <2>5. p.at \notin {"new", "boot", "suspend"}
    BY <2>1, <2>2 DEF TimerLabels
  <2> HIDE DEF p
  <2>6. p \in Base(t)
    BY ONLY <2>1, <2>2, <2>3, <2>4, <2>5, t \in Threads, InBase
  <2> QED
    BY <2>2, <2>6 DEF p
<1> QED
  BY <1>1, <1>2, <1>3, FramesAre


-----------------------------------------------------------------------------
(* What the steps of the program do to the lists. *)

Framed ==
  \A t \in Threads :
    \/ pc[t] \in Frames(Base(t))
    \/ pc[t] = At("new") /\ t # Background
    \/ pc[t] = At("boot") /\ t = Background

\* Until the scheduler runs, the background thread does; then every thread is added.
Booting ==
  IF pc[Background].at = "boot"
  THEN k.running = Background /\ DOMAIN sr = Threads /\ ~ sr[Background]
  ELSE /\ \A t \in Threads : pc[t].at # "new"
       /\ Meek => Highest(k)

Knotted == Layer(InterPoints) /\ Knit(TimerUses) /\ Framed /\ Booting

\* Nobody stops, and who waits stays where it is.
Rests ==
  /\ Active(k) \subseteq Active(k')
  /\ \A t \in Threads : t \notin Active(k') => pc'[t] = pc[t]

\* A thread goes on at a point of its own.
Moves(t) == UNCHANGED pc \/ \E p \in Frames(Base(t)) : pc' = [pc EXCEPT ![t] = p]

LEMMA KnottedFit ==
  ASSUME Knotted, TimersApart, Layer(InterPoints)'
  PROVE  /\ Fit(InterPoints, TimerUses) /\ Above({}) /\ TimerUses \subseteq TimerUses
         /\ pc \in [Threads -> InterPoints] /\ k.running \in Threads
         /\ k.running \in Active(k) /\ Active(k) \subseteq Added
<1>1. Fit(InterPoints, TimerUses)
  BY InterPointsSeated DEF Knotted, TimersApart, Fit
<1>2. Active(k) \subseteq Added
  BY DEF Knotted, Knit, Strung
<1> QED
  BY <1>1, <1>2, FitParts DEF Above

\* Who runs its own code, or is interrupted, runs after the start.
LEMMA PastBoot ==
  ASSUME Knotted, NEW t, k.running = t, pc[t].at # "boot" \/ sr[t]
  PROVE  /\ pc[Background].at # "boot" /\ \A u \in Threads : pc[u].at # "new"
         /\ Meek => Highest(k)
         /\ t \in Threads /\ pc[t] \in Frames(Base(t))
<1>1. pc[Background].at # "boot" /\ \A u \in Threads : pc[u].at # "new"
  BY DEF Knotted, Booting
<1>2. t \in Threads
  BY DEF Knotted, Knit, Strung, Dispatched
<1>3. pc[t] \in Frames(Base(t))
  <2>1. At("new").at = "new" /\ At("boot").at = "boot"
    BY DEF At
  <2> QED
    BY <1>1, <1>2, <2>1 DEF Knotted, Framed
<1> QED
  BY <1>1, <1>2, <1>3 DEF Knotted, Booting

\* A step after the start.
LEMMA KnottedStep ==
  ASSUME Knotted, Layer(InterPoints)', Knit(TimerUses)', Preempts, NEW t \in Threads, Moves(t),
         pc[Background].at # "boot"
  PROVE  Knotted'
<1>1. pc = [u \in Threads |-> pc[u]] /\ DOMAIN pc = Threads
  BY DEF Knotted, Layer
<1>2. pc[t] \in Frames(Base(t)) => pc[t].at \notin {"new", "boot"}
  BY FramePoint
<1>3. ASSUME NEW u \in Threads PROVE pc'[u] = pc[u] \/ pc'[u] \in Frames(Base(u))
  BY <1>1, <1>3 DEF Moves
<1>4. Framed'
  BY <1>3 DEF Knotted, Framed
<1>5. \A u \in Threads : pc'[u].at \notin {"new", "boot"}
  <2> SUFFICES ASSUME NEW u \in Threads PROVE pc'[u].at \notin {"new", "boot"}
    OBVIOUS
  <2>1. CASE pc'[u] \in Frames(Base(u))
    BY <2>1, FramePoint
  <2>2. CASE pc'[u] = pc[u]
    <3>1. pc[u].at # "new"
      BY DEF Knotted, Booting
    <3>2. pc[u].at = "boot" => u = Background
      <4>1. At("new").at = "new"
        BY DEF At
      <4> QED
        BY <4>1, FramePoint DEF Knotted, Framed
    <3> QED
      BY <2>2, <3>1, <3>2
  <2> QED
    BY <1>3, <2>1, <2>2
<1>6. Booting'
  <2>1. Meek => Highest(k')
    BY DEF Preempts, Ordered, Knotted, Booting
  <2> QED
    BY <1>5, <2>1, KernelAssumption DEF Booting
<1> QED
  BY <1>4, <1>6 DEF Knotted

\* The running thread stays active when it goes to a point where it does not wait.
LEMMA RestStep ==
  ASSUME Knotted, TimersApart, Layer(InterPoints)', NEW M, Steps(TimerUses, M),
         NEW t, t = k.running, Moves(t), pc[Background].at # "boot",
         M = Lists \/ UNCHANGED k \/ (In(pc'[t]) = {} /\ pc'[t].at \notin {"new", "suspend"}),
         UNCHANGED pc \/ (In(pc'[t]) = {} /\ pc'[t].at \notin {"new", "suspend"}) \/ UNCHANGED k
  PROVE  Knotted' /\ Rests
<1>1. /\ t \in Threads /\ t \in Active(k) /\ Active(k) \subseteq Threads
      /\ pc \in [Threads -> InterPoints]
  BY KnottedFit DEF Active
<1>2. Knotted'
  BY <1>1, KnottedStep DEF Steps
<1>3. t \in Active(k')
  <2>1. CASE UNCHANGED k
    BY <1>1, <2>1
  <2>2. CASE In(pc'[t]) = {} /\ pc'[t].at \notin {"new", "suspend"}
    <3>1. Waiting'[t] = {}
      BY <1>1, <2>2 DEF Waiting
    <3> QED
      BY <1>1, <2>2, <3>1 DEF Steps, Knit
  <2>3. CASE M = Lists /\ UNCHANGED pc /\ In(pc[t]) # {}
    <3>1. In(pc[t]) \cap M # {}
      BY <1>1, <2>3, InterPointsSeated DEF Seated
    <3> QED
      BY <1>1, <2>3, <3>1 DEF Steps, Aside
  <2>4. CASE UNCHANGED pc /\ In(pc[t]) = {}
    <3>1. pc[t].at \notin {"new", "suspend"}
      <4>1. pc[t].at # "new"
        BY <1>1 DEF Knotted, Booting
      <4>2. pc[t] = At("boot") => pc[t].at # "suspend"
        BY DEF At
      <4>3. pc[t] = At("new") => pc[t].at = "new"
        BY DEF At
      <4> QED
        BY <1>1, <4>1, <4>2, <4>3, FramePoint DEF Knotted, Framed
    <3>2. Waiting'[t] = {}
      BY <1>1, <2>4 DEF Waiting
    <3> QED
      BY <1>1, <2>4, <3>1, <3>2 DEF Steps, Knit
  <2> QED
    BY <2>1, <2>2, <2>3, <2>4
<1>4. Active(k) \subseteq Active(k')
  BY <1>3 DEF Steps, Stays
<1>5. \A u \in Threads \ {t} : pc'[u] = pc[u]
  BY <1>1 DEF Moves
<1> QED
  BY <1>2, <1>3, <1>4, <1>5 DEF Rests


LEMMA InterPointsHold ==
  /\ KernelPoints \subseteq InterPoints /\ EventPoints \subseteq InterPoints
  /\ Timed(InterPoints)
BY InterPointsSeated DEF Seated, Timed, TimerPoints, EventPoints

LEMMA InterNames ==
  /\ timer1 \in TickLists /\ timer1 \in Lists /\ timer1 \notin PriorLists
  /\ {commandEvent, _switch, Line} \subseteq Events
  /\ {commandEvent, _switch, Line} \subseteq PriorLists
BY IntervalometerAssumption, EventAssumption, ListAssumption DEF Lists

\* A call that goes on, or yields.
LEMMA CallMoves ==
  ASSUME Knotted, NEW t, t = k.running, pc[t].at # "boot",
         \/ UNCHANGED pc \/ Return(t) \/ Finish(t) \/ Leave(t, At("yield"))
         \/ \E m, th : ResumeAndReturn(t, m, th)
  PROVE  /\ Moves(t) /\ t \in Threads
         /\ UNCHANGED pc \/ (In(pc'[t]) = {} /\ pc'[t].at \notin {"new", "suspend"})
<1>1. t \in Threads /\ DOMAIN pc = Threads
  BY PastBoot DEF Knotted, Layer
<1>2. \/ UNCHANGED pc \/ pc' = [pc EXCEPT ![t] = At("user")] \/ pc' = [pc EXCEPT ![t] = At("yield")]
  BY DEF Return, Finish, Leave, ResumeAndReturn
<1>3. At("user") \in Frames(Base(t)) /\ At("yield") \in Frames(Base(t))
  BY <1>1, BasePoints
<1> QED
  BY <1>1, <1>2, <1>3, NotIn DEF Moves

\* The calls that do not wait.
LEMMA UserRests ==
  ASSUME Knotted, TimersApart, NEW t, User(t),
         \/ UNCHANGED <<k, pc, now, due>>
         \/ \E label : \E time \in Times : SetDue(t, label, time)
         \/ (\E e \in Events : event_notify(t, e)) /\ UNCHANGED <<now, due>>
  PROVE  Knotted' /\ Rests
<1>1. t = k.running /\ pc[t].at = "user" /\ pc[Background].at # "boot" /\ t \in Threads
  <2>1. t = k.running /\ pc[t].at # "boot"
    BY DEF User
  <2> QED
    BY <2>1, PastBoot DEF User
<1>2. In(pc[t]) = {}
  <2>1. pc[t] \in InterPoints
    BY <1>1 DEF Knotted, Layer
  <2> QED
    BY <1>1, <2>1, InterPointsSeated DEF Seated, Home
<1>3. Layer(InterPoints) /\ KernelPoints \subseteq InterPoints
  BY InterPointsHold DEF Knotted
<1>4. CASE UNCHANGED <<k, pc, now, due>>
  <2>1. Layer(InterPoints)'
    BY <1>3, <1>4 DEF Layer
  <2>2. Steps(TimerUses, Lists)
    BY <1>4, <2>1, KnottedFit, StutterStep
  <2> QED
    BY <1>1, <1>4, <2>1, <2>2, RestStep DEF Moves
<1>5. ASSUME NEW label, NEW time \in Times, SetDue(t, label, time) PROVE Knotted' /\ Rests
  <2>1. Layer(InterPoints)'
    BY <1>3, <1>5, SetDueLayer
  <2>2. Steps(TimerUses, Lists)
    BY <1>5, <2>1, KnottedFit, SetDueStep
  <2>3. UNCHANGED pc
    BY <1>5 DEF SetDue, Return
  <2> QED
    BY <1>1, <2>1, <2>2, <2>3, RestStep DEF Moves
<1>6. ASSUME NEW e \in Events, event_notify(t, e), UNCHANGED <<now, due>> PROVE Knotted' /\ Rests
  <2>1. e \in PriorLists /\ User(t) /\ ResumeFromPriorList(t, e)
    BY <1>6, EventAssumption DEF event_notify
  <2>2. Layer(InterPoints)'
    BY <1>1, <1>3, <1>6, <2>1, FromPriorListLayer
  <2>3. Steps(TimerUses, Lists)
    BY <1>6, <2>1, <2>2, KnottedFit, NotifyStep
  <2>4. Return(t) \/ \E m, th : ResumeAndReturn(t, m, th)
    BY <2>1 DEF ResumeFromPriorList
  <2>5. /\ Moves(t)
        /\ UNCHANGED pc \/ (In(pc'[t]) = {} /\ pc'[t].at \notin {"new", "suspend"})
    BY <1>1, <2>4, CallMoves
  <2> QED
    BY <1>1, <2>2, <2>3, <2>5, RestStep
<1> QED
  BY <1>4, <1>5, <1>6

LEMMA AbortRests ==
  ASSUME Knotted, TimersApart, NEW t, NEW th, timer_abort(t, timer1, th)
  PROVE  Knotted' /\ Rests /\ th \in Active(k')
<1>1. t = k.running /\ pc[t].at # "boot" /\ pc[Background].at # "boot" /\ t \in Threads
  <2>1. t = k.running /\ pc[t].at # "boot"
    BY DEF User, timer_abort
  <2> QED
    BY <2>1, PastBoot
<1>2. Layer(InterPoints)'
  BY InterPointsHold, InterNames, AbortLayer DEF Knotted
<1>3. Steps(TimerUses, Lists) /\ th \in Active(k')
  <2>1. Fit(InterPoints, TimerUses)
    BY <1>2, KnottedFit
  <2> QED
    BY <2>1, InterNames, AbortStep DEF TimersApart
<1>4. \E m : ResumeAndReturn(t, m, th)
  BY DEF timer_abort
<1>5. /\ Moves(t)
      /\ UNCHANGED pc \/ (In(pc'[t]) = {} /\ pc'[t].at \notin {"new", "suspend"})
  BY <1>1, <1>4, CallMoves
<1> QED
  BY <1>1, <1>2, <1>3, <1>5, RestStep

\* A thread waits: it is the only one that stops, and nobody goes on.
Waits(t, l) ==
  /\ Active(k') = Active(k) \ {t}
  /\ \E p : In(p) = {l} /\ pc' = [pc EXCEPT ![t] = p]

LEMMA EventWaits ==
  ASSUME Knotted, TimersApart, NEW t, NEW e, event_wait(t, e), UNCHANGED <<now, due>>
  PROVE  Knotted' /\ Waits(t, e) /\ t \in Threads \ {Background} /\ e \in Events
<1> DEFINE p == Inside("event_wait", e)
<1>1. /\ User(t) /\ t = k.running /\ pc[t].at # "boot" /\ k' = waitInPriorList(k, e)
      /\ pc' = [pc EXCEPT ![t] = p] /\ <<t, e>> \in EventUsers
  BY DEF event_wait, Leave, User
<1>2. t \in Threads \ {Background} /\ e \in Events /\ e \in PriorLists
  BY <1>1, EventAssumption
<1>3. p \in Frames(Base(t)) /\ In(p) = {e}
  BY <1>1, <1>2, BasePoints
<1>4. p \in InterPoints /\ p.at \notin {"new", "boot", "suspend"} /\ p.at = "event_wait"
  BY <1>2, <1>3, FramePoint DEF Inside
<1> HIDE DEF p
<1>5. Moved(InterPoints)
  BY <1>1, <1>2, <1>4 DEF Moved
<1>6. Layer(InterPoints)'
  BY <1>1, <1>2, <1>5, WaitLayer DEF Knotted
<1>7. <<t, {e}>> \in TimerUses
  <2>1. <<t, e>>[1] = t /\ <<t, e>>[2] = e
    OBVIOUS
  <2> QED
    BY <1>1, <2>1 DEF TimerUses
<1>8. Fit(InterPoints, TimerUses)
  BY <1>6, KnottedFit
<1>9. t # Background
  BY <1>2
<1>10. Blocks(TimerUses, {}, t, p)
  BY <1>1, <1>2, <1>3, <1>4, <1>7, <1>8, <1>9, WaitStep
<1>11. Knotted'
  BY <1>1, <1>2, <1>3, <1>6, <1>10, PastBoot, KnottedStep DEF Blocks, Moves
<1> QED
  BY <1>1, <1>2, <1>3, <1>10, <1>11 DEF Blocks, Waits

LEMMA TimerWaits ==
  ASSUME Knotted, TimersApart, NEW t, NEW label, NEW time, WaitTimer(t, timer1, label, time)
  PROVE  Knotted' /\ Waits(t, timer1)
<1> DEFINE p == [at |-> label, on |-> timer1, tmp |-> due[t]]
<1>1. /\ User(t) /\ t = k.running /\ pc[t].at # "boot" /\ t \in TimerUsers /\ label \in TimerCalls
      /\ pc' = [pc EXCEPT ![t] = p] /\ InWindow(time, timer1)
  BY DEF WaitTimer, Leave, User
<1>2. timer1 \in TickLists /\ Layer(InterPoints) /\ Timed(InterPoints) /\ time \in Times
  <2>1. time \in Int
    BY <1>1 DEF InWindow
  <2> QED
    BY <1>1, <2>1, InterNames, InterPointsHold, WindowIsTimes DEF Knotted
<1>3. t \in Threads /\ pc[Background].at # "boot"
  BY <1>1, PastBoot
<1>4. p \in Frames(Base(t)) /\ In(p) = {timer1}
  <2>1. due[t] \in Times
    BY <1>2, <1>3 DEF Layer
  <2> QED
    BY <1>1, <1>2, <1>3, <2>1, BasePoints
<1> HIDE DEF p
<1>5. Layer(InterPoints)'
  BY <1>2, WaitTimerLayer
<1>6. Steps(TimerUses, {}) /\ Active(k') = Active(k) \ {t}
  BY <1>2, <1>5, KnottedFit, WaitTimerStep
<1>7. Knotted'
  BY <1>1, <1>3, <1>4, <1>5, <1>6, KnottedStep DEF Steps, Moves
<1> QED
  BY <1>1, <1>4, <1>6, <1>7 DEF Waits


\* Who is there but waits for nothing, runs or is ready.
LEMMA GoingOn ==
  ASSUME Knit(TimerUses)', NEW t \in Threads, In(pc'[t]) = {}, pc'[t].at \notin {"new", "suspend"}
  PROVE  t \in Active(k')
<1>1. Waiting'[t] = {}
  BY DEF Waiting
<1> QED
  BY <1>1 DEF Knit

\* main adds a thread.
LEMMA AddRests ==
  ASSUME Knotted, TimersApart, NEW th \in Threads, scheduler_add(th), UNCHANGED <<now, due>>
  PROVE  Knotted' /\ Rests
<1>1. /\ pc[Background].at = "boot" /\ k.running = Background
      /\ DOMAIN sr = Threads /\ ~ sr[Background] /\ th # Background /\ pc[th].at = "new" /\ Background \in Threads
      /\ DOMAIN pc = Threads /\ Fenced(k)
  BY KernelAssumption DEF scheduler_add, Knotted, Booting, Layer
<1>2. Layer(InterPoints)'
  BY InterPointsHold, StartLayer DEF Knotted
<1>3. Steps(TimerUses, {})
  BY <1>2, KnottedFit, StartStep
<1>4. /\ pc' = [pc EXCEPT ![th] = At("user")]
      /\ DOMAIN sr' = Threads /\ sr'[Background] = sr[Background]
  BY <1>1 DEF scheduler_add
<1>5. k'.running = Background
  <2> DEFINE m == thread_init(k, th, Prior[th])
  <2>1. Fenced(m) /\ m.running = k.running
    BY <1>1, initFenced
  <2>2. k' = threadQueueArray_put(m, th)
    BY DEF scheduler_add
  <2> HIDE DEF m
  <2> QED
    BY <1>1, <2>1, <2>2, PutFenced
<1>6. Framed'
  <2>1. At("user") \in Frames(Base(th))
    BY BasePoints
  <2> QED
    BY <1>1, <1>4, <2>1 DEF Knotted, Framed
<1>7. Knotted'
  BY <1>1, <1>2, <1>3, <1>4, <1>5, <1>6 DEF Knotted, Booting, Steps
<1>8. th \in Active(k')
  BY <1>1, <1>3, <1>4, NotIn, GoingOn DEF Steps
<1>9. Background \in Active(k')
  BY <1>1, <1>5 DEF Active
<1> QED
  BY <1>1, <1>3, <1>4, <1>7, <1>8, <1>9 DEF Rests, Steps, Stays

\* main runs the scheduler when all are there.
LEMMA RunRests ==
  ASSUME Knotted, TimersApart, scheduler_run, UNCHANGED <<now, due>>,
         \A th \in Threads : pc[th].at # "new"
  PROVE  Knotted' /\ Rests
<1>1. /\ pc[Background].at = "boot" /\ k.running = Background
      /\ Background \in Threads /\ DOMAIN pc = Threads
      /\ pc' = [pc EXCEPT ![Background] = At("run")]
  BY KernelAssumption DEF scheduler_run, Knotted, Booting, Layer
<1>2. Layer(InterPoints)'
  BY InterPointsHold, StartLayer DEF Knotted
<1>3. Steps(TimerUses, {})
  BY <1>2, KnottedFit, StartStep
<1>4. At("run") \in Frames(Base(Background)) /\ At("run").at = "run" /\ In(At("run")) = {}
  BY <1>1, BasePoints, NotIn
<1>5. Framed'
  BY <1>1, <1>4 DEF Knotted, Framed
<1>6. Booting'
  <2>1. Meek => Highest(k')
    BY <1>1, <1>3, <1>4 DEF Steps, Preempts
  <2> QED
    BY <1>1, <1>4, <2>1 DEF Booting
<1>7. Background \in Active(k')
  BY <1>1, <1>3, <1>4, GoingOn DEF Steps
<1> QED
  BY <1>1, <1>2, <1>3, <1>5, <1>6, <1>7 DEF Knotted, Rests, Steps, Stays

LEMMA BootRests ==
  ASSUME Knotted, TimersApart, boot
  PROVE  Knotted' /\ Rests
<1>1. UNCHANGED <<now, due>>
  BY DEF boot, aboveKernel
<1>2. CASE scheduler_run_return
  <2>1. /\ k.running = Background /\ pc[Background].at # "boot" /\ UNCHANGED k
        /\ Background \in Threads /\ pc' = [pc EXCEPT ![Background] = At("user")]
    BY <1>2, KernelAssumption DEF scheduler_run_return
  <2>2. Layer(InterPoints)'
    BY <1>1, <1>2, InterPointsHold, StartLayer DEF Knotted
  <2>3. Steps(TimerUses, Lists)
    BY <1>1, <1>2, <2>2, KnottedFit, StartStep
  <2>4. Moves(Background)
    BY <2>1, BasePoints DEF Moves
  <2> QED
    BY <2>1, <2>2, <2>3, <2>4, RestStep
<1> QED
  BY <1>1, <1>2, AddRests, RunRests DEF boot

\* The second half of a call.
LEMMA ReturnRests ==
  ASSUME Knotted, TimersApart, NEW t, Returns(t)
  PROVE  Knotted' /\ Rests
<1>1. /\ t = k.running /\ pc[t].at \notin {"boot", "new"} /\ pc[Background].at # "boot"
      /\ t \in Threads /\ pc[t] \in InterPoints
  <2>1. t = k.running /\ pc[t].at \notin {"boot"}
    BY DEF Returns, checkIRQ, yield_return, event_wait_return, timer_return, mutex_enter_retry,
           EnterLabels, TimerLabels
  <2>2. pc[Background].at # "boot" /\ t \in Threads /\ pc[t].at # "new"
    BY <2>1, PastBoot
  <2> QED
    BY <2>1, <2>2 DEF Knotted, Layer
<1>2. CASE /\ \/ \E labels : checkIRQ(t, labels)
              \/ yield_return(t) \/ event_wait_return(t)
           /\ UNCHANGED <<now, due>>
  <2>1. UNCHANGED k /\ (UNCHANGED pc \/ Finish(t))
    BY <1>2 DEF checkIRQ, yield_return, event_wait_return
  <2>2. Moves(t) /\ Moved(InterPoints)
    <3>1. Moves(t)
      BY <1>1, <2>1, CallMoves
    <3>2. Moved(InterPoints)
      BY <1>1, <2>1, InterPointsHold, CallMoved DEF Moved
    <3> QED
      BY <3>1, <3>2
  <2>3. Layer(InterPoints)'
    BY <1>2, <2>1, <2>2, CalmLayer DEF Knotted, Layer
  <2>4. Passes(InterPoints, {})
    <3>1. CASE UNCHANGED pc
      BY <3>1 DEF Passes
    <3>2. CASE Finish(t)
      BY <1>1, <2>3, <3>2, KnottedFit, CallPasses
    <3> QED
      BY <2>1, <3>1, <3>2
  <2>5. Steps(TimerUses, {})
    BY <1>2, <2>1, <2>3, <2>4, KnottedFit, StillStep
  <2> QED
    BY <1>1, <2>1, <2>2, <2>3, <2>5, RestStep
<1>3. CASE timer_return(t)
  <2>1. Finish(t)
    BY <1>3 DEF timer_return
  <2>2. Moves(t) /\ (UNCHANGED pc \/ (In(pc'[t]) = {} /\ pc'[t].at \notin {"new", "suspend"}))
    BY <1>1, <2>1, CallMoves
  <2>3. pc'[t] = At("user") /\ In(At("user")) = {} /\ At("user").at = "user"
    BY <1>1, <2>1, NotIn DEF Finish, Knotted, Layer
  <2>4. Layer(InterPoints)'
    BY <1>1, <1>3, InterPointsHold, TimerReturnLayer DEF Knotted
  <2>5. Steps(TimerUses, {})
    BY <1>3, <2>4, KnottedFit, TimerReturnStep
  <2> QED
    BY <1>1, <2>2, <2>3, <2>4, <2>5, RestStep
<1>4. CASE mutex_enter_retry(t)
  <2>1. pc[t].at \notin EnterLabels
    <3>1. pc[t] \in Base(t) \/ pc[t] \in Interrupted(Frames(Base(t)))
      BY <1>1, PastBoot, FramesAre
    <3> QED
      BY <3>1 DEF Interrupted, Base, TimerPoints, EventPoints, KernelPoints, At, Inside,
                  TimerLabels, EnterLabels
  <2> QED
    BY <1>4, <2>1 DEF mutex_enter_retry
<1> QED
  BY <1>2, <1>3, <1>4 DEF Returns, aboveKernel

\* A tick, and the interrupts that notify an event.
LEMMA TickRests ==
  ASSUME Knotted, TimersApart, NEW t,
         \/ timer_tick(t, timer1)
         \/ (\E e \in Events : event_notifyISR(t, e)) /\ UNCHANGED <<now, due>>
  PROVE  Knotted' /\ Rests
<1>1. t = k.running /\ sr[t] /\ UNCHANGED pc
  BY DEF timer_tick, event_notifyISR, ResumeFromPriorListISR, InterruptsEnabled
<1>2. pc[Background].at # "boot" /\ t \in Threads /\ Moves(t)
  BY <1>1, PastBoot DEF Moves
<1>3. Layer(InterPoints)' /\ Steps(TimerUses, Lists)
  <2>1. CASE timer_tick(t, timer1)
    <3>1. Layer(InterPoints)'
      BY <2>1, InterNames, TickLayer DEF Knotted
    <3> QED
      BY <2>1, <3>1, InterNames, KnottedFit, TickStep
  <2>2. ASSUME NEW e \in Events, event_notifyISR(t, e), UNCHANGED <<now, due>>
        PROVE  Layer(InterPoints)' /\ Steps(TimerUses, Lists)
    <3>1. e \in PriorLists /\ ResumeFromPriorListISR(t, e)
      BY <2>2, EventAssumption DEF event_notifyISR
    <3>2. Layer(InterPoints)'
      BY <1>2, <2>2, <3>1, InterPointsHold, FromPriorListLayer DEF Knotted
    <3> QED
      BY <2>2, <3>1, <3>2, KnottedFit, NotifyStep
  <2> QED
    BY <2>1, <2>2
<1> QED
  BY <1>1, <1>2, <1>3, RestStep


\* An interrupt routine that wakes a thread, and yields inside of itself.
LEMMA RoutineRests ==
  ASSUME Knotted, TimersApart, NEW t, NEW e \in Events, notifyInISR(t, e), UNCHANGED <<now, due>>
  PROVE  Knotted' /\ Rests
<1> DEFINE p == [at |-> "isr", on |-> NULL, back |-> pc[t]]
<1>1. /\ t = k.running /\ sr[t] /\ k.head[e] # NULL /\ k' = resume(priorList_get(k, e), k.head[e])
      /\ UNCHANGED pc \/ pc' = [pc EXCEPT ![t] = p]
  BY DEF notifyInISR, InterruptsEnabled, Leave
<1>2. /\ t \in Threads /\ pc[t] \in Frames(Base(t)) /\ pc[Background].at # "boot"
      /\ e \in PriorLists
  BY <1>1, PastBoot, EventAssumption
<1>3. /\ p \in Frames(Base(t)) /\ In(p) = {} /\ p.at = "isr" /\ p \in InterPoints
  BY <1>2, FramePoint
<1> HIDE DEF p
<1>4. Moves(t)
  BY <1>1, <1>3 DEF Moves
<1>5. Layer(InterPoints)'
  <2>1. Fenced(k') /\ k'.tick = k.tick
    <3>1. Fenced(k)
      BY DEF Knotted, Layer
    <3> DEFINE m == priorList_get(k, e)
    <3>2. Fenced(m) /\ m.tick = k.tick /\ k.head[e] \in Threads \ {Background}
      BY <1>1, <1>2, <3>1, priorListGetFenced DEF SameRunners
    <3>3. k' = resume(m, k.head[e])
      BY <1>1
    <3> HIDE DEF m
    <3> QED
      BY <3>2, <3>3, ResumeFenced DEF SameElsewhere
  <2>2. Moved(InterPoints)
    BY <1>1, <1>2, <1>3 DEF Moved, Home
  <2> QED
    BY <2>1, <2>2, CalmLayer DEF Knotted
<1>6. \A M : (In(pc[t]) \cap M = {} \/ UNCHANGED pc) => Passes(InterPoints, M)
  <2>1. t \in Active(k) /\ pc[t].at # "boot"
    BY <1>2, <1>5, <1>1, KnottedFit, FramePoint
  <2> QED
    BY <1>1, <1>3, <2>1 DEF Passes
<1>7. \A M : (In(pc[t]) \cap M = {} \/ UNCHANGED pc) => Steps(TimerUses, M)
  <2> SUFFICES ASSUME NEW M, Passes(InterPoints, M) PROVE Steps(TimerUses, M)
    BY <1>6
  <2> QED
    BY <1>1, <1>2, <1>5, KnottedFit, FromListStep
<1>8. CASE UNCHANGED pc
  BY <1>1, <1>2, <1>4, <1>5, <1>7, <1>8, RestStep
<1>9. CASE pc' = [pc EXCEPT ![t] = p]
  <2>1. pc'[t] = p
    BY <1>2, <1>9 DEF Knotted, Layer
  <2>2. In(pc[t]) \cap {} = {}
    OBVIOUS
  <2> QED
    BY <1>1, <1>2, <1>3, <1>4, <1>5, <1>7, <2>1, <2>2, RestStep
<1> QED
  BY <1>1, <1>8, <1>9

\* The routine goes back to where it interrupted its thread.
LEMMA BackRests ==
  ASSUME Knotted, TimersApart, NEW t, notifyInISR_end(t), UNCHANGED <<now, due>>
  PROVE  Knotted' /\ Rests
<1> DEFINE p == pc[t].back
<1>1. t = k.running /\ pc[t].at = "isr" /\ UNCHANGED k /\ pc' = [pc EXCEPT ![t] = p]
  BY DEF notifyInISR_end
<1>2. /\ t \in Threads /\ pc[t] \in Frames(Base(t)) /\ pc[Background].at # "boot"
  BY <1>1, PastBoot
<1>3. p \in Frames(Base(t))
  BY <1>1, <1>2, FramePoint
<1> HIDE DEF p
<1>4. /\ p \in InterPoints /\ p.at \notin {"new", "boot", "suspend"} /\ "timer" \notin DOMAIN p
      /\ t = Background => p.at \in Home
      /\ In(p) = {} \/ <<t, In(p)>> \in TimerUses
  BY <1>2, <1>3, FramePoint
<1>5. Layer(InterPoints)'
  BY <1>1, <1>2, <1>4, CalmLayer DEF Moved, Knotted, Layer
<1>6. /\ t \in Active(k) /\ Active(k) \subseteq Added /\ pc \in [Threads -> InterPoints]
  BY <1>1, <1>5, KnottedFit
<1>7. /\ \A u \in Threads \ {t} : pc'[u] = pc[u] /\ Waiting'[u] = Waiting[u]
      /\ pc'[t] = p /\ Waiting'[t] = In(p) /\ Added' = Added
      /\ In(p) \subseteq Lists /\ Waiting' \in [Threads -> SUBSET Lists]
  <2>1. \A u \in Threads \ {t} : pc'[u] = pc[u]
    BY <1>1, <1>6
  <2>2. pc'[t] = p
    BY <1>1, <1>2, <1>6
  <2>3. \A q \in InterPoints : In(q) \subseteq Lists
    BY InterPointsSeated DEF Seated
  <2>4. pc' \in [Threads -> InterPoints]
    BY <1>5 DEF Layer
  <2> QED
    BY <1>2, <1>4, <1>6, <2>1, <2>2, <2>3, <2>4 DEF Waiting, Added
<1>8. Knit(TimerUses)'
  <2> DEFINE W == Ranked(TimerUses) \cap Added
             y == Waiting'
  <2>1. Strung(k, Waiting, W, Added)
    BY DEF Knotted, Knit
  <2>2. y \in [Threads -> SUBSET Lists] /\ \A u \in Threads \ Active(k) : y[u] = Waiting[u]
    BY <1>6, <1>7
  <2>3. Strung(k', y, Ranked(TimerUses) \cap Added', Added')
    <3> HIDE DEF W, y
    <3>1. Strung(k, y, W, Added)
      BY <2>1, <2>2, StrungSame
    <3> QED
      BY <1>1, <1>7, <3>1 DEF W
  <2>4. InHalfRange => Timely'
    <3>1. \A u \in Threads : "timer" \in DOMAIN pc'[u] => pc'[u] = pc[u]
      BY <1>4, <1>7
    <3> QED
      BY <1>1, <3>1 DEF Knotted, Knit, Timely
  <2>5. \A u \in Threads : Waiting'[u] = {} \/ <<u, Waiting'[u]>> \in TimerUses
    BY <1>4, <1>7 DEF Knotted, Knit
  <2>6. \A u \in Threads \ Active(k') : Waiting'[u] # {} \/ pc'[u].at \in {"suspend", "new"}
    BY <1>1, <1>6, <1>7 DEF Knotted, Knit
  <2>7. Ranked(TimerUses) # {} =>
          \A u \in Added' : k'.prior[u] = IF u = Background THEN Lowest ELSE Prior[u]
    BY <1>1, <1>7 DEF Knotted, Knit
  <2>8. Near => Windowed'
    <3>1. \A u \in Threads \ Active(k') : u \in Threads \ Active(k) /\ Waiting'[u] = Waiting[u]
      BY <1>1, <1>6, <1>7
    <3> QED
      BY <3>1 DEF Knotted, Knit, Windowed, InWindow
  <2> QED
    BY <2>3, <2>4, <2>5, <2>6, <2>7, <2>8 DEF Knit
<1>9. Preempts
  BY <1>1, <1>2 DEF Preempts, Ordered
<1>10. Knotted'
  BY <1>1, <1>2, <1>3, <1>5, <1>8, <1>9, KnottedStep DEF Moves
<1> QED
  BY <1>1, <1>6, <1>7, <1>10 DEF Rests

\* What goes on without a statement of a thread.
Systems ==
  \/ KernelSteps({"isr"})
  \/ \E t \in Threads : Tick(t, timer1) \/ Interrupt(t, Line)
  \/ \E t \in Threads : (notifyInISR(t, _switch) \/ notifyInISR_end(t)) /\ UNCHANGED driverOnly

LEMMA SystemRests ==
  ASSUME Knotted, TimersApart, Systems
  PROVE  Knotted' /\ Rests
<1>1. ASSUME NEW t \in Threads, checkIRQ(t, {"isr"}), UNCHANGED aboveKernel PROVE Knotted' /\ Rests
  <2>1. /\ t = k.running /\ pc[t].at # "boot" /\ UNCHANGED <<k, pc, now, due>>
    BY <1>1 DEF checkIRQ, aboveKernel
  <2>2. Layer(InterPoints)'
    BY <2>1 DEF Knotted, Layer
  <2>3. Steps(TimerUses, Lists)
    BY <2>1, <2>2, KnottedFit, StutterStep
  <2> QED
    BY <2>1, <2>2, <2>3, PastBoot, RestStep DEF Moves
<1>2. CASE KernelSteps({"isr"})
  BY <1>1, <1>2, BootRests, ReturnRests DEF KernelSteps
<1>3. ASSUME NEW t \in Threads, Tick(t, timer1) PROVE Knotted' /\ Rests
  BY <1>3, TickRests DEF Tick, timer_isr
<1>4. ASSUME NEW t \in Threads, Interrupt(t, Line) PROVE Knotted' /\ Rests
  BY <1>4, InterNames, TickRests DEF Interrupt, driverOnly, aboveKernel
<1>5. ASSUME NEW t \in Threads, notifyInISR(t, _switch) \/ notifyInISR_end(t), UNCHANGED driverOnly
      PROVE  Knotted' /\ Rests
  BY <1>5, InterNames, RoutineRests, BackRests DEF driverOnly, aboveKernel
<1> QED
  BY <1>2, <1>3, <1>4, <1>5 DEF Systems

LEMMA InitKnotted == InterInit => Knotted
<1> SUFFICES ASSUME InterInit PROVE Knotted
  OBVIOUS
<1>1. TimerInit /\ KernelInit
  BY DEF InterInit, DriverInit, MutexInit, TimerInit
<1>2. Layer(InterPoints) /\ Knit(TimerUses)
  BY <1>1, InterPointsHold, InitLayer, InitKnit
<1>3. Framed
  BY <1>1 DEF KernelInit, Framed
<1>4. Booting
  BY <1>1, KernelAssumption DEF KernelInit, Booting, At
<1> QED
  BY <1>2, <1>3, <1>4 DEF Knotted


-----------------------------------------------------------------------------
(* A stop is not slept over. *)

\* The calls of a statement that do not wait, and those that do.
Resting(t) ==
  \/ User(t) /\ UNCHANGED <<k, pc, now, due>> /\ DOMAIN sr' = DOMAIN sr
  \/ task_updateTick(t, timer1)
  \/ event_notify(t, commandEvent) /\ UNCHANGED <<now, due>>

Pausing(t, l) ==
  \/ l \in Events /\ event_wait(t, l) /\ UNCHANGED <<now, due>>
  \/ l = timer1 /\ \E label, time : WaitTimer(t, timer1, label, time)

LEMMA RestingKnots ==
  ASSUME Knotted, TimersApart, NEW t, Resting(t)
  PROVE  Knotted' /\ Rests
<1>1. timer1 \in TickLists /\ commandEvent \in Events /\ now[timer1] \in Times
  BY InterNames, WindowIsTimes DEF Knotted
<1>2. User(t)
  BY DEF Resting, task_updateTick, SetDue, event_notify
<1> QED
  BY <1>1, <1>2, UserRests DEF Resting, task_updateTick

LEMMA PausingKnots ==
  ASSUME Knotted, TimersApart, NEW t, NEW l, Pausing(t, l)
  PROVE  Knotted' /\ Waits(t, l)
BY EventWaits, TimerWaits DEF Pausing

LEMMA StmtCalls ==
  ASSUME NEW t, NEW at, Stmt(t, at), UNCHANGED driverOnly
  PROVE  /\ UNCHANGED <<now, due>>
         /\ task_enterCritical(t) \/ task_exitCritical(t) \/ UNCHANGED kernelVars => Resting(t)
         /\ event_notify(t, commandEvent) => Resting(t)
         /\ \A e \in Events : event_wait(t, e) => Pausing(t, e)
BY DEF Stmt, driverOnly, aboveKernel, Resting, Pausing, task_enterCritical, task_exitCritical,
       kernelVars

LEMMA TimerCalls1 ==
  ASSUME NEW t, NEW at, Stmt(t, at)
  PROVE  /\ timer_on(t, timer1) => Resting(t)
         /\ timer_off(t, timer1) => Resting(t)
         /\ \A d : timer_period(t, timer1, d) \/ timer_shift(t, timer1, d) \/ timer_delay(t, timer1, d)
                     => Pausing(t, timer1)
<1>1. timer_on(t, timer1) => Resting(t)
  BY DEF timer_on, Resting
<1>2. timer_off(t, timer1) => Resting(t)
  BY DEF timer_off, Resting, Return, aboveKernel
<1>3. \A d : timer_period(t, timer1, d) \/ timer_shift(t, timer1, d) \/ timer_delay(t, timer1, d)
               => Pausing(t, timer1)
  BY DEF timer_period, timer_shift, timer_delay, Pausing
<1> QED
  BY <1>1, <1>2, <1>3

\* What the shooter calls.
LEMMA ShooterCalls ==
  ASSUME NEW t, intervalometer_task(t)
  PROVE  \/ Resting(t) /\ cmd' \in {cmd, "NOTHING"}
         \/ Pausing(t, commandEvent) /\ cmd = "NOTHING" /\ UNCHANGED cmd
         \/ Pausing(t, timer1) /\ cmd # "STOP" /\ UNCHANGED cmd
<1> DEFINE Outcome == \/ Resting(t) /\ cmd' \in {cmd, "NOTHING"}
                      \/ Pausing(t, commandEvent) /\ cmd = "NOTHING" /\ UNCHANGED cmd
                      \/ Pausing(t, timer1) /\ cmd # "STOP" /\ UNCHANGED cmd
<1>1. ASSUME NEW at, Stmt(t, at), NEW to, NEW shine, Jump(t, to, shine) PROVE Outcome
  BY <1>1, StmtCalls DEF Jump
<1>2. ASSUME NEW at, Stmt(t, at), NEW to, NEW shine, NEW d, cmd # "STOP",
             \/ Wait(t, timer_period(t, timer1, d), to, shine)
             \/ Wait(t, timer_shift(t, timer1, d), to, shine)
      PROVE  Outcome
  BY <1>2, TimerCalls1 DEF Wait
<1>3. ASSUME NEW at, Stmt(t, at), NEW j, cmd # "STOP", expose(t, j) PROVE Outcome
  BY <1>2, <1>3 DEF expose
<1>4. CASE Enter(t, "enter", "park") /\ UNCHANGED ownVars
  BY <1>4, StmtCalls DEF Enter, ownVars
<1>5. CASE park(t)
  <2>1. UNCHANGED driverOnly
    BY <1>5 DEF park
  <2> QED
    BY <1>5, <2>1, StmtCalls DEF park
<1>6. CASE idle(t)
  <2>1. CASE cmd = "NOTHING" /\ event_wait(t, commandEvent) /\ UNCHANGED driverOnly
    <3>1. Stmt(t, "idle") /\ UNCHANGED cmd
      BY <1>6 DEF idle, ownVars
    <3> QED
      BY <2>1, <3>1, InterNames, StmtCalls
  <2>2. CASE timer_on(t, timer1)
    <3>1. Stmt(t, "idle") /\ UNCHANGED cmd
      BY <1>6 DEF idle, ownVars
    <3> QED
      BY <2>2, <3>1, TimerCalls1
  <2> QED
    BY <1>6, <2>1, <2>2 DEF idle
<1>7. CASE delay(t)
  BY <1>1, <1>2, <1>7 DEF delay
<1>8. CASE lead(t)
  BY <1>1, <1>2, <1>8 DEF lead
<1>9. CASE led(t)
  BY <1>1, <1>3, <1>9 DEF led
<1>10. CASE exposed(t)
  <2>1. Stmt(t, "exposed")
    BY <1>10 DEF exposed
  <2>2. CASE UNCHANGED <<kernelVars, driverOnly, cmd, set>>
    BY <2>1, <2>2, StmtCalls
  <2> QED
    BY <1>1, <1>2, <1>10, <2>1, <2>2 DEF exposed, Wait
<1>11. CASE gap(t)
  BY <1>1, <1>2, <1>11 DEF gap
<1>12. CASE focused(t)
  BY <1>1, <1>3, <1>12 DEF focused
<1>13. CASE off(t)
  BY <1>13, TimerCalls1 DEF off, ownVars
<1> QED
  BY <1>4, <1>5, <1>6, <1>7, <1>8, <1>9, <1>10, <1>11, <1>12, <1>13 DEF intervalometer_task

\* What a command calls.
LEMMA CommandCalls ==
  ASSUME NEW t, commands(t)
  PROVE  \/ Resting(t) /\ cmd' \in {cmd, "INTER", "HDR"}
         \/ Pausing(t, commandEvent) /\ UNCHANGED cmd
         \/ interval_stop(t) /\ cmd # "NOTHING" /\ cmd' = "STOP"
<1>1. ASSUME NEW c, c \in {"INTER", "HDR"}, _setCommand(t, c)
      PROVE  Resting(t) /\ cmd' \in {cmd, "INTER", "HDR"}
  <2>1. Stmt(t, c) /\ UNCHANGED driverOnly
    BY <1>1 DEF _setCommand
  <2> QED
    BY <1>1, <2>1, StmtCalls DEF _setCommand
<1>2. CASE interval_stop(t)
  <2>1. CASE cmd = "NOTHING" /\ UNCHANGED <<kernelVars, now, due, cmd>>
    BY <1>2, <2>1 DEF interval_stop, Stmt, Resting, kernelVars
  <2> QED
    BY <1>2, <2>1 DEF interval_stop
<1>3. CASE interval_stopped(t)
  <2>1. Stmt(t, "stopping") /\ UNCHANGED driverOnly /\ UNCHANGED cmd
    BY <1>3 DEF interval_stopped, ownVars
  <2> QED
    BY <1>3, <2>1, InterNames, StmtCalls DEF interval_stopped
<1>4. CASE Back(t)
  BY <1>4, StmtCalls DEF Back, ownVars
<1> QED
  BY <1>1, <1>2, <1>3, <1>4 DEF commands


\* What the prompt and the switch call.
LEMMA ClientCalls ==
  ASSUME NEW t, prompt_task(t) \/ switch_task(t)
  PROVE  /\ \/ Resting(t)
            \/ \E e \in {Line, _switch} : Pausing(t, e)
            \/ Pausing(t, timer1) /\ Stmt(t, "bounce")
         /\ UNCHANGED cmd
<1> DEFINE Outcome == \/ Resting(t)
                      \/ \E e \in {Line, _switch} : Pausing(t, e)
                      \/ Pausing(t, timer1) /\ Stmt(t, "bounce")
<1>1. ASSUME NEW from, NEW to, Enter(t, from, to) \/ Exit(t, from, to) PROVE Resting(t)
  BY <1>1, StmtCalls DEF Enter, Exit
<1>2. ASSUME NEW from, NEW to, Local(t, from, to) PROVE Resting(t)
  BY <1>2, StmtCalls DEF Local
<1>3. ASSUME NEW e \in {Line, _switch}, NEW from, NEW to, WaitEvent(t, e, from, to)
      PROVE  Pausing(t, e)
  BY <1>3, InterNames, StmtCalls DEF WaitEvent
<1>4. ASSUME NEW from, NEW to, Reads(t, Line, from, to) PROVE Outcome
  BY <1>2, <1>3, <1>4 DEF Reads
<1>5. ASSUME command(t) PROVE Resting(t)
  BY <1>5, StmtCalls DEF command
<1>6. ASSUME enterSettings(t) PROVE Resting(t)
  BY <1>6, StmtCalls DEF enterSettings
<1>7. ASSUME typed(t) PROVE Resting(t)
  BY <1>7, StmtCalls DEF typed
<1>8. ASSUME NEW at, NEW wait, NEW end, NEW then, waitSwitch(t, at, wait, end, then) PROVE Outcome
  BY <1>1, <1>3, <1>8 DEF waitSwitch
<1>9. ASSUME pressed(t) PROVE Resting(t)
  BY <1>2, <1>9 DEF pressed
<1>10. ASSUME callFunc(t) PROVE Resting(t)
  BY <1>10, StmtCalls DEF callFunc
<1>11. ASSUME debounce(t) PROVE Outcome
  <2>1. CASE TimerOn(t, timer1, "debounce", "bounce")
    BY <2>1, TimerCalls1 DEF TimerOn
  <2>2. CASE Sleep(t, timer_delay(t, timer1, 2), "bounce", "steady")
    <3>1. Stmt(t, "bounce") /\ timer_delay(t, timer1, 2)
      BY <2>2 DEF Sleep
    <3> QED
      BY <3>1, TimerCalls1
  <2>3. CASE TimerOff(t, timer1, "steady", "press")
    BY <2>3, TimerCalls1 DEF TimerOff
  <2> QED
    BY <1>11, <2>1, <2>2, <2>3 DEF debounce
<1>12. UNCHANGED cmd
  BY DEF prompt_task, switch_task, ownVars, command, enterSettings, typed, waitSwitch, pressed,
         callFunc, debounce
<1> HIDE DEF Outcome
<1>13. ASSUME prompt_task(t) PROVE Outcome
  <2>1. CASE Enter(t, "enter", "prompt")
    BY <1>1, <2>1 DEF Outcome
  <2>2. CASE Reads(t, Line, "prompt", "command") \/ Reads(t, Line, "typing", "typed")
    BY <1>4, <2>2
  <2>3. CASE command(t) \/ enterSettings(t) \/ typed(t)
    BY <1>5, <1>6, <1>7, <1>12, <2>3 DEF Outcome
  <2> QED
    BY <1>13, <2>1, <2>2, <2>3 DEF prompt_task
<1>14. ASSUME switch_task(t) PROVE Outcome
  <2>1. CASE pressed(t) \/ callFunc(t)
    BY <1>9, <1>10, <2>1 DEF Outcome
  <2> QED
    BY <1>8, <1>11, <1>14, <2>1 DEF switch_task
<1> QED
  BY <1>12, <1>13, <1>14 DEF Outcome

\* The shooter runs, is ready, or waits for something else than the timer.
Stopped == cmd = "STOP" => Shooter \in Active(k) \/ timer1 \notin In(pc[Shooter])

LEMMA StoppedSafe == Knotted /\ Stopped => StopNotSleptOver
<1> SUFFICES ASSUME Knotted, Stopped, cmd = "STOP", Shooter \in Sleepers(timer1) PROVE FALSE
  BY DEF StopNotSleptOver
<1>1. Shooter \in On(k, timer1) /\ timer1 \in Lists /\ Shooter \in Threads
  BY InterNames, OnLists, IntervalometerAssumption
<1>2. Strung(k, Waiting, Ranked(TimerUses) \cap Added, Added)
  BY DEF Knotted, Knit
<1>3. Shooter \notin Active(k) /\ timer1 \in Waiting[Shooter]
  BY <1>1, <1>2, HeldOn
<1> QED
  BY <1>1, <1>3 DEF Stopped, Waiting

\* A step without a stop, in which the shooter does not go to sleep.
LEMMA KeepsStopped ==
  ASSUME Knotted, Knotted', Stopped, NEW t,
         Rests \/ (\E l : Waits(t, l) /\ (t = Shooter /\ l = timer1 => cmd # "STOP") /\ UNCHANGED cmd),
         cmd' \in {cmd, "NOTHING", "INTER", "HDR"}
  PROVE  Stopped'
<1> SUFFICES ASSUME cmd' = "STOP", Shooter \notin Active(k') PROVE timer1 \notin In(pc'[Shooter])
  BY DEF Stopped
<1>1. cmd = "STOP" /\ Shooter \in Threads /\ DOMAIN pc = Threads
  BY IntervalometerAssumption DEF Knotted, Layer
<1>2. CASE Rests
  BY <1>1, <1>2 DEF Rests, Stopped
<1>3. ASSUME NEW l, Waits(t, l), t = Shooter /\ l = timer1 => cmd # "STOP"
      PROVE  timer1 \notin In(pc'[Shooter])
  <2>1. CASE t = Shooter
    BY <1>1, <1>3, <2>1 DEF Waits
  <2>2. CASE t # Shooter
    BY <1>1, <1>3, <2>2 DEF Waits, Stopped
  <2> QED
    BY <2>1, <2>2
<1> QED
  BY <1>2, <1>3

\* The stop itself: it aborts the wait for the timer, or there is none.
LEMMA StopStops ==
  ASSUME Knotted, TimersApart, Stopped, NEW t, interval_stop(t), cmd # "NOTHING"
  PROVE  Knotted' /\ Rests /\ Stopped'
<1>1. Shooter \in Threads /\ User(t) /\ timer1 \in Lists
  BY IntervalometerAssumption, InterNames DEF interval_stop, Stmt
<1>2. CASE timer_abort(t, timer1, Shooter)
  BY <1>2, AbortRests DEF Stopped
<1>3. CASE ~ threadList_has(k, timer1, Shooter) /\ Return(t) /\ UNCHANGED <<k, now, due>>
  <2>1. UNCHANGED <<k, pc, now, due>>
    BY <1>3 DEF Return
  <2>2. Shooter \notin On(k, timer1)
    BY <1>3, InterNames DEF threadList_has, On, Links
  <2>3. Shooter \in Active(k) \/ timer1 \notin In(pc[Shooter])
    <3>1. Strung(k, Waiting, Ranked(TimerUses) \cap Added, Added)
      BY DEF Knotted, Knit
    <3>2. Shooter \in Active(k) \/ timer1 \notin Waiting[Shooter]
      BY <1>1, <2>2, <3>1, HeldOn
    <3> QED
      BY <1>1, <3>2 DEF Waiting
  <2> QED
    BY <1>1, <2>1, <2>3, UserRests DEF Stopped
<1> QED
  BY <1>2, <1>3 DEF interval_stop

LEMMA NextStopped ==
  ASSUME TimersApart, Knotted, Stopped, [InterNext]_interVars
  PROVE  Knotted' /\ Stopped'
<1>1. CASE Systems /\ UNCHANGED cmd
  BY <1>1, SystemRests, KeepsStopped
<1>2. ASSUME NEW t, commands(t) PROVE Knotted' /\ Stopped'
  <2>1. CASE Resting(t) /\ cmd' \in {cmd, "INTER", "HDR"}
    BY <2>1, RestingKnots, KeepsStopped
  <2>2. CASE Pausing(t, commandEvent) /\ UNCHANGED cmd
    <3>1. Knotted' /\ Waits(t, commandEvent) /\ commandEvent # timer1
      BY <2>2, InterNames, PausingKnots
    <3> QED
      BY <2>2, <3>1, KeepsStopped
  <2> QED
    BY <1>2, <2>1, <2>2, CommandCalls, StopStops
<1>3. ASSUME NEW t, intervalometer_task(t) PROVE Knotted' /\ Stopped'
  <2>1. CASE Resting(t) /\ cmd' \in {cmd, "NOTHING"}
    BY <2>1, RestingKnots, KeepsStopped
  <2>2. CASE Pausing(t, commandEvent) /\ UNCHANGED cmd
    <3>1. Knotted' /\ Waits(t, commandEvent) /\ commandEvent # timer1
      BY <2>2, InterNames, PausingKnots
    <3> QED
      BY <2>2, <3>1, KeepsStopped
  <2>3. CASE Pausing(t, timer1) /\ cmd # "STOP" /\ UNCHANGED cmd
    <3>1. Knotted' /\ Waits(t, timer1)
      BY <2>3, PausingKnots
    <3> QED
      BY <2>3, <3>1, KeepsStopped
  <2> QED
    BY <1>3, <2>1, <2>2, <2>3, ShooterCalls
<1>4. ASSUME NEW t, t # Shooter, prompt_task(t) \/ switch_task(t) PROVE Knotted' /\ Stopped'
  <2>1. CASE Resting(t)
    BY <1>4, <2>1, ClientCalls, RestingKnots, KeepsStopped
  <2>2. ASSUME NEW l, Pausing(t, l) PROVE Knotted' /\ Stopped'
    <3>1. Knotted' /\ Waits(t, l) /\ UNCHANGED cmd
      BY <1>4, <2>2, ClientCalls, PausingKnots
    <3> QED
      BY <1>4, <3>1, KeepsStopped
  <2> QED
    BY <1>4, <2>1, <2>2, ClientCalls
<1>5. CASE UNCHANGED interVars
  <2>1. UNCHANGED <<k, critical, sr, pc, now, due, cmd>>
    BY <1>5 DEF interVars, programVars, driverVars, mutexVars, ownVars
  <2>2. Layer(InterPoints)'
    BY <2>1 DEF Knotted, Layer
  <2>3. Steps(TimerUses, {})
    BY <2>1, <2>2, KnottedFit, StutterStep
  <2> QED
    BY <2>1, <2>2, <2>3 DEF Knotted, Framed, Booting, Stopped, Steps
<1>6. Prompt # Shooter /\ Switch # Shooter
  BY IntervalometerAssumption
<1>7. CASE InterNext
  <2>1. CASE /\ \/ KernelSteps({"isr"})
                \/ \E t \in Threads : Tick(t, timer1) \/ Interrupt(t, Line)
             /\ UNCHANGED ownVars
    BY <1>1, <2>1 DEF Systems, ownVars
  <2>2. ASSUME NEW t \in Threads, _port1_isr(t) PROVE Knotted' /\ Stopped'
    BY <1>1, <2>2 DEF Systems, _port1_isr, ownVars
  <2> QED
    BY <1>2, <1>3, <1>4, <1>6, <1>7, <2>1, <2>2 DEF InterNext
<1> QED
  BY <1>5, <1>7

\* Whatever the threads, the ticks, the lines and the switch do: once a stop has aborted
\* the wait of the shooter, it does not wait for the timer again until the process is
\* over (intervalometer.c:157-166).  TimersApart: who waits in a priority list has its
\* priority for itself and keeps it, and only a wait for nothing but a timer is aborted.
THEOREM StopsAreNotSleptOver ==
  ASSUME TimersApart
  PROVE  InterSpec => []StopNotSleptOver
<1>1. InterInit => Knotted /\ Stopped
  BY InitKnotted DEF InterInit, Stopped
<1>2. Knotted /\ Stopped /\ [InterNext]_interVars => Knotted' /\ Stopped'
  BY NextStopped
<1>3. Knotted /\ Stopped => StopNotSleptOver
  BY StoppedSafe
<1> QED
  BY <1>1, <1>2, <1>3, PTL DEF InterSpec

-----------------------------------------------------------------------------
(* Who waits for the timer has turned it on. *)

\* The shooter is the thread of the highest priority, and stays it.
ShooterFirst ==
  Meek /\ \A t \in Threads \ {Shooter, Background} : Prior[Shooter] < Prior[t]

\* It waits in a prior list.
LEMMA ShooterRanked == Ranked(TimerUses) # {}
<1> DEFINE u == <<Shooter, {commandEvent}>>
<1>1. /\ Shooter \in Threads /\ <<Shooter, commandEvent>> \in EventUsers
      /\ commandEvent \in PriorLists
  BY IntervalometerAssumption, InterNames
<1>2. u \in TimerUses
  <2>1. <<Shooter, commandEvent>>[1] = Shooter /\ <<Shooter, commandEvent>>[2] = commandEvent
    OBVIOUS
  <2> QED
    BY <1>1, <2>1 DEF TimerUses
<1>3. u[1] = Shooter /\ u[2] = {commandEvent}
  OBVIOUS
<1> QED
  BY <1>1, <1>2, <1>3 DEF Ranked

\* It runs whenever it can.
LEMMA ShooterRuns ==
  ASSUME Knotted, ShooterFirst, pc[Background].at # "boot", Shooter \in Active(k)
  PROVE  k.running = Shooter
<1>1. /\ Shooter \in Threads \ {Background} /\ <<Shooter, commandEvent>> \in EventUsers
      /\ commandEvent \in PriorLists
  BY IntervalometerAssumption, InterNames
<1>2. Ranked(TimerUses) # {}
  BY ShooterRanked
<1>3. /\ Highest(k) /\ Dispatched(k) /\ Active(k) \subseteq Added /\ k.running \in Active(k)
      /\ \A t \in Added : k.prior[t] = IF t = Background THEN Lowest ELSE Prior[t]
  <2>1. Dispatched(k) /\ Active(k) \subseteq Added
    BY <1>2 DEF Knotted, Knit, Strung
  <2>2. Highest(k)
    BY DEF Knotted, Booting, ShooterFirst
  <2>3. k.running \in Active(k)
    BY <2>1 DEF Dispatched, Active
  <2>4. \A t \in Added : k.prior[t] = IF t = Background THEN Lowest ELSE Prior[t]
    BY <1>2 DEF Knotted, Knit
  <2> QED
    BY <2>1, <2>2, <2>3, <2>4
<1>4. SUFFICES ASSUME k.running # Shooter PROVE FALSE
  OBVIOUS
<1>5. PICK p \in Priors : Shooter \in ReadyOf(k, p)
  BY <1>4 DEF Active, IsReady
<1>6. k.prior[Shooter] = p /\ k.first[p] # NULL
  BY <1>3, <1>5, ChainNull DEF Dispatched, WellQueued, ReadyOf
<1>7. k.prior[k.running] <= Prior[Shooter]
  BY <1>1, <1>3, <1>5, <1>6 DEF Highest, ReadyPriors
<1>8. Prior[Shooter] \in 0 .. Lowest - 1 /\ Lowest \in Int
  BY <1>1, KernelAssumption, ListAssumption
<1>9. k.running \in Threads /\ k.running \in Added
  BY <1>3 DEF Active
<1>10. k.running # Background => Prior[k.running] \in Int
  BY <1>9, KernelAssumption
<1> QED
  BY <1>3, <1>4, <1>7, <1>8, <1>9, <1>10 DEF ShooterFirst

\* The statements of the other threads.
PromptAts == {"enter", "prompt", "command", "typing", "typed"}
SwitchAts == {"press", "pressing", "pressEnd", "pressed", "callStop", "callRun",
              "release", "releasing", "releaseEnd", "debounce", "bounce", "steady"}
CallAts   == {"INTER", "HDR", "stop", "stopping", "back"}

Place(t, r) ==
  /\ "at" \in DOMAIN r
  /\ t = Prompt => r.at \in PromptAts \cup CallAts
  /\ t = Switch => r.at \in SwitchAts \cup CallAts
  /\ t \notin {Prompt, Switch} => r.at = "none"
  /\ r.at \in CallAts =>
       "then" \in DOMAIN r /\ r.then = IF t = Prompt THEN "prompt" ELSE "release"

Placed == \A t \in Threads \ {Shooter} : Place(t, task[t])

\* Where they turn the timer on, or have it on.
Dozing == {"lead", "led", "exposed", "gap", "focused"}
Early  == {"delay", "lead", "led"}
Using  == Commanded \cup {"bounce", "steady"}

\* A thread waits there, at that list.
Sits(t, seat) ==
  \/ seat = {}
  \/ seat = {commandEvent} /\ t = Shooter /\ task[t].at = "idle" /\ cmd = "NOTHING"
  \/ seat = {timer1} /\ t = Shooter /\ task[t].at \in Dozing
  \/ seat = {timer1} /\ t = Switch /\ task[t].at = "steady"
  \/ seat \subseteq {Line, _switch} /\ t # Shooter

Seats == \A t \in Threads \ Active(k) : Sits(t, In(pc[t]))

\* A stop is called inside of the critical section that counted the leaks.
Held ==
  /\ DOMAIN sr = Threads
  /\ \A t \in Threads \ {Shooter} :
       task[t].at = "stop" => User(t) /\ ~ sr[t] /\ ~ Leaking

Halting == cmd = "STOP" => task[Shooter].at \in Commanded \cup {"park"}

\* The driver counts who uses the timer, and the stops that left it on.
Uses(t) == IF task[t].at \in Using THEN 1 ELSE 0
Users   == Uses(Shooter) + Uses(Switch)
Leaks   == qty[timer1] - Users

Tally ==
  /\ DOMAIN qty = TickLists /\ DOMAIN running = TickLists
  /\ qty[timer1] \in Int /\ Leaks \in 0 .. MaxLeaks
  /\ cmd = "STOP" /\ task[Shooter].at \in Early => Leaks < MaxLeaks
  /\ qty[timer1] > 0 => running[timer1]

Tended == Following /\ Stopped /\ Placed /\ Seats /\ Held /\ Halting /\ Tally

LEMMA TendedSafe == Knotted /\ Tended => SleeperTimed
<1> SUFFICES ASSUME Knotted, Tended, NEW tm \in TickLists, NEW t \in Sleepers(tm)
             PROVE  running[tm]
  BY DEF SleeperTimed
<1>1. t \in On(k, tm) /\ tm \in Lists /\ tm \notin PriorLists
  BY OnLists, ListAssumption DEF Lists
<1>2. Strung(k, Waiting, Ranked(TimerUses) \cap Added, Added)
  BY DEF Knotted, Knit
<1>3. t \in Threads \ Active(k) /\ tm \in Waiting[t]
  BY <1>1, <1>2, HeldOn
<1>4. tm \in In(pc[t]) /\ Sits(t, In(pc[t]))
  BY <1>3 DEF Waiting, Tended, Seats
<1>5. /\ tm = timer1
      /\ \/ t = Shooter /\ task[t].at \in Dozing
         \/ t = Switch /\ task[t].at = "steady"
  BY <1>1, <1>4, InterNames DEF Sits
<1>6. Uses(Shooter) \in 0 .. 1 /\ Uses(Switch) \in 0 .. 1 /\ Uses(t) = 1
  BY <1>5 DEF Uses, Using, Dozing, Commanded, Focusing, Exposing, Between
<1>7. qty[timer1] > 0
  BY <1>5, <1>6, IntervalometerAssumption DEF Tended, Tally, Leaks, Users
<1> QED
  BY <1>5, <1>7 DEF Tended, Tally

\* The shooter waits for a command, or for the timer.
LEMMA ShooterSits ==
  ASSUME Knotted, Tended, ShooterFirst, pc[Background].at # "boot", k.running # Shooter
  PROVE  /\ Shooter \in Threads \ Active(k)
         /\ \/ In(pc[Shooter]) = {commandEvent} /\ task[Shooter].at = "idle" /\ cmd = "NOTHING"
            \/ /\ In(pc[Shooter]) = {timer1} /\ task[Shooter].at \in Dozing
               /\ cmd \notin {"NOTHING", "STOP"}
<1>1. Shooter \in Threads \ Active(k)
  BY ShooterRuns, IntervalometerAssumption
<1>2. In(pc[Shooter]) # {}
  <2>1. In(pc[Shooter]) # {} \/ pc[Shooter].at \in {"suspend", "new"}
    BY <1>1 DEF Knotted, Knit, Waiting
  <2>2. pc[Shooter].at \notin {"new", "suspend"}
    <3>1. pc[Shooter].at # "new" /\ Shooter # Background
      BY <1>1, IntervalometerAssumption DEF Knotted, Booting
    <3>2. pc[Shooter] \in Frames(Base(Shooter))
      BY <1>1, <3>1 DEF Knotted, Framed, At
    <3> QED
      BY <1>1, <3>2, FramePoint
  <2> QED
    BY <2>1, <2>2
<1>3. Sits(Shooter, In(pc[Shooter])) /\ Shooter # Switch
  BY <1>1, IntervalometerAssumption DEF Tended, Seats
<1>4. task[Shooter].at \in Dozing => cmd # "NOTHING"
  BY DEF Tended, Following, Dozing, Commanded, Focusing, Exposing, Between
<1>5. In(pc[Shooter]) = {timer1} => cmd # "STOP"
  BY <1>1 DEF Tended, Stopped
<1> QED
  BY <1>1, <1>2, <1>3, <1>4, <1>5 DEF Sits


\* A thread changes its own record only.
Alters(t) == DOMAIN task' = Threads /\ \A u \in Threads \ {t} : task'[u] = task[u]

LEMMA Puts ==
  ASSUME DOMAIN task = Threads, NEW t \in Threads, NEW r, task' = [task EXCEPT ![t] = r]
  PROVE  Alters(t) /\ task'[t] = r
BY DEF Alters

LEMMA Goes ==
  ASSUME DOMAIN task = Threads, NEW t \in Threads, "at" \in DOMAIN task[t], NEW at, Goto(t, at)
  PROVE  /\ Alters(t) /\ DOMAIN task'[t] = DOMAIN task[t] /\ task'[t].at = at
         /\ "then" \in DOMAIN task[t] => task'[t].then = task[t].then
<1>1. task' = [task EXCEPT ![t] = [task[t] EXCEPT !.at = at]]
  BY DEF Goto
<1> QED
  BY <1>1, Puts

\* What the shooter does between two statements.
Works(from, to) ==
  \/ /\ Resting(Shooter) /\ UNCHANGED <<qty, running>>
     /\ \/ from = "enter" /\ to = "park" /\ cmd' = cmd
        \/ from = "park" /\ to = "idle" /\ cmd' = "NOTHING"
        \/ from \in Early /\ to = "park" /\ cmd = "STOP" /\ cmd' = cmd
        \/ from \in Commanded /\ to \in Commanded \ Early /\ cmd' = cmd
        \/ from \in Commanded /\ to \in Commanded /\ cmd # "STOP" /\ cmd' = cmd
  \/ /\ Resting(Shooter) /\ cmd' = cmd
     /\ \/ timer_on(Shooter, timer1) /\ from = "idle" /\ to = "delay" /\ cmd # "NOTHING"
        \/ timer_off(Shooter, timer1) /\ from = "off" /\ to = "park"
  \/ /\ UNCHANGED <<qty, running, cmd>>
     /\ \/ Pausing(Shooter, commandEvent) /\ from = "idle" /\ to = "idle" /\ cmd = "NOTHING"
        \/ /\ Pausing(Shooter, timer1) /\ from \in Commanded /\ to \in Dozing
           /\ cmd # "STOP"

LEMMA ShooterWorks ==
  ASSUME Following, intervalometer_task(Shooter)
  PROVE  Alters(Shooter) /\ "at" \in DOMAIN task'[Shooter]
         /\ Works(task[Shooter].at, task'[Shooter].at)
<1> DEFINE Outcome == /\ Alters(Shooter) /\ "at" \in DOMAIN task'[Shooter]
                      /\ Works(task[Shooter].at, task'[Shooter].at)
<1>1. DOMAIN task = Threads /\ Shooter \in Threads /\ "at" \in DOMAIN task[Shooter]
  BY IntervalometerAssumption DEF Following
<1>2. \A at : Goto(Shooter, at) => /\ Alters(Shooter) /\ "at" \in DOMAIN task'[Shooter]
                                   /\ task'[Shooter].at = at
  BY <1>1, Goes
<1>3. \A r : "at" \in DOMAIN r /\ task' = [task EXCEPT ![Shooter] = r] =>
        Alters(Shooter) /\ "at" \in DOMAIN task'[Shooter] /\ task'[Shooter] = r
  BY <1>1, Puts
<1>4. ASSUME NEW at, Stmt(Shooter, at), NEW to, NEW shine, Jump(Shooter, to, shine)
      PROVE  /\ Alters(Shooter) /\ "at" \in DOMAIN task'[Shooter]
             /\ task[Shooter].at = at /\ task'[Shooter].at = to
             /\ Resting(Shooter) /\ UNCHANGED <<qty, running, cmd>>
  <2>1. Resting(Shooter)
    BY <1>4, StmtCalls DEF Jump
  <2> QED
    BY <1>2, <1>4, <2>1 DEF Jump, Stmt, driverOnly
<1>5. ASSUME NEW at \in Commanded, Stmt(Shooter, at), cmd # "STOP", NEW r, "at" \in DOMAIN r,
             r.at \in Dozing, NEW shine, NEW to, to = [task EXCEPT ![Shooter] = r],
             \E d : \/ Wait(Shooter, timer_period(Shooter, timer1, d), to, shine)
                    \/ Wait(Shooter, timer_shift(Shooter, timer1, d), to, shine)
      PROVE  Outcome
  <2>1. Pausing(Shooter, timer1) /\ UNCHANGED <<qty, running, cmd>> /\ task' = to
    BY <1>5, TimerCalls1 DEF Wait
  <2>2. Alters(Shooter) /\ task'[Shooter] = r
    BY <1>3, <1>5, <2>1
  <2> QED
    BY <1>5, <2>1, <2>2 DEF Works, Stmt
<1>6. ASSUME NEW at \in Commanded, Stmt(Shooter, at), cmd # "STOP", NEW j, "at" \in DOMAIN j,
             expose(Shooter, j)
      PROVE  Outcome
  <2> DEFINE r == [j EXCEPT !.at = "exposed", !.since = now[timer1]]
  <2>1. "at" \in DOMAIN r /\ r.at = "exposed"
    BY <1>6
  <2>2. "exposed" \in Dozing
    BY DEF Dozing
  <2>3. Wait(Shooter, timer_period(Shooter, timer1, exposure(j)),
             [task EXCEPT ![Shooter] = r], {"shut"})
    BY <1>6 DEF expose
  <2> HIDE DEF r
  <2> QED
    BY <1>5, <1>6, <2>1, <2>2, <2>3
<1>7. ASSUME NEW at \in Commanded, Stmt(Shooter, at), cmd # "STOP", NEW to \in Dozing, NEW shine,
             \E d : Wait(Shooter, timer_period(Shooter, timer1, d),
                         [task EXCEPT ![Shooter].at = to], shine)
      PROVE  Outcome
  <2> DEFINE r == [task[Shooter] EXCEPT !.at = to]
  <2>1. "at" \in DOMAIN r /\ r.at = to
    BY <1>1
  <2>2. [task EXCEPT ![Shooter].at = to] = [task EXCEPT ![Shooter] = r]
    BY <1>1
  <2> HIDE DEF r
  <2> QED
    BY <1>5, <1>7, <2>1, <2>2
<1>8. CASE Enter(Shooter, "enter", "park") /\ UNCHANGED ownVars
  <2>1. Resting(Shooter) /\ UNCHANGED <<qty, running, cmd>>
    BY <1>8, StmtCalls DEF Enter, ownVars, driverOnly
  <2> QED
    BY <1>2, <1>8, <2>1 DEF Enter, Stmt, Works
<1>9. CASE park(Shooter)
  <2>1. Resting(Shooter) /\ UNCHANGED <<qty, running>>
    BY <1>9, StmtCalls DEF park, driverOnly
  <2> QED
    BY <1>2, <1>9, <2>1 DEF park, Stmt, Works
<1>10. CASE idle(Shooter)
  <2>1. Stmt(Shooter, "idle") /\ UNCHANGED cmd
    BY <1>10 DEF idle, ownVars
  <2>2. CASE cmd = "NOTHING" /\ event_wait(Shooter, commandEvent) /\ UNCHANGED <<task, driverOnly>>
    <3>1. Pausing(Shooter, commandEvent) /\ UNCHANGED <<qty, running, task>>
      BY <2>1, <2>2, InterNames, StmtCalls DEF driverOnly
    <3> QED
      BY <1>1, <2>1, <2>2, <3>1 DEF Works, Stmt, Alters
  <2>3. CASE cmd # "NOTHING" /\ timer_on(Shooter, timer1)
    <3> DEFINE r == [at |-> "delay", delay |-> set.delay, intv |-> set.intv,
                     long |-> 0, i |-> 0, speed |-> 0, since |-> 0]
    <3>1. "at" \in DOMAIN r /\ r.at = "delay"
      OBVIOUS
    <3>2. task' = [task EXCEPT ![Shooter] = r]
      BY <1>10, <2>3 DEF idle
    <3> HIDE DEF r
    <3>3. Resting(Shooter)
      BY <2>1, <2>3, TimerCalls1
    <3> QED
      BY <1>3, <2>1, <2>3, <3>1, <3>2, <3>3 DEF Works, Stmt
  <2> QED
    BY <1>10, <2>2, <2>3 DEF idle
<1>11. /\ {"delay", "lead", "led"} \subseteq Early
       /\ {"delay", "lead", "led", "exposed", "gap", "focused", "off"} \subseteq Commanded
       /\ {"lead", "led", "exposed", "gap", "focused"} \subseteq Dozing /\ "off" \notin Early
  BY DEF Early, Dozing, Commanded, Focusing, Exposing, Between
<1>12. CASE delay(Shooter)
  <2>1. Stmt(Shooter, "delay")
    BY <1>12 DEF delay
  <2>2. CASE cmd = "STOP" /\ Jump(Shooter, "park", leds)
    BY <1>4, <1>11, <2>1, <2>2 DEF Works
  <2>3. CASE cmd # "STOP" /\ Jump(Shooter, "lead", leds)
    BY <1>4, <1>11, <2>1, <2>3 DEF Works
  <2>4. CASE cmd # "STOP" /\ \E d : Wait(Shooter, timer_period(Shooter, timer1, d),
                                          [task EXCEPT ![Shooter].at = "lead"], leds)
    BY <1>7, <1>11, <2>1, <2>4
  <2> QED
    BY <1>12, <2>2, <2>3, <2>4 DEF delay
<1>13. CASE lead(Shooter)
  <2>1. Stmt(Shooter, "lead")
    BY <1>13 DEF lead
  <2>2. CASE cmd = "STOP" /\ Jump(Shooter, "park", leds)
    BY <1>4, <1>11, <2>1, <2>2 DEF Works
  <2>3. CASE cmd # "STOP" /\ \E d : Wait(Shooter, timer_period(Shooter, timer1, d),
                                 [task EXCEPT ![Shooter].at = "led"], leds \cup {"focus"})
    BY <1>7, <1>11, <2>1, <2>3
  <2> QED
    BY <1>13, <2>2, <2>3 DEF lead
<1>14. CASE led(Shooter)
  <2>1. Stmt(Shooter, "led")
    BY <1>14 DEF led
  <2>2. CASE cmd = "STOP" /\ Jump(Shooter, "park", leds \ {"focus"})
    BY <1>4, <1>11, <2>1, <2>2 DEF Works
  <2>3. CASE cmd # "STOP" /\ expose(Shooter, begun(task[Shooter]))
    <3>1. "at" \in DOMAIN begun(task[Shooter])
      BY <1>1 DEF begun
    <3> QED
      BY <1>6, <1>11, <2>1, <2>3, <3>1
  <2> QED
    BY <1>14, <2>2, <2>3 DEF led
<1>15. CASE exposed(Shooter)
  <2> DEFINE r == [task[Shooter] EXCEPT !.at = "gap", !.i = @ + 1,
                                        !.speed = IF cmd = "HDR" THEN @ + set.step ELSE @]
             next == [task EXCEPT ![Shooter] = r]
  <2>1. Stmt(Shooter, "exposed")
    BY <1>15 DEF exposed
  <2>2. "at" \in DOMAIN r /\ r.at = "gap"
    BY <1>1
  <2>3. next = [task EXCEPT ![Shooter].at = "gap", ![Shooter].i = @ + 1,
                    ![Shooter].speed = IF cmd = "HDR" THEN @ + set.step ELSE @]
    BY <1>1
  <2>4. \/ Jump(Shooter, "off", leds \ {"shut"})
        \/ /\ cmd # "STOP" /\ task' = next /\ UNCHANGED <<kernelVars, driverOnly, cmd, set>>
        \/ /\ cmd # "STOP"
           /\ \E d : \/ Wait(Shooter, timer_period(Shooter, timer1, d), next, leds \ {"shut"})
                     \/ Wait(Shooter, timer_shift(Shooter, timer1, d), next, leds \ {"shut"})
    <3> HIDE DEF r
    <3> QED
      BY <1>15, <2>3 DEF exposed, Wait
  <2> HIDE DEF r
  <2>5. CASE Jump(Shooter, "off", leds \ {"shut"})
    BY <1>4, <1>11, <2>1, <2>5 DEF Works
  <2>6. CASE cmd # "STOP" /\ task' = next /\ UNCHANGED <<kernelVars, driverOnly, cmd, set>>
    <3>1. Resting(Shooter) /\ UNCHANGED <<qty, running, cmd>>
      BY <2>1, <2>6, StmtCalls DEF driverOnly
    <3>2. Alters(Shooter) /\ "at" \in DOMAIN task'[Shooter] /\ task'[Shooter] = r
      BY <1>3, <2>2, <2>6
    <3> QED
      BY <1>11, <2>1, <2>2, <2>6, <3>1, <3>2 DEF Works, Stmt
  <2>7. CASE /\ cmd # "STOP"
             /\ \E d : \/ Wait(Shooter, timer_period(Shooter, timer1, d), next, leds \ {"shut"})
                       \/ Wait(Shooter, timer_shift(Shooter, timer1, d), next, leds \ {"shut"})
    <3>1. "exposed" \in Commanded /\ r.at \in Dozing
      BY <1>11, <2>2
    <3> QED
      BY <1>5, <2>1, <2>2, <2>7, <3>1
  <2> QED
    BY <2>4, <2>5, <2>6, <2>7
<1>16. CASE gap(Shooter)
  <2>1. Stmt(Shooter, "gap")
    BY <1>16 DEF gap
  <2>2. CASE Jump(Shooter, "off", leds)
    BY <1>4, <1>11, <2>1, <2>2 DEF Works
  <2>3. CASE cmd # "STOP" /\ \E d : Wait(Shooter, timer_period(Shooter, timer1, d),
                                 [task EXCEPT ![Shooter].at = "focused"], leds \cup {"focus"})
    BY <1>7, <1>11, <2>1, <2>3
  <2> QED
    BY <1>16, <2>2, <2>3 DEF gap
<1>17. CASE focused(Shooter)
  <2>1. Stmt(Shooter, "focused")
    BY <1>17 DEF focused
  <2>2. CASE Jump(Shooter, "off", leds \ {"focus"})
    BY <1>4, <1>11, <2>1, <2>2 DEF Works
  <2>3. CASE cmd # "STOP" /\ expose(Shooter, task[Shooter])
    BY <1>1, <1>6, <1>11, <2>1, <2>3
  <2> QED
    BY <1>17, <2>2, <2>3 DEF focused
<1>18. CASE off(Shooter)
  <2>1. Stmt(Shooter, "off") /\ timer_off(Shooter, timer1) /\ UNCHANGED cmd
        /\ task' = [task EXCEPT ![Shooter] = At0("park")]
    BY <1>18 DEF off, ownVars
  <2>2. Resting(Shooter)
    BY <2>1, TimerCalls1
  <2>3. "at" \in DOMAIN At0("park") /\ At0("park").at = "park"
    BY DEF At0
  <2>4. Alters(Shooter) /\ "at" \in DOMAIN task'[Shooter] /\ task'[Shooter] = At0("park")
    BY <1>3, <2>1, <2>3
  <2> QED
    BY <2>1, <2>2, <2>3, <2>4 DEF Works, Stmt
<1> HIDE DEF Outcome
<1>19. Outcome
  BY <1>8, <1>9, <1>10, <1>12, <1>13, <1>14, <1>15, <1>16, <1>17, <1>18
  DEF intervalometer_task, Outcome
<1> QED
  BY <1>19 DEF Outcome


\* What another thread does between two statements.
Aids(t, from, to) ==
  \/ /\ UNCHANGED <<cmd, qty, running>> /\ Resting(t)
     /\ \/ to # "stop" /\ (from \in Using <=> to \in Using)
        \/ /\ {from, to} \cap Using = {} /\ ~ Leaking
           /\ UNCHANGED <<k, pc>> /\ sr' = [sr EXCEPT ![t] = FALSE]
  \/ /\ UNCHANGED <<cmd, qty, running>>
     /\ \/ \E e \in {Line, _switch} : Pausing(t, e) /\ {from, to} \cap (Using \cup {"stop"}) = {}
        \/ Pausing(t, timer1) /\ t = Switch /\ from = "bounce" /\ to = "steady"
        \/ Pausing(t, commandEvent) /\ cmd = "STOP"
  \/ /\ UNCHANGED cmd /\ Resting(t) /\ t = Switch
     /\ \/ timer_on(t, timer1) /\ from = "debounce" /\ to = "bounce"
        \/ timer_off(t, timer1) /\ from = "steady" /\ to = "press"
  \/ /\ cmd = "NOTHING" /\ cmd' \in {"INTER", "HDR"} /\ {from, to} \cap (Using \cup {"stop"}) = {}
     /\ event_notify(t, commandEvent) /\ UNCHANGED <<now, due, qty, running>>
  \/ /\ cmd # "NOTHING" /\ cmd' = "STOP" /\ from = "stop" /\ to = "stopping"
     /\ interval_stop(t) /\ UNCHANGED <<qty, running>>

LEMMA NotUsing ==
  /\ (PromptAts \cup CallAts) \cap Using = {} /\ "none" \notin Using
  /\ "stop" \notin PromptAts \cup SwitchAts
  /\ \A at \in SwitchAts : at \in Using => at \in {"bounce", "steady"}
BY DEF PromptAts, SwitchAts, CallAts, Using, Commanded, Focusing, Exposing, Between

LEMMA CommandWorks ==
  ASSUME Placed, DOMAIN task = Threads, NEW t \in Threads \ {Shooter}, commands(t)
  PROVE  Alters(t) /\ Place(t, task'[t]) /\ Aids(t, task[t].at, task'[t].at)
<1> DEFINE Outcome == Alters(t) /\ Place(t, task'[t]) /\ Aids(t, task[t].at, task'[t].at)
<1>1. /\ Place(t, task[t]) /\ "at" \in DOMAIN task[t] /\ "none" \notin CallAts
      /\ {"INTER", "HDR", "stop", "stopping", "back"} = CallAts
  BY DEF Placed, Place, CallAts
<1>2. ASSUME NEW from \in CallAts, Stmt(t, from), NEW to \in CallAts, Goto(t, to)
      PROVE  /\ Alters(t) /\ Place(t, task'[t]) /\ task'[t].at = to /\ task[t].at = from
             /\ from \notin Using /\ to \notin Using
  <2>1. /\ Alters(t) /\ DOMAIN task'[t] = DOMAIN task[t] /\ task'[t].at = to
        /\ "then" \in DOMAIN task[t] => task'[t].then = task[t].then
    BY <1>1, <1>2, Goes
  <2>2. task[t].at = from
    BY <1>2 DEF Stmt
  <2> QED
    BY <1>1, <1>2, <2>1, <2>2, NotUsing DEF Place
<1>3. ASSUME NEW c \in {"INTER", "HDR"}, _setCommand(t, c) PROVE Outcome
  <2>1. /\ Stmt(t, c) /\ Goto(t, "back") /\ UNCHANGED <<now, due, qty, running>>
        /\ UNCHANGED driverOnly
        /\ \/ cmd = "NOTHING" /\ cmd' = c /\ event_notify(t, commandEvent)
           \/ UNCHANGED <<kernelVars, cmd>>
    BY <1>3 DEF _setCommand, driverOnly, aboveKernel
  <2>2. /\ Alters(t) /\ Place(t, task'[t]) /\ task'[t].at = "back" /\ task[t].at = c
        /\ c \notin Using /\ "back" \notin Using
    BY <1>1, <1>2, <2>1
  <2>3. UNCHANGED kernelVars => Resting(t)
    BY <2>1, StmtCalls
  <2> QED
    BY <2>1, <2>2, <2>3 DEF Aids
<1>4. CASE interval_stop(t)
  <2>1. /\ Stmt(t, "stop") /\ UNCHANGED <<qty, running>>
        /\ \/ cmd = "NOTHING" /\ Goto(t, "back") /\ UNCHANGED <<kernelVars, now, due, cmd>>
           \/ cmd # "NOTHING" /\ cmd' = "STOP" /\ Goto(t, "stopping")
    BY <1>4 DEF interval_stop
  <2>2. CASE cmd = "NOTHING" /\ Goto(t, "back") /\ UNCHANGED <<kernelVars, now, due, cmd>>
    <3>1. /\ Alters(t) /\ Place(t, task'[t]) /\ task'[t].at = "back" /\ task[t].at = "stop"
          /\ "stop" \notin Using /\ "back" \notin Using
      BY <1>1, <1>2, <2>1, <2>2
    <3>2. Resting(t)
      BY <2>1, <2>2 DEF Resting, Stmt, kernelVars
    <3> QED
      BY <2>1, <2>2, <3>1, <3>2 DEF Aids
  <2>3. CASE cmd # "NOTHING" /\ cmd' = "STOP" /\ Goto(t, "stopping")
    <3>1. Alters(t) /\ Place(t, task'[t]) /\ task'[t].at = "stopping" /\ task[t].at = "stop"
      BY <1>1, <1>2, <2>1, <2>3
    <3> QED
      BY <1>4, <2>1, <2>3, <3>1 DEF Aids
  <2> QED
    BY <2>1, <2>2, <2>3
<1>5. CASE interval_stopped(t)
  <2>1. /\ Stmt(t, "stopping") /\ UNCHANGED <<qty, running, cmd>> /\ UNCHANGED driverOnly
        /\ \/ cmd = "STOP" /\ event_wait(t, commandEvent) /\ UNCHANGED task
           \/ Goto(t, "back") /\ UNCHANGED kernelVars
    BY <1>5 DEF interval_stopped, driverOnly, ownVars
  <2>2. CASE cmd = "STOP" /\ event_wait(t, commandEvent) /\ UNCHANGED task
    <3>1. Pausing(t, commandEvent)
      BY <2>1, <2>2, InterNames, StmtCalls
    <3> QED
      BY <1>1, <2>1, <2>2, <3>1 DEF Aids, Alters
  <2>3. CASE Goto(t, "back") /\ UNCHANGED kernelVars
    <3>1. /\ Alters(t) /\ Place(t, task'[t]) /\ task'[t].at = "back" /\ task[t].at = "stopping"
          /\ "stopping" \notin Using /\ "back" \notin Using
      BY <1>1, <1>2, <2>1, <2>3
    <3>2. Resting(t)
      BY <2>1, <2>3, StmtCalls
    <3> QED
      BY <2>1, <3>1, <3>2 DEF Aids
  <2> QED
    BY <2>1, <2>2, <2>3
<1>6. CASE Back(t)
  <2>1. /\ Stmt(t, "back") /\ task_exitCritical(t) /\ UNCHANGED driverOnly
        /\ task' = [task EXCEPT ![t] = At0(task[t].then)] /\ UNCHANGED <<qty, running, cmd>>
    BY <1>6 DEF Back, driverOnly, ownVars
  <2>2. Alters(t) /\ task'[t] = At0(task[t].then)
    BY <2>1, Puts
  <2>3. Resting(t)
    BY <2>1, StmtCalls
  <2>4. /\ task[t].at = "back" /\ "back" \in CallAts
        /\ task[t].then = IF t = Prompt THEN "prompt" ELSE "release"
        /\ t \in {Prompt, Switch}
    BY <1>1, <2>1 DEF Stmt, Place
  <2>5. "prompt" \in PromptAts /\ "release" \in SwitchAts /\ "release" \notin Using
        /\ {"prompt", "release"} \cap CallAts = {}
    BY DEF PromptAts, SwitchAts, CallAts, Using, Commanded, Focusing, Exposing, Between
  <2>6. Place(t, task'[t]) /\ task'[t].at \in {"prompt", "release"}
    BY <2>2, <2>4, <2>5, IntervalometerAssumption DEF Place, At0
  <2> QED
    BY <2>1, <2>2, <2>3, <2>4, <2>5, <2>6, NotUsing DEF Aids
<1> HIDE DEF Outcome
<1>7. Outcome
  BY <1>3, <1>4, <1>5, <1>6 DEF commands, Outcome
<1> QED
  BY <1>7 DEF Outcome


\* A call that goes on at another statement of the same thread.
LEMMA GoesOn ==
  ASSUME DOMAIN task = Threads, NEW t \in Threads \ {Shooter}, Place(t, task[t]),
         NEW from, NEW to, Stmt(t, from), Goto(t, to),
         NEW Ats, Ats = IF t = Prompt THEN PromptAts ELSE SwitchAts,
         t \in {Prompt, Switch}, from \in Ats, to \in Ats
  PROVE  /\ Alters(t) /\ Place(t, task'[t]) /\ task[t].at = from /\ task'[t].at = to
         /\ from # "stop" /\ to # "stop"
<1>1. Alters(t) /\ DOMAIN task'[t] = DOMAIN task[t] /\ task'[t].at = to
  BY Goes DEF Place
<1>2. task[t].at = from
  BY DEF Stmt
<1>3. Ats \cap CallAts = {}
  BY DEF PromptAts, SwitchAts, CallAts
<1> QED
  BY <1>1, <1>2, <1>3, IntervalometerAssumption, NotUsing DEF Place

LEMMA PromptWorks ==
  ASSUME Placed, DOMAIN task = Threads, prompt_task(Prompt)
  PROVE  Alters(Prompt) /\ Place(Prompt, task'[Prompt])
         /\ Aids(Prompt, task[Prompt].at, task'[Prompt].at)
<1> DEFINE t == Prompt
           Outcome == Alters(t) /\ Place(t, task'[t]) /\ Aids(t, task[t].at, task'[t].at)
<1>1. t \in Threads \ {Shooter} /\ Place(t, task[t]) /\ "at" \in DOMAIN task[t] /\ t # Switch
  BY IntervalometerAssumption DEF Placed, Place
<1>2. /\ {"enter", "prompt", "command", "typing", "typed"} = PromptAts
      /\ {"INTER", "HDR", "stop"} \subseteq CallAts
      /\ \A at \in PromptAts \cup CallAts : at \notin Using
      /\ "stop" \notin PromptAts /\ PromptAts \cap CallAts = {}
  BY NotUsing DEF PromptAts, CallAts
<1>3. ASSUME NEW from \in PromptAts, Stmt(t, from), NEW to \in PromptAts, Goto(t, to)
      PROVE  /\ Alters(t) /\ Place(t, task'[t]) /\ task[t].at = from /\ task'[t].at = to
  BY <1>1, <1>3, GoesOn
<1>4. ASSUME Alters(t), Place(t, task'[t]), task[t].at \in PromptAts, task'[t].at \in PromptAts,
             UNCHANGED <<cmd, qty, running>>,
             Resting(t) \/ Pausing(t, Line)
      PROVE  Outcome
  BY <1>2, <1>4 DEF Aids
<1>5. ASSUME NEW from \in PromptAts, NEW to \in PromptAts, Reads(t, Line, from, to), UNCHANGED ownVars
      PROVE  Outcome
  <2>1. Stmt(t, from) /\ Goto(t, to) /\ UNCHANGED driverOnly /\ UNCHANGED <<cmd, qty, running>>
    BY <1>5 DEF Reads, Local, WaitEvent, ownVars, driverOnly
  <2>2. Resting(t) \/ Pausing(t, Line)
    BY <1>5, <2>1, StmtCalls, InterNames DEF Reads, Local, WaitEvent
  <2> QED
    BY <1>3, <1>4, <2>1, <2>2
<1>6. CASE Enter(t, "enter", "prompt") /\ UNCHANGED ownVars
  <2>1. /\ Stmt(t, "enter") /\ Goto(t, "prompt") /\ UNCHANGED driverOnly /\ task_enterCritical(t)
        /\ UNCHANGED <<cmd, qty, running>>
    BY <1>6 DEF Enter, ownVars, driverOnly
  <2>2. Resting(t)
    BY <2>1, StmtCalls
  <2> QED
    BY <1>2, <1>3, <1>4, <2>1, <2>2
<1>7. CASE command(t)
  <2>1. /\ Stmt(t, "command") /\ UNCHANGED driverOnly /\ task_enterCritical(t)
        /\ UNCHANGED <<cmd, qty, running>>
    BY <1>7 DEF command, ownVars, driverOnly
  <2>2. PICK at \in {"INTER", "HDR", "stop"} : (at = "stop" => ~ Leaking) /\ Call(t, at, "prompt")
    BY <1>7 DEF command
  <2>3. Alters(t) /\ task'[t] = [at |-> at, then |-> "prompt"]
    BY <1>1, <2>2, Puts DEF Call
  <2>4. Place(t, task'[t]) /\ task'[t].at = at
    BY <1>1, <1>2, <2>3 DEF Place
  <2>5. Resting(t) /\ UNCHANGED <<k, pc>> /\ sr' = [sr EXCEPT ![t] = FALSE]
    BY <2>1, StmtCalls DEF task_enterCritical
  <2>6. task[t].at = "command" /\ task[t].at \notin Using /\ at \notin Using
    BY <1>2, <2>1 DEF Stmt
  <2> QED
    BY <2>1, <2>2, <2>3, <2>4, <2>5, <2>6 DEF Aids
<1>8. CASE enterSettings(t)
  <2>1. /\ Stmt(t, "command") /\ UNCHANGED driverOnly /\ UNCHANGED kernelVars
        /\ UNCHANGED <<cmd, qty, running>>
    BY <1>8 DEF enterSettings, ownVars, driverOnly
  <2>2. Resting(t) /\ task[t].at = "command"
    BY <2>1, StmtCalls DEF Stmt
  <2>3. CASE Goto(t, "prompt")
    BY <1>2, <1>3, <1>4, <2>1, <2>2, <2>3
  <2>4. ASSUME NEW s, task' = [task EXCEPT ![t] = [at |-> "typing", n |-> 1, goal |-> s]]
        PROVE  Outcome
    <3>1. Alters(t) /\ task'[t] = [at |-> "typing", n |-> 1, goal |-> s]
      BY <1>1, <2>4, Puts
    <3>2. Place(t, task'[t]) /\ task'[t].at = "typing"
      BY <1>1, <1>2, <3>1 DEF Place
    <3> QED
      BY <1>2, <1>4, <2>1, <2>2, <3>1, <3>2
  <2> QED
    BY <1>8, <2>3, <2>4 DEF enterSettings
<1>9. CASE typed(t)
  <2>1. /\ Stmt(t, "typed") /\ UNCHANGED driverOnly /\ UNCHANGED kernelVars
        /\ UNCHANGED <<cmd, qty, running>>
    BY <1>9 DEF typed, driverOnly
  <2>2. Resting(t) /\ task[t].at = "typed"
    BY <2>1, StmtCalls DEF Stmt
  <2>3. CASE Goto(t, "typing")
    BY <1>2, <1>3, <1>4, <2>1, <2>2, <2>3
  <2>4. ASSUME NEW r, r = At0("prompt") \/ r = [task[t] EXCEPT !.at = "typing", !.n = @ + 1],
               task' = [task EXCEPT ![t] = r]
        PROVE  Outcome
    <3>1. Alters(t) /\ task'[t] = r
      BY <1>1, <2>4, Puts
    <3>2. "at" \in DOMAIN r /\ r.at \in {"prompt", "typing"}
      <4>1. "at" \in DOMAIN At0("prompt") /\ At0("prompt").at = "prompt"
        BY DEF At0
      <4>2. LET next == [task[t] EXCEPT !.at = "typing", !.n = @ + 1] IN
            "at" \in DOMAIN next /\ next.at = "typing"
        BY <1>1
      <4> QED
        BY <2>4, <4>1, <4>2
    <3>3. Place(t, task'[t]) /\ task'[t].at \in PromptAts
      BY <1>1, <1>2, <3>1, <3>2 DEF Place
    <3> QED
      BY <1>2, <1>4, <2>1, <2>2, <3>1, <3>3
  <2> QED
    BY <1>9, <2>3, <2>4 DEF typed
<1> HIDE DEF Outcome
<1>10. Outcome
  <2>1. CASE Reads(t, Line, "prompt", "command") /\ UNCHANGED ownVars
    <3>1. "prompt" \in PromptAts /\ "command" \in PromptAts
      BY <1>2
    <3> QED
      BY <1>5, <2>1, <3>1
  <2>2. CASE Reads(t, Line, "typing", "typed") /\ UNCHANGED ownVars
    <3>1. "typing" \in PromptAts /\ "typed" \in PromptAts
      BY <1>2
    <3> QED
      BY <1>5, <2>2, <3>1
  <2> QED
    BY <1>6, <1>7, <1>8, <1>9, <2>1, <2>2 DEF prompt_task, Outcome
<1> QED
  BY <1>10 DEF Outcome

LEMMA SwitchWorks ==
  ASSUME Placed, DOMAIN task = Threads, switch_task(Switch)
  PROVE  Alters(Switch) /\ Place(Switch, task'[Switch])
         /\ Aids(Switch, task[Switch].at, task'[Switch].at)
<1> DEFINE t == Switch
           Outcome == Alters(t) /\ Place(t, task'[t]) /\ Aids(t, task[t].at, task'[t].at)
           Quiet == SwitchAts \ {"bounce", "steady"}
<1>1. t \in Threads \ {Shooter} /\ Place(t, task[t]) /\ "at" \in DOMAIN task[t] /\ t # Prompt
  BY IntervalometerAssumption DEF Placed, Place
<1>2. /\ {"press", "pressing", "pressEnd", "pressed", "callStop", "callRun",
          "release", "releasing", "releaseEnd", "debounce"} = Quiet
      /\ {"bounce", "steady"} \subseteq SwitchAts /\ {"INTER", "stop"} \subseteq CallAts
      /\ \A at \in Quiet \cup CallAts : at \notin Using
      /\ "stop" \notin SwitchAts /\ SwitchAts \cap CallAts = {}
  BY NotUsing DEF SwitchAts, CallAts
<1>3. ASSUME NEW from \in SwitchAts, Stmt(t, from), NEW to \in SwitchAts, Goto(t, to)
      PROVE  /\ Alters(t) /\ Place(t, task'[t]) /\ task[t].at = from /\ task'[t].at = to
  BY <1>1, <1>3, GoesOn
<1> HIDE DEF Quiet
<1>4. ASSUME NEW from \in Quiet, Stmt(t, from), NEW to \in Quiet, Goto(t, to), UNCHANGED ownVars,
             UNCHANGED driverOnly,
             \/ task_enterCritical(t) \/ task_exitCritical(t) \/ UNCHANGED kernelVars
             \/ event_wait(t, _switch)
      PROVE  Outcome
  <2>1. UNCHANGED <<cmd, qty, running>>
    BY <1>4 DEF ownVars, driverOnly
  <2>2. Resting(t) \/ Pausing(t, _switch)
    BY <1>4, StmtCalls, InterNames
  <2>3. /\ Alters(t) /\ Place(t, task'[t]) /\ task[t].at = from /\ task'[t].at = to
        /\ from \in SwitchAts /\ to \in SwitchAts
    BY <1>3, <1>4 DEF Quiet
  <2> QED
    BY <1>2, <1>4, <2>1, <2>2, <2>3 DEF Aids
<1>5. ASSUME NEW at \in Quiet, NEW wait \in Quiet, NEW end \in Quiet, NEW then \in Quiet,
             waitSwitch(t, at, wait, end, then)
      PROVE  Outcome
  <2>1. CASE Enter(t, at, wait)
    BY <1>4, <1>5, <2>1 DEF Enter, waitSwitch
  <2>2. CASE WaitEvent(t, _switch, wait, end)
    BY <1>4, <1>5, <2>2 DEF WaitEvent, waitSwitch
  <2>3. CASE Exit(t, end, then)
    BY <1>4, <1>5, <2>3 DEF Exit, waitSwitch
  <2> QED
    BY <1>5, <2>1, <2>2, <2>3 DEF waitSwitch
<1>6. CASE pressed(t)
  <2>1. PICK to \in Quiet : Local(t, "pressed", to) /\ UNCHANGED ownVars
    BY <1>2, <1>6 DEF pressed
  <2> QED
    BY <1>2, <1>4, <2>1 DEF Local
<1>7. CASE callFunc(t)
  <2>1. PICK from \in {"callStop", "callRun"}, at \in {"INTER", "stop"} :
          Stmt(t, from) /\ (at = "stop" => ~ Leaking) /\ Call(t, at, "release")
    BY <1>7 DEF callFunc
  <2>2. task_enterCritical(t) /\ UNCHANGED <<cmd, qty, running>> /\ UNCHANGED driverOnly
    BY <1>7 DEF callFunc, driverOnly, ownVars
  <2>3. Alters(t) /\ task'[t] = [at |-> at, then |-> "release"]
    BY <1>1, <2>1, Puts DEF Call
  <2>4. Place(t, task'[t]) /\ task'[t].at = at
    BY <1>1, <1>2, <2>1, <2>3 DEF Place
  <2>5. Resting(t) /\ UNCHANGED <<k, pc>> /\ sr' = [sr EXCEPT ![t] = FALSE]
    BY <2>1, <2>2, StmtCalls DEF task_enterCritical
  <2>6. task[t].at = from /\ from \notin Using /\ at \notin Using
    BY <1>2, <2>1 DEF Stmt
  <2> QED
    BY <2>1, <2>2, <2>3, <2>4, <2>5, <2>6 DEF Aids
<1>8. CASE debounce(t)
  <2>1. CASE TimerOn(t, timer1, "debounce", "bounce")
    <3>1. Stmt(t, "debounce") /\ Goto(t, "bounce") /\ timer_on(t, timer1) /\ UNCHANGED cmd
      BY <1>8, <2>1 DEF TimerOn, debounce, ownVars
    <3>2. "debounce" \in SwitchAts /\ "bounce" \in SwitchAts
      BY DEF SwitchAts
    <3> QED
      BY <1>3, <3>1, <3>2, TimerCalls1 DEF Aids
  <2>2. CASE Sleep(t, timer_delay(t, timer1, 2), "bounce", "steady")
    <3>1. /\ Stmt(t, "bounce") /\ Goto(t, "steady") /\ timer_delay(t, timer1, 2)
          /\ UNCHANGED <<cmd, qty, running>>
      BY <1>8, <2>2 DEF Sleep, debounce, ownVars
    <3>2. "steady" \in SwitchAts /\ "bounce" \in SwitchAts
      BY DEF SwitchAts
    <3> QED
      BY <1>3, <3>1, <3>2, TimerCalls1 DEF Aids
  <2>3. CASE TimerOff(t, timer1, "steady", "press")
    <3>1. Stmt(t, "steady") /\ Goto(t, "press") /\ timer_off(t, timer1) /\ UNCHANGED cmd
      BY <1>8, <2>3 DEF TimerOff, debounce, ownVars
    <3>2. "steady" \in SwitchAts /\ "press" \in SwitchAts
      BY DEF SwitchAts
    <3> QED
      BY <1>3, <3>1, <3>2, TimerCalls1 DEF Aids
  <2> QED
    BY <1>8, <2>1, <2>2, <2>3 DEF debounce
<1> HIDE DEF Outcome
<1>9. Outcome
  <2>1. CASE waitSwitch(t, "press", "pressing", "pressEnd", "pressed")
    <3>1. {"press", "pressing", "pressEnd", "pressed"} \subseteq Quiet
      BY <1>2
    <3> QED
      BY <1>5, <2>1, <3>1
  <2>2. CASE waitSwitch(t, "release", "releasing", "releaseEnd", "debounce")
    <3>1. {"release", "releasing", "releaseEnd", "debounce"} \subseteq Quiet
      BY <1>2
    <3> QED
      BY <1>5, <2>2, <3>1
  <2> QED
    BY <1>6, <1>7, <1>8, <2>1, <2>2 DEF switch_task, Outcome
<1> QED
  BY <1>9 DEF Outcome


\* A statement is one of the thread that runs, after the start.
LEMMA CallsOfUser ==
  ASSUME NEW t, Resting(t) \/ (\E l : Pausing(t, l)) \/ event_notify(t, commandEvent)
                  \/ interval_stop(t)
  PROVE  User(t) /\ DOMAIN sr' = DOMAIN sr
<1>1. ASSUME event_notify(t, commandEvent) PROVE User(t) /\ DOMAIN sr' = DOMAIN sr
  BY <1>1 DEF event_notify, ResumeFromPriorList, ResumeAndReturn, Return, Leave
<1>2. ASSUME Resting(t) PROVE User(t) /\ DOMAIN sr' = DOMAIN sr
  BY <1>1, <1>2 DEF Resting, task_updateTick, SetDue, Return
<1>3. ASSUME NEW l, Pausing(t, l) PROVE User(t) /\ DOMAIN sr' = DOMAIN sr
  BY <1>3 DEF Pausing, event_wait, WaitTimer, Leave
<1>4. ASSUME interval_stop(t) PROVE User(t) /\ DOMAIN sr' = DOMAIN sr
  BY <1>4 DEF interval_stop, Stmt, kernelVars, timer_abort, ResumeAndReturn, Return, Leave
<1> QED
  BY <1>1, <1>2, <1>3, <1>4

\* Nothing but its statements happens while a thread is in its critical section.
LEMMA SystemsFlags ==
  ASSUME Systems
  PROVE  /\ DOMAIN sr' = DOMAIN sr
         /\ \A t : User(t) => sr[t]
<1>1. CASE \E t \in Threads : Tick(t, timer1) \/ Interrupt(t, Line)
  BY <1>1 DEF Tick, Interrupt, timer_isr, timer_tick, event_notifyISR, ResumeFromPriorListISR,
              InterruptsEnabled, User
<1>2. CASE \E t \in Threads : notifyInISR(t, _switch) \/ notifyInISR_end(t)
  BY <1>2 DEF notifyInISR, notifyInISR_end, InterruptsEnabled, Leave, User
<1>3. CASE boot
  BY <1>3 DEF boot, scheduler_add, scheduler_run, scheduler_run_return, User
<1>4. CASE \E t \in Threads : Returns(t) \/ checkIRQ(t, {"isr"})
  BY <1>4 DEF Returns, checkIRQ, yield_return, event_wait_return, timer_return, Finish,
              mutex_enter_retry, Entered, EnterLabels, TimerLabels, User
<1> QED
  BY <1>1, <1>2, <1>3, <1>4 DEF Systems, KernelSteps

LEMMA RestSeats ==
  ASSUME Seats, Rests, \A u \in Threads \ Active(k) : task'[u] = task[u],
         cmd = "NOTHING" => cmd' = "NOTHING" \/ Shooter \in Active(k')
  PROVE  Seats'
<1> SUFFICES ASSUME NEW u \in Threads \ Active(k') PROVE Sits(u, In(pc[u]))'
  BY DEF Seats
<1>1. u \in Threads \ Active(k) /\ pc'[u] = pc[u]
  BY DEF Rests
<1>2. Sits(u, In(pc[u])) /\ task'[u] = task[u] /\ In(pc'[u]) = In(pc[u])
  BY <1>1 DEF Seats
<1> QED
  BY <1>2 DEF Sits

LEMMA WaitSeats ==
  ASSUME Knotted, Seats, NEW t \in Threads, NEW l, Waits(t, l), Alters(t), UNCHANGED cmd,
         \/ l = commandEvent /\ t = Shooter /\ task'[t].at = "idle" /\ cmd = "NOTHING"
         \/ l = timer1 /\ t = Shooter /\ task'[t].at \in Dozing
         \/ l = timer1 /\ t = Switch /\ task'[t].at = "steady"
         \/ l \in {Line, _switch} /\ t # Shooter
  PROVE  Seats'
<1> SUFFICES ASSUME NEW u \in Threads \ Active(k') PROVE Sits(u, In(pc[u]))'
  BY DEF Seats
<1>1. CASE u = t
  <2>1. In(pc'[u]) = {l}
    BY <1>1 DEF Waits, Knotted, Layer
  <2> QED
    BY <1>1, <2>1 DEF Sits
<1>2. CASE u # t
  <2>1. u \in Threads \ Active(k) /\ pc'[u] = pc[u]
    BY <1>2 DEF Waits, Knotted, Layer
  <2>2. Sits(u, In(pc[u])) /\ task'[u] = task[u] /\ In(pc'[u]) = In(pc[u])
    BY <1>2, <2>1 DEF Seats, Alters
  <2> QED
    BY <2>2 DEF Sits
<1> QED
  BY <1>1, <1>2

\* How the counter of the driver goes with its users.
LEMMA Tallied ==
  ASSUME Tally, cmd' = "STOP" /\ task'[Shooter].at \in Early => Leaks < MaxLeaks,
         \/ UNCHANGED <<qty, running>> /\ Users' = Users
         \/ /\ UNCHANGED <<qty, running>> /\ Users' = Users - 1 /\ Leaks < MaxLeaks
            /\ task'[Shooter].at \notin Early
         \/ \E t : timer_on(t, timer1) /\ Users' = Users + 1
         \/ \E t : timer_off(t, timer1) /\ Users' = Users - 1
  PROVE  Tally'
<1> DEFINE q == qty[timer1]
<1>1. /\ Users \in 0 .. 2 /\ Users' \in 0 .. 2 /\ MaxLeaks \in Nat /\ QtyMod \in Nat \ {0}
      /\ MaxLeaks + 3 < QtyMod /\ timer1 \in TickLists
  BY IntervalometerAssumption, TimerDriverAssumption DEF Users, Uses
<1>2. /\ q \in Int /\ q - Users \in 0 .. MaxLeaks /\ q \in 0 .. MaxLeaks + 2
      /\ q = 0 \/ running[timer1]
  BY <1>1 DEF Tally, Leaks
<1>3. \A x \in 0 .. QtyMod - 1 : x % QtyMod = x
  BY <1>1
<1>4. CASE UNCHANGED <<qty, running>> /\ Users' = Users
  BY <1>1, <1>2, <1>4 DEF Tally, Leaks
<1>5. CASE /\ UNCHANGED <<qty, running>> /\ Users' = Users - 1 /\ Leaks < MaxLeaks
           /\ task'[Shooter].at \notin Early
  BY <1>1, <1>2, <1>5 DEF Tally, Leaks
<1>6. ASSUME NEW t, timer_on(t, timer1), Users' = Users + 1 PROVE Tally'
  <2>1. /\ qty' = [qty EXCEPT ![timer1] = (q + 1) % QtyMod]
        /\ running' = [running EXCEPT ![timer1] = running[timer1] \/ q = 0]
    BY <1>6 DEF timer_on
  <2>2. (q + 1) % QtyMod = q + 1
    BY <1>1, <1>2, <1>3
  <2>3. qty'[timer1] = q + 1 /\ running'[timer1] = (running[timer1] \/ q = 0)
    BY <1>1, <2>1, <2>2 DEF Tally
  <2>4. running'[timer1]
    BY <1>2, <2>3, Zenon
  <2>5. Leaks' = Leaks
    BY <1>1, <1>2, <1>6, <2>3 DEF Leaks
  <2> QED
    BY <1>1, <1>2, <2>1, <2>3, <2>4, <2>5 DEF Tally
<1>7. ASSUME NEW t, timer_off(t, timer1), Users' = Users - 1 PROVE Tally'
  <2>1. /\ qty' = [qty EXCEPT ![timer1] = (q - 1) % QtyMod]
        /\ running' = [running EXCEPT ![timer1] = running[timer1] /\ q # 1]
    BY <1>7 DEF timer_off
  <2>2. (q - 1) % QtyMod = q - 1
    BY <1>1, <1>2, <1>3, <1>7
  <2>3. qty'[timer1] = q - 1 /\ running'[timer1] = (running[timer1] /\ q # 1)
    BY <1>1, <2>1, <2>2 DEF Tally
  <2>4. qty'[timer1] > 0 => running'[timer1]
    <3>1. q # 0 /\ (q - 1 > 0 => q # 1)
      BY <1>1, <1>2, <1>7
    <3>2. q # 1 => running'[timer1]
      BY <1>2, <2>3, <3>1, Zenon
    <3> QED
      BY <2>3, <3>1, <3>2, Zenon
  <2>5. Leaks' = Leaks
    BY <1>1, <1>2, <1>7, <2>3 DEF Leaks
  <2> QED
    BY <1>1, <1>2, <2>1, <2>3, <2>4, <2>5 DEF Tally
<1> QED
  BY <1>4, <1>5, <1>6, <1>7


\* The record of a thread says whether it uses the timer.
LEMMA UsesSame ==
  ASSUME NEW t, task'[t] = task[t] \/ (task'[t].at \in Using <=> task[t].at \in Using)
  PROVE  Uses(t)' = Uses(t)
BY DEF Uses

\* A statement of the shooter.
LEMMA ShooterTended ==
  ASSUME TimersApart, Knotted, Tended, intervalometer_task(Shooter)
  PROVE  Placed' /\ Seats' /\ Held' /\ Halting' /\ Tally'
<1> DEFINE from == task[Shooter].at
           to   == task'[Shooter].at
<1>1. Alters(Shooter) /\ Works(from, to)
  BY ShooterWorks DEF Tended
<1>2. User(Shooter) /\ DOMAIN sr' = DOMAIN sr
  BY <1>1, CallsOfUser DEF Works
<1>3. /\ Shooter \in Threads /\ Switch \in Threads \ {Shooter} /\ k.running = Shooter
      /\ Shooter \in Active(k)
  BY <1>2, IntervalometerAssumption DEF User, Active
<1>4. \A u \in Threads \ {Shooter} : task'[u] = task[u]
  BY <1>1 DEF Alters
<1>5. Placed'
  BY <1>4 DEF Tended, Placed, Place
<1>6. Held'
  <2> SUFFICES ASSUME NEW t \in Threads \ {Shooter}, task'[t].at = "stop" PROVE FALSE
    BY <1>2 DEF Held, Tended
  <2>1. User(t)
    BY <1>4 DEF Tended, Held
  <2> QED
    BY <1>3, <2>1 DEF User
<1>7. /\ {"enter", "park", "idle"} \cap Using = {} /\ Early \subseteq Commanded
      /\ {"delay", "off"} \subseteq Commanded /\ Commanded \subseteq Using
      /\ Dozing \subseteq Commanded /\ {"enter", "park", "idle"} \cap Commanded = {}
      /\ "off" \notin Early
  BY DEF Using, Early, Dozing, Commanded, Focusing, Exposing, Between
<1>8. Halting'
  BY <1>1, <1>7 DEF Works, Tended, Halting
<1>9. Seats'
  <2>1. CASE Resting(Shooter) /\ (cmd = "NOTHING" => cmd' = "NOTHING")
    <3>1. Rests
      BY <2>1, RestingKnots
    <3>2. \A u \in Threads \ Active(k) : task'[u] = task[u]
      BY <1>3, <1>4
    <3> QED
      BY <2>1, <3>1, <3>2, RestSeats DEF Tended
  <2>2. CASE Pausing(Shooter, commandEvent) /\ UNCHANGED cmd /\ to = "idle" /\ cmd = "NOTHING"
    BY <1>1, <1>3, <2>2, PausingKnots, WaitSeats DEF Tended
  <2>3. CASE Pausing(Shooter, timer1) /\ UNCHANGED cmd /\ to \in Dozing
    BY <1>1, <1>3, <2>3, PausingKnots, WaitSeats DEF Tended
  <2> QED
    BY <1>1, <2>1, <2>2, <2>3 DEF Works
<1>10. Tally'
  <2>1. Uses(Switch)' = Uses(Switch) /\ Uses(Switch) \in {0, 1}
    BY <1>3, <1>4, UsesSame DEF Uses
  <2>2. Tally /\ (cmd = "STOP" /\ from \in Early => Leaks < MaxLeaks)
    BY DEF Tended, Tally
  <2>3. Halting
    BY DEF Tended
  <2>4. /\ from \in Using => Uses(Shooter) = 1
        /\ from \notin Using => Uses(Shooter) = 0
        /\ to \in Using => Uses(Shooter)' = 1
        /\ to \notin Using => Uses(Shooter)' = 0
    BY DEF Uses
  <2> HIDE DEF from, to
  <2>5. CASE UNCHANGED <<qty, running>> /\ (from \in Using <=> to \in Using)
    <3>1. Users' = Users
      BY <2>1, <2>4, <2>5 DEF Users
    <3>2. cmd' = "STOP" => to \notin Early
      BY <1>1, <1>7, <2>3, <2>5 DEF Works, Halting, from, to
    <3> QED
      BY <2>2, <2>5, <3>1, <3>2, Tallied DEF to
  <2>6. CASE UNCHANGED <<qty, running>> /\ from \in Early /\ to = "park" /\ cmd = "STOP"
    <3>1. Users' = Users - 1
      BY <1>7, <2>1, <2>4, <2>6 DEF Users
    <3>2. to \notin Early
      BY <2>6 DEF Early
    <3> QED
      BY <2>2, <2>6, <3>1, <3>2, Tallied DEF to
  <2>7. CASE timer_on(Shooter, timer1) /\ UNCHANGED cmd /\ from = "idle" /\ to = "delay"
    <3>1. Users' = Users + 1
      BY <1>7, <2>1, <2>4, <2>7 DEF Users
    <3>2. cmd' # "STOP"
      BY <1>7, <2>3, <2>7 DEF Halting, from
    <3> QED
      BY <2>2, <2>7, <3>1, <3>2, Tallied
  <2>8. CASE timer_off(Shooter, timer1) /\ UNCHANGED cmd /\ from = "off" /\ to = "park"
    <3>1. Users' = Users - 1
      BY <1>7, <2>1, <2>4, <2>8 DEF Users
    <3>2. to \notin Early
      BY <2>8 DEF Early
    <3> QED
      BY <2>2, <2>8, <3>1, <3>2, Tallied DEF to
  <2> QED
    BY <1>1, <1>7, <2>5, <2>6, <2>7, <2>8 DEF Works
<1> QED
  BY <1>5, <1>6, <1>8, <1>9, <1>10

\* A statement of another thread.
LEMMA OtherTended ==
  ASSUME TimersApart, ShooterFirst, Knotted, Tended, NEW t \in Threads \ {Shooter},
         Alters(t), Place(t, task'[t]), Aids(t, task[t].at, task'[t].at)
  PROVE  Placed' /\ Seats' /\ Held' /\ Halting' /\ Tally'
<1> DEFINE from == task[t].at
           to   == task'[t].at
<1>1. User(t) /\ DOMAIN sr' = DOMAIN sr
  BY CallsOfUser DEF Aids
<1>2. /\ k.running = t /\ t \in Active(k) /\ pc[Background].at # "boot"
      /\ {Shooter, Switch} \subseteq Threads /\ Shooter # Switch
  <2>1. k.running = t /\ pc[t].at # "boot"
    BY <1>1 DEF User
  <2> QED
    BY <2>1, PastBoot, IntervalometerAssumption DEF Active
<1>3. /\ Shooter \in Threads \ Active(k)
      /\ \/ In(pc[Shooter]) = {commandEvent} /\ task[Shooter].at = "idle" /\ cmd = "NOTHING"
         \/ /\ In(pc[Shooter]) = {timer1} /\ task[Shooter].at \in Dozing
            /\ cmd \notin {"NOTHING", "STOP"}
  BY <1>2, ShooterSits
<1>4. task'[Shooter] = task[Shooter] /\ \A u \in Threads \ {t} : task'[u] = task[u]
  BY <1>2 DEF Alters
<1>5. Placed'
  BY <1>4 DEF Tended, Placed, Place
<1>6. Held'
  <2>1. \A u \in Threads \ {Shooter, t} : task'[u].at # "stop"
    <3> SUFFICES ASSUME NEW u \in Threads \ {Shooter, t}, task'[u].at = "stop" PROVE FALSE
      OBVIOUS
    <3>1. User(u)
      BY <1>4 DEF Tended, Held
    <3> QED
      BY <1>2, <3>1 DEF User
  <2>2. to = "stop" => User(t)' /\ ~ sr'[t] /\ ~ Leaking'
    <3> SUFFICES ASSUME to = "stop" PROVE User(t)' /\ ~ sr'[t] /\ ~ Leaking'
      OBVIOUS
    <3>1. CASE UNCHANGED <<qty, k, pc>> /\ sr' = [sr EXCEPT ![t] = FALSE] /\ ~ Leaking
      BY <1>1, <1>4, <3>1 DEF Tended, Held, User, Leaking
    <3>2. CASE Pausing(t, commandEvent) /\ cmd = "STOP"
      BY <1>3, <3>2
    <3> QED
      BY <3>1, <3>2 DEF Aids
  <2> QED
    BY <1>1, <2>1, <2>2 DEF Tended, Held
<1>7. Dozing \subseteq Commanded /\ "idle" \notin Early
  BY DEF Dozing, Early, Commanded, Focusing, Exposing, Between
<1>8. Halting'
  <2>1. CASE cmd' = "STOP" /\ cmd # "NOTHING"
    BY <1>3, <1>4, <1>7, <2>1 DEF Halting
  <2>2. CASE cmd' # "STOP"
    BY <2>2 DEF Halting
  <2> QED
    BY <2>1, <2>2 DEF Aids
<1>9. Seats'
  <2>1. \A u \in Threads \ Active(k) : task'[u] = task[u]
    BY <1>2, <1>4
  <2>2. CASE Resting(t) /\ UNCHANGED cmd
    BY <2>1, <2>2, RestingKnots, RestSeats DEF Tended
  <2>3. ASSUME NEW e \in {Line, _switch}, Pausing(t, e), UNCHANGED cmd PROVE Seats'
    BY <1>2, <2>3, PausingKnots, WaitSeats DEF Tended
  <2>4. CASE Pausing(t, timer1) /\ t = Switch /\ to = "steady" /\ UNCHANGED cmd
    BY <1>2, <2>4, PausingKnots, WaitSeats DEF Tended
  <2>5. CASE Pausing(t, commandEvent) /\ cmd = "STOP"
    BY <1>3, <2>5
  <2>6. CASE event_notify(t, commandEvent) /\ UNCHANGED <<now, due>> /\ cmd = "NOTHING"
    <3>1. Resting(t)
      BY <2>6 DEF Resting
    <3>2. Knotted' /\ Rests
      BY <3>1, RestingKnots
    <3>3. Strung(k, Waiting, Ranked(TimerUses) \cap Added, Added) /\ commandEvent \in PriorLists
          /\ commandEvent \in Lists
      BY InterNames DEF Knotted, Knit, Lists
    <3>4. On(k, commandEvent) = {u \in Threads : u \notin Active(k) /\ commandEvent \in Waiting[u]}
      BY <3>3, HeldOn
    <3>5. Shooter \in On(k, commandEvent)
      BY <1>3, <2>6, <3>4 DEF Waiting
    <3>6. k.head[commandEvent] # NULL
      BY <3>5, ChainNull DEF On
    <3> DEFINE th == k.head[commandEvent]
    <3>7. th \in Threads /\ th \in Active(k') /\ commandEvent \in Waiting[th]
      <4>1. Layer(InterPoints)'
        BY <3>2 DEF Knotted
      <4>2. Fit(InterPoints, TimerUses)
        BY <4>1, KnottedFit
      <4>3. User(t) /\ ResumeFromPriorList(t, commandEvent) /\ UNCHANGED <<now, due>>
        BY <2>6 DEF event_notify
      <4> QED
        BY <3>3, <3>6, <4>2, <4>3, NotifyStep
    <3>8. th \in On(k, commandEvent)
      BY <3>7, ChainStart DEF On
    <3>9. th \in Threads \ Active(k) /\ commandEvent \in In(pc[th])
      BY <3>4, <3>8 DEF Waiting
    <3>10. th = Shooter
      <4>1. Sits(th, In(pc[th]))
        BY <3>9 DEF Tended, Seats
      <4>2. commandEvent # timer1 /\ commandEvent \notin {Line, _switch}
        BY InterNames, IntervalometerAssumption
      <4> QED
        BY <3>9, <4>1, <4>2 DEF Sits
    <3> QED
      BY <2>1, <3>2, <3>7, <3>10, RestSeats DEF Tended
  <2>7. CASE interval_stop(t) /\ cmd # "NOTHING"
    BY <2>1, <2>7, StopStops, RestSeats DEF Tended
  <2> QED
    BY <2>2, <2>3, <2>4, <2>5, <2>6, <2>7 DEF Aids
<1>10. Tally'
  <2>1. Tally /\ (cmd = "STOP" /\ task[Shooter].at \in Early => Leaks < MaxLeaks)
    BY DEF Tended, Tally
  <2>2. Uses(Shooter)' = Uses(Shooter) /\ Uses(Shooter) \in {0, 1}
    BY <1>4, UsesSame DEF Uses
  <2>3. t # Switch => Uses(Switch)' = Uses(Switch)
    BY <1>2, <1>4, UsesSame
  <2>4. cmd' = "STOP" /\ task'[Shooter].at \in Early => Leaks < MaxLeaks
    <3> SUFFICES ASSUME cmd' = "STOP", task[Shooter].at \in Early PROVE Leaks < MaxLeaks
      BY <1>4
    <3>1. CASE cmd = "STOP"
      BY <2>1, <3>1
    <3>2. CASE cmd # "STOP"
      <4>1. from = "stop" /\ cmd # "NOTHING"
        BY <3>2 DEF Aids
      <4>2. ~ Leaking
        BY <4>1 DEF Tended, Held
      <4>3. qty[timer1] <= MaxLeaks
        <5>1. qty[timer1] \in Int /\ MaxLeaks \in Int
          BY IntervalometerAssumption DEF Tended, Tally
        <5> QED
          BY <4>2, <5>1 DEF Leaking, Early
      <4>4. Uses(Shooter) = 1 /\ Uses(Switch) \in {0, 1}
        BY DEF Uses, Using, Early, Commanded, Focusing, Exposing, Between
      <4>5. qty[timer1] \in Int /\ MaxLeaks \in Int
        BY IntervalometerAssumption DEF Tended, Tally
      <4> QED
        BY <4>3, <4>4, <4>5 DEF Leaks, Users
    <3> QED
      BY <3>1, <3>2
  <2>5. CASE UNCHANGED <<qty, running>> /\ (from \in Using <=> to \in Using)
    <3>1. Uses(Switch)' = Uses(Switch)
      BY <2>3, <2>5, UsesSame
    <3> QED
      BY <2>1, <2>2, <2>4, <2>5, <3>1, Tallied DEF Users
  <2>6. /\ {"bounce", "steady"} \subseteq Using
        /\ {"debounce", "press", "stop", "stopping"} \cap Using = {}
    BY DEF Using, Commanded, Focusing, Exposing, Between
  <2>7. CASE timer_on(t, timer1) /\ t = Switch /\ from = "debounce" /\ to = "bounce"
    <3>1. Uses(Switch) = 0 /\ Uses(Switch)' = 1
      BY <2>6, <2>7 DEF Uses
    <3>2. Users' = Users + 1
      BY <2>2, <3>1 DEF Users
    <3> QED
      BY <2>1, <2>4, <2>7, <3>2, Tallied
  <2>8. CASE timer_off(t, timer1) /\ t = Switch /\ from = "steady" /\ to = "press"
    <3>1. Uses(Switch) = 1 /\ Uses(Switch)' = 0
      BY <2>6, <2>8 DEF Uses
    <3>2. Users' = Users - 1
      BY <2>2, <3>1 DEF Users
    <3> QED
      BY <2>1, <2>4, <2>8, <3>2, Tallied
  <2>9. CASE Pausing(t, commandEvent) /\ cmd = "STOP"
    BY <1>3, <2>9
  <2> QED
    BY <2>5, <2>6, <2>7, <2>8, <2>9 DEF Aids
<1> QED
  BY <1>5, <1>6, <1>8, <1>9, <1>10


\* The kernel and the interrupts.
LEMMA SystemsTended ==
  ASSUME TimersApart, Knotted, Tended, Systems, UNCHANGED <<cmd, qty, running, task>>
  PROVE  Placed' /\ Seats' /\ Held' /\ Halting' /\ Tally'
<1>1. Placed'
  BY DEF Tended, Placed, Place
<1>2. Seats'
  BY SystemRests, RestSeats DEF Tended
<1>3. Held'
  <2>1. ASSUME NEW t \in Threads \ {Shooter} PROVE task'[t].at # "stop"
    BY <2>1, SystemsFlags DEF Tended, Held
  <2> QED
    BY <2>1, SystemsFlags DEF Tended, Held
<1>4. Halting' /\ Tally'
  BY DEF Tended, Halting, Tally, Leaks, Users, Uses
<1> QED
  BY <1>1, <1>2, <1>3, <1>4

\* At the start nobody uses the timer.
LEMMA InitTended == InterInit => Tended
<1> SUFFICES ASSUME InterInit PROVE Tended
  OBVIOUS
<1>1. /\ cmd = "NOTHING" /\ qty = [tm \in TickLists |-> 0]
      /\ running = [tm \in TickLists |-> FALSE]
      /\ sr = [t \in Threads |-> FALSE]
      /\ task = [t \in Threads |-> At0(CASE t = Shooter -> "enter"
                                         [] t = Prompt  -> "enter"
                                         [] t = Switch  -> "press"
                                         [] OTHER       -> "none")]
      /\ pc = [t \in Threads |-> IF t = Background THEN At("boot") ELSE At("new")]
  BY DEF InterInit, DriverInit, MutexInit, TimerInit, KernelInit
<1>2. {Shooter, Prompt, Switch} \subseteq Threads /\ timer1 \in TickLists /\ MaxLeaks \in Nat
  BY IntervalometerAssumption
<1>3. \A t \in Threads \ {Shooter} :
        task[t] = At0(IF t = Prompt THEN "enter" ELSE IF t = Switch THEN "press" ELSE "none")
  BY <1>1, IntervalometerAssumption
<1>4. task[Shooter] = At0("enter") /\ task[Switch] = At0("press")
  BY <1>1, IntervalometerAssumption
<1>5. Following /\ Stopped
  BY <1>1, InitFollowing DEF Stopped
<1>6. Placed
  <2> SUFFICES ASSUME NEW t \in Threads \ {Shooter} PROVE Place(t, task[t])
    BY DEF Placed
  <2> DEFINE at == IF t = Prompt THEN "enter" ELSE IF t = Switch THEN "press" ELSE "none"
  <2>1. task[t] = At0(at)
    BY <1>3
  <2>2. /\ at \notin CallAts
        /\ t = Prompt => at \in PromptAts
        /\ t = Switch => at \in SwitchAts
        /\ t \notin {Prompt, Switch} => at = "none"
    BY IntervalometerAssumption DEF PromptAts, SwitchAts, CallAts
  <2> HIDE DEF at
  <2> QED
    BY <2>1, <2>2 DEF Place, At0
<1>7. Seats
  BY <1>1, NotIn DEF Seats, Sits
<1>8. Held
  BY <1>1, <1>3 DEF Held, At0
<1>9. Halting
  BY <1>1 DEF Halting
<1>10. Tally
  <2>1. Uses(Shooter) = 0 /\ Uses(Switch) = 0
    BY <1>4 DEF Uses, At0, Using, Commanded, Focusing, Exposing, Between
  <2> QED
    BY <1>1, <1>2, <2>1 DEF Tally, Leaks, Users
<1> QED
  BY <1>5, <1>6, <1>7, <1>8, <1>9, <1>10 DEF Tended

LEMMA NextTended ==
  ASSUME TimersApart, ShooterFirst, Knotted, Tended, [InterNext]_interVars
  PROVE  Knotted' /\ Tended'
<1>1. Knotted' /\ Stopped' /\ Following'
  BY NextStopped, NextFollowing DEF Tended
<1>2. SUFFICES Placed' /\ Seats' /\ Held' /\ Halting' /\ Tally'
  BY <1>1 DEF Tended
<1>3. DOMAIN task = Threads /\ Placed
  BY DEF Tended, Following
<1>4. ASSUME NEW t \in Threads, commands(t)
      PROVE  Placed' /\ Seats' /\ Held' /\ Halting' /\ Tally'
  <2>1. t # Shooter
    BY <1>4, Commander
    DEF Tended, commands, _setCommand, interval_stop, interval_stopped, Back
  <2> QED
    BY <1>3, <1>4, <2>1, CommandWorks, OtherTended
<1>5. CASE intervalometer_task(Shooter)
  BY <1>5, ShooterTended
<1>6. CASE prompt_task(Prompt)
  <2>1. Prompt \in Threads \ {Shooter}
    BY IntervalometerAssumption
  <2> QED
    BY <1>3, <1>6, <2>1, PromptWorks, OtherTended
<1>7. CASE switch_task(Switch)
  <2>1. Switch \in Threads \ {Shooter}
    BY IntervalometerAssumption
  <2> QED
    BY <1>3, <1>7, <2>1, SwitchWorks, OtherTended
<1>8. CASE UNCHANGED interVars
  <2>1. UNCHANGED <<k, critical, sr, pc, cmd, qty, running, task>>
    BY <1>8 DEF interVars, programVars, driverVars, mutexVars, ownVars
  <2> QED
    BY <2>1 DEF Tended, Placed, Place, Seats, Sits, Held, User, Leaking, Halting, Tally, Leaks,
                Users, Uses
<1>9. CASE /\ \/ KernelSteps({"isr"})
              \/ \E t \in Threads : Tick(t, timer1) \/ Interrupt(t, Line)
           /\ UNCHANGED ownVars
  <2>1. Systems /\ UNCHANGED <<cmd, qty, running, task>>
    BY <1>9 DEF Systems, KernelSteps, Tick, timer_isr, Interrupt, driverOnly, ownVars
  <2> QED
    BY <2>1, SystemsTended
<1>10. ASSUME NEW t \in Threads, _port1_isr(t)
       PROVE  Placed' /\ Seats' /\ Held' /\ Halting' /\ Tally'
  <2>1. Systems /\ UNCHANGED <<cmd, qty, running, task>>
    BY <1>10 DEF Systems, _port1_isr, driverOnly, ownVars
  <2> QED
    BY <2>1, SystemsTended
<1> QED
  BY <1>4, <1>5, <1>6, <1>7, <1>8, <1>9, <1>10 DEF InterNext

\* Who turns the timer off is the last that needs it (timers.c:150-162), though a stop
\* before the first shot leaves it on: the shooter, whose priority is the highest, and
\* the switch never wait for a timer that stands still, and nobody else waits for it.
THEOREM SleepersAreTimed ==
  ASSUME TimersApart, ShooterFirst
  PROVE  InterSpec => []SleeperTimed
<1>1. InterInit => Knotted /\ Tended
  BY InitKnotted, InitTended
<1>2. Knotted /\ Tended /\ [InterNext]_interVars => Knotted' /\ Tended'
  BY NextTended
<1>3. Knotted /\ Tended => SleeperTimed
  BY TendedSafe
<1> QED
  BY <1>1, <1>2, <1>3, PTL DEF InterSpec

-----------------------------------------------------------------------------
(* An exposure lasts as long as it was set: the shooter is never interrupted     *)
(* between two waits, and each of them ends at its own tick.                     *)

\* Nobody takes the processor from the shooter.
LEMMA NobodyPreempts ==
  ASSUME Knotted, TimersApart, ShooterFirst, pc[Background].at # "boot", k.running = Shooter,
         NEW l \in PriorLists, k.head[l] # NULL
  PROVE  ~ preempts(k, k.head[l])
<1> DEFINE th == k.head[l]
<1>1. /\ Shooter \in Threads \ {Background} /\ Shooter \in Added
      /\ Prior[Shooter] \in 0 .. Lowest - 1 /\ Lowest \in Int
  BY IntervalometerAssumption, KernelAssumption, ListAssumption DEF Added, Knotted, Booting
<1>2. th \in Added
  <2>1. Strung(k, Waiting, Ranked(TimerUses) \cap Added, Added)
    BY DEF Knotted, Knit
  <2> QED
    BY <2>1, FirstWoken
<1>3. \A t \in Added : k.prior[t] = IF t = Background THEN Lowest ELSE Prior[t]
  BY ShooterRanked DEF Knotted, Knit
<1>4. th # Background /\ th # Shooter => Prior[th] \in Int /\ Prior[Shooter] < Prior[th]
  BY <1>2, KernelAssumption DEF ShooterFirst, Added
<1> QED
  BY <1>1, <1>2, <1>3, <1>4 DEF preempts

\* The flags and the counters of the threads, and where they are.
Flagged == DOMAIN critical = Threads /\ DOMAIN sr = Threads

\* A call changes those of its thread.
Flags(t) ==
  \/ UNCHANGED <<critical, sr, pc>>
  \/ Return(t) \/ Finish(t) \/ \E p : Leave(t, p)
  \/ task_enterCritical(t) \/ task_exitCritical(t)

Keeps(t) == critical'[t] = critical[t] /\ sr'[t] = sr[t] /\ pc'[t] = pc[t]

LEMMA FlagsKeep ==
  ASSUME Flagged, DOMAIN pc = Threads, NEW t, Flags(t)
  PROVE  Flagged' /\ \A u \in Threads \ {t} : Keeps(u)
BY DEF Flagged, Flags, Keeps, Return, Finish, Leave, task_enterCritical, task_exitCritical

LEMMA CommandFlags ==
  ASSUME NEW t, commands(t)
  PROVE  Flags(t)
<1>1. CASE Back(t)
  BY <1>1 DEF Back, Flags
<1>2. ASSUME NEW c, _setCommand(t, c) PROVE Flags(t)
  BY <1>2 DEF _setCommand, event_notify, ResumeFromPriorList, ResumeAndReturn, Flags, kernelVars
<1>3. CASE interval_stop(t)
  BY <1>3 DEF interval_stop, timer_abort, ResumeAndReturn, Flags, kernelVars
<1>4. CASE interval_stopped(t)
  BY <1>4 DEF interval_stopped, event_wait, Flags, kernelVars
<1> QED
  BY <1>1, <1>2, <1>3, <1>4 DEF commands

LEMMA ClientFlags ==
  ASSUME NEW t, prompt_task(t) \/ switch_task(t)
  PROVE  Flags(t)
<1>1. ASSUME NEW from, NEW to, Enter(t, from, to) \/ Exit(t, from, to) \/ Local(t, from, to)
      PROVE  Flags(t)
  BY <1>1 DEF Enter, Exit, Local, kernelVars, Flags
<1>2. ASSUME NEW e, NEW from, NEW to, WaitEvent(t, e, from, to) \/ Reads(t, e, from, to)
      PROVE  Flags(t)
  BY <1>1, <1>2 DEF Reads, WaitEvent, event_wait, Flags
<1>3. CASE command(t) \/ enterSettings(t) \/ typed(t)
  BY <1>3 DEF command, enterSettings, typed, kernelVars, Flags
<1>4. CASE pressed(t) \/ callFunc(t)
  BY <1>1, <1>4 DEF pressed, callFunc, Flags
<1>5. ASSUME NEW at, NEW wait, NEW end, NEW then, waitSwitch(t, at, wait, end, then)
      PROVE  Flags(t)
  BY <1>1, <1>2, <1>5 DEF waitSwitch
<1>6. CASE debounce(t)
  BY <1>6 DEF debounce, TimerOn, Sleep, TimerOff, timer_on, timer_off, timer_delay,
              task_updateTick, SetDue, WaitTimer, Flags
<1>7. CASE prompt_task(t)
  BY <1>1, <1>2, <1>3, <1>7 DEF prompt_task
<1>8. CASE switch_task(t)
  BY <1>4, <1>5, <1>6, <1>8 DEF switch_task
<1> QED
  BY <1>7, <1>8

\* The shooter enters its critical section first, and each call of it is inside.
LEMMA ShooterFlags ==
  ASSUME NEW t, intervalometer_task(t)
  PROVE  \/ task_enterCritical(t) /\ Goto(t, "park") /\ task[t].at = "enter"
         \/ /\ task[t].at # "enter"
            /\ \/ UNCHANGED <<critical, sr, pc>>
               \/ Return(t)
               \/ \E p : Leave(t, p) /\ p.at \notin {"user", "new", "isr"}
<1> DEFINE Inner == \/ UNCHANGED <<critical, sr, pc>>
                    \/ Return(t)
                    \/ \E p : Leave(t, p) /\ p.at \notin {"user", "new", "isr"}
<1>1. ASSUME NEW label, NEW time, WaitTimer(t, timer1, label, time) PROVE Inner
  <2> DEFINE p == [at |-> label, on |-> timer1, tmp |-> due[t]]
  <2>1. Leave(t, p) /\ p.at = label /\ label \in TimerLabels
    BY <1>1, TimerAssumption DEF WaitTimer
  <2> HIDE DEF p
  <2> QED
    BY <2>1 DEF TimerLabels
<1>2. ASSUME NEW d, NEW to, NEW shine,
             \/ Wait(t, timer_period(t, timer1, d), to, shine)
             \/ Wait(t, timer_shift(t, timer1, d), to, shine)
      PROVE  Inner
  BY <1>1, <1>2 DEF Wait, timer_period, timer_shift
<1>3. ASSUME NEW j, expose(t, j) PROVE Inner
  BY <1>2, <1>3 DEF expose
<1>4. ASSUME NEW to, NEW shine, Jump(t, to, shine) PROVE Inner
  BY <1>4 DEF Jump, kernelVars
<1>5. CASE park(t)
  <2>1. At("yield").at \notin {"user", "new", "isr"}
    BY DEF At
  <2>2. Inner
    BY <1>5, <2>1 DEF park, event_notify, ResumeFromPriorList, ResumeAndReturn
  <2> QED
    BY <1>5, <2>2 DEF park, Stmt
<1>6. CASE idle(t)
  <2>1. Inside("event_wait", commandEvent).at \notin {"user", "new", "isr"}
    BY DEF Inside
  <2>2. Inner
    BY <1>6, <2>1 DEF idle, event_wait, timer_on, task_updateTick, SetDue
  <2> QED
    BY <1>6, <2>2 DEF idle, Stmt
<1>7. CASE delay(t) \/ lead(t) \/ led(t)
  <2>1. Inner
    BY <1>2, <1>3, <1>4, <1>7 DEF delay, lead, led
  <2> QED
    BY <1>7, <2>1 DEF delay, lead, led, Stmt
<1>8. CASE exposed(t)
  <2>1. CASE UNCHANGED <<kernelVars, driverOnly, cmd, set>>
    BY <1>8, <2>1 DEF exposed, Stmt, kernelVars
  <2>2. Inner \/ UNCHANGED <<kernelVars, driverOnly, cmd, set>>
    BY <1>2, <1>4, <1>8 DEF exposed, Wait
  <2> QED
    BY <1>8, <2>1, <2>2 DEF exposed, Stmt
<1>9. CASE gap(t) \/ focused(t)
  <2>1. Inner
    BY <1>2, <1>3, <1>4, <1>9 DEF gap, focused
  <2> QED
    BY <1>9, <2>1 DEF gap, focused, Stmt
<1>10. CASE off(t)
  BY <1>10 DEF off, timer_off, Stmt
<1>11. CASE Enter(t, "enter", "park")
  BY <1>11 DEF Enter, Stmt
<1> QED
  BY <1>5, <1>6, <1>7, <1>8, <1>9, <1>10, <1>11 DEF intervalometer_task

\* The shooter is in its critical section from its first statement on: no interrupt
\* comes between two statements of it, and none takes the processor from it.
Shield ==
  IF task[Shooter].at = "enter"
  THEN /\ pc[Shooter].at \in {"new", "user"}
       /\ pc[Shooter].at = "user" => critical[Shooter] = 0
  ELSE /\ pc[Shooter].at # "isr" /\ critical[Shooter] \in Nat
       /\ IF pc[Shooter].at = "user" THEN critical[Shooter] > 0 /\ ~ sr[Shooter]
                                     ELSE critical[Shooter] > 1

Shielded == Flagged /\ Shield /\ (pc[Background].at = "boot" => task[Shooter].at = "enter")

LEMMA KeepsShield ==
  ASSUME Shielded, Flagged', Keeps(Shooter), task'[Shooter] = task[Shooter],
         pc'[Background].at = "boot" => pc[Background].at = "boot"
  PROVE  Shielded'
BY DEF Shielded, Shield, Keeps

\* Nobody uses a mutex.
LEMMA NobodyEnters ==
  ASSUME Knotted, NEW t
  PROVE  ~ mutex_enter_retry(t)
<1> SUFFICES ASSUME mutex_enter_retry(t) PROVE FALSE
  OBVIOUS
<1>1. k.running = t /\ sr[t] /\ pc[t].at \in EnterLabels
  BY DEF mutex_enter_retry
<1>2. t \in Threads /\ pc[t] \in Frames(Base(t))
  BY <1>1, PastBoot
<1>3. pc[t] \in Base(t) \/ pc[t] \in Interrupted(Frames(Base(t)))
  BY <1>2, FramesAre
<1> QED
  BY <1>1, <1>3 DEF Interrupted, Base, TimerPoints, EventPoints, KernelPoints, At, Inside,
                    TimerLabels, EnterLabels

\* What the running thread does next to its statements.
LEMMA RunnerFlags ==
  ASSUME Knotted, Flagged, NEW t \in Threads,
         \/ Returns(t) \/ checkIRQ(t, {"isr"}) \/ Tick(t, timer1) \/ Interrupt(t, Line)
         \/ notifyInISR(t, _switch) \/ notifyInISR_end(t)
  PROVE  /\ k.running = t /\ Flagged' /\ \A u \in Threads \ {t} : Keeps(u)
         /\ pc[Background].at # "boot" /\ pc'[Background].at # "boot"
<1>1. DOMAIN pc = Threads /\ DOMAIN critical = Threads /\ DOMAIN sr = Threads
      /\ Background \in Threads
  BY KernelAssumption DEF Knotted, Layer, Flagged
<1>2. /\ k.running = t /\ (pc[t].at # "boot" \/ sr[t])
      /\ DOMAIN critical' = Threads /\ DOMAIN sr' = Threads /\ DOMAIN pc' = Threads
      /\ \A u \in Threads \ {t} : Keeps(u)
      /\ \/ pc'[t] = pc[t] \/ pc'[t] = At("user")
         \/ pc'[t] = [at |-> "isr", on |-> NULL, back |-> pc[t]]
         \/ pc[t].at = "isr" /\ pc'[t] = pc[t].back
  <2>1. CASE UNCHANGED <<critical, sr, pc>> /\ k.running = t /\ sr[t]
    BY <1>1, <2>1 DEF Keeps
  <2>2. CASE Finish(t) /\ k.running = t /\ pc[t].at # "boot"
    BY <1>1, <2>2 DEF Keeps, Finish
  <2>3. ASSUME checkIRQ(t, {"isr"})
               \/ checkIRQ(t, {"run", "yield", "event_wait"} \cup EnterLabels \cup TimerLabels)
        PROVE  /\ k.running = t /\ pc[t].at # "boot" /\ UNCHANGED <<critical, pc>>
               /\ sr' = [sr EXCEPT ![t] = TRUE]
    BY <2>3 DEF checkIRQ, EnterLabels, TimerLabels
  <2>4. ~ mutex_enter_retry(t)
    BY NobodyEnters
  <2>5. CASE notifyInISR(t, _switch)
    <3>1. k.running = t /\ sr[t]
      BY <2>5 DEF notifyInISR, InterruptsEnabled
    <3>2. CASE Leave(t, [at |-> "isr", on |-> NULL, back |-> pc[t]])
      BY <1>1, <3>1, <3>2 DEF Leave, Keeps
    <3> QED
      BY <2>1, <2>5, <3>1, <3>2 DEF notifyInISR
  <2>6. CASE notifyInISR_end(t)
    BY <1>1, <2>6 DEF notifyInISR_end, Keeps
  <2>7. CASE Tick(t, timer1) \/ Interrupt(t, Line)
    <3>1. UNCHANGED <<critical, sr, pc>> /\ k.running = t /\ sr[t]
      BY <2>7 DEF Tick, Interrupt, timer_isr, timer_tick, event_notifyISR,
                  ResumeFromPriorListISR, InterruptsEnabled
    <3> QED
      BY <2>1, <3>1
  <2>8. CASE yield_return(t) \/ event_wait_return(t) \/ timer_return(t)
    BY <2>2, <2>8 DEF yield_return, event_wait_return, timer_return, TimerLabels
  <2>9. CASE checkIRQ(t, {"isr"})
               \/ checkIRQ(t, {"run", "yield", "event_wait"} \cup EnterLabels \cup TimerLabels)
    BY <1>1, <2>3, <2>9 DEF Keeps
  <2> QED
    BY <2>4, <2>5, <2>6, <2>7, <2>8, <2>9 DEF Returns
<1>3. pc[Background].at # "boot" /\ pc[t] \in Frames(Base(t))
  BY <1>2, PastBoot
<1>4. pc'[t].at # "boot"
  <2>1. pc[t].at # "boot" /\ (pc[t].at = "isr" => pc[t].back \in Frames(Base(t)))
    BY <1>3, FramePoint
  <2>2. pc[t].at = "isr" => pc[t].back.at # "boot"
    BY <2>1, FramePoint
  <2>3. At("user").at # "boot"
    BY DEF At
  <2> QED
    BY <1>2, <2>1, <2>2, <2>3
<1>5. pc'[Background].at # "boot"
  BY <1>1, <1>2, <1>3, <1>4 DEF Keeps
<1> QED
  BY <1>2, <1>3, <1>5 DEF Flagged

\* The kernel and the interrupts leave the shooter in its critical section.
LEMMA SystemsShielded ==
  ASSUME TimersApart, ShooterFirst, Knotted, Shielded, Systems, UNCHANGED task
  PROVE  Shielded'
<1>1. DOMAIN pc = Threads /\ DOMAIN critical = Threads /\ DOMAIN sr = Threads
      /\ Background \in Threads /\ Shooter \in Threads \ {Background} /\ Flagged
  BY KernelAssumption, IntervalometerAssumption DEF Knotted, Layer, Shielded, Flagged
<1>2. ASSUME NEW t \in Threads, t # Shooter,
             \/ Returns(t) \/ checkIRQ(t, {"isr"}) \/ Tick(t, timer1) \/ Interrupt(t, Line)
             \/ notifyInISR(t, _switch) \/ notifyInISR_end(t)
      PROVE  Shielded'
  <2>1. Flagged' /\ Keeps(Shooter) /\ pc'[Background].at # "boot"
    BY <1>1, <1>2, RunnerFlags
  <2> QED
    BY <2>1, KeepsShield
<1>3. ASSUME \/ Returns(Shooter) \/ checkIRQ(Shooter, {"isr"}) \/ Tick(Shooter, timer1)
             \/ Interrupt(Shooter, Line) \/ notifyInISR(Shooter, _switch)
             \/ notifyInISR_end(Shooter)
      PROVE  Shielded'
  <2>1. /\ k.running = Shooter /\ Flagged' /\ pc[Background].at # "boot"
        /\ pc'[Background].at # "boot"
    BY <1>1, <1>3, RunnerFlags
  <2>2. CASE UNCHANGED <<critical, sr, pc>>
    BY <2>1, <2>2, KeepsShield DEF Keeps
  <2>3. CASE Finish(Shooter) /\ pc[Shooter].at # "user" /\ pc[Shooter].at # "new"
    <3>1. /\ critical'[Shooter] = critical[Shooter] - 1 /\ sr'[Shooter] = (critical[Shooter] = 1)
          /\ pc'[Shooter] = At("user") /\ At("user").at = "user"
      BY <1>1, <2>3 DEF Finish, At
    <3>2. task[Shooter].at # "enter" /\ critical[Shooter] \in Nat /\ critical[Shooter] > 1
      BY <2>3 DEF Shielded, Shield
    <3>3. critical'[Shooter] \in Nat /\ critical'[Shooter] > 0
      BY <3>1, <3>2
    <3>4. ~ sr'[Shooter]
      <4>1. critical[Shooter] # 1
        BY <3>2
      <4> QED
        BY <3>1, <4>1, Zenon
    <3> QED
      BY <2>1, <3>1, <3>2, <3>3, <3>4 DEF Shielded, Shield
  <2>4. ASSUME checkIRQ(Shooter, {"isr"})
               \/ checkIRQ(Shooter, {"run", "yield", "event_wait"} \cup EnterLabels \cup TimerLabels)
        PROVE  Shielded'
    <3>1. pc[Shooter].at \notin {"new", "user"} /\ UNCHANGED <<critical, pc>>
      BY <2>4 DEF checkIRQ, EnterLabels, TimerLabels
    <3> QED
      BY <2>1, <3>1 DEF Shielded, Shield
  <2>5. ~ mutex_enter_retry(Shooter)
    BY NobodyEnters
  <2>6. ~ notifyInISR_end(Shooter)
    BY DEF notifyInISR_end, Shielded, Shield
  <2>7. CASE notifyInISR(Shooter, _switch)
    <3>1. k.head[_switch] # NULL /\ _switch \in PriorLists
      BY <2>7, InterNames DEF notifyInISR
    <3>2. ~ preempts(k, k.head[_switch])
      BY <2>1, <3>1, NobodyPreempts
    <3> QED
      BY <2>2, <2>7, <3>2 DEF notifyInISR
  <2>8. CASE Tick(Shooter, timer1) \/ Interrupt(Shooter, Line)
    BY <2>2, <2>8 DEF Tick, Interrupt, timer_isr, timer_tick, event_notifyISR,
                      ResumeFromPriorListISR
  <2>9. CASE yield_return(Shooter) \/ event_wait_return(Shooter) \/ timer_return(Shooter)
    BY <2>3, <2>9 DEF yield_return, event_wait_return, timer_return, TimerLabels
  <2> QED
    BY <1>3, <2>4, <2>5, <2>6, <2>7, <2>8, <2>9 DEF Returns
<1>4. CASE boot
  <2>1. ASSUME NEW th \in Threads, scheduler_add(th) PROVE Shielded'
    <3>1. /\ pc[th].at = "new" /\ pc[Background].at = "boot" /\ th # Background
          /\ critical' = [critical EXCEPT ![th] = 0] /\ sr' = [sr EXCEPT ![th] = TRUE]
          /\ pc' = [pc EXCEPT ![th] = At("user")] /\ At("user").at = "user"
      BY <2>1 DEF scheduler_add, At
    <3>2. CASE th = Shooter
      BY <1>1, <3>1, <3>2 DEF Shielded, Shield, Flagged
    <3>3. CASE th # Shooter
      BY <1>1, <3>1, <3>3, KeepsShield DEF Keeps, Flagged
    <3> QED
      BY <3>2, <3>3
  <2>2. CASE scheduler_run \/ scheduler_run_return
    <3>1. Keeps(Shooter) /\ Flagged' /\ pc'[Background].at # "boot"
      BY <1>1, <2>2 DEF scheduler_run, scheduler_run_return, Keeps, Flagged, At
    <3> QED
      BY <3>1, KeepsShield
  <2> QED
    BY <1>4, <2>1, <2>2 DEF boot
<1> QED
  BY <1>2, <1>3, <1>4 DEF Systems, KernelSteps

\* The statements of the shooter, and those of the others.
LEMMA NextShielded ==
  ASSUME TimersApart, ShooterFirst, Knotted, Tended, Shielded, [InterNext]_interVars
  PROVE  Shielded'
<1>1. DOMAIN pc = Threads /\ DOMAIN critical = Threads /\ DOMAIN sr = Threads
      /\ Background \in Threads /\ Shooter \in Threads \ {Background} /\ Flagged
      /\ {Prompt, Switch} \subseteq Threads \ {Shooter}
      /\ DOMAIN task = Threads /\ Placed /\ Following
  BY KernelAssumption, IntervalometerAssumption
  DEF Knotted, Layer, Shielded, Flagged, Tended, Following
<1>2. ASSUME NEW t \in Threads \ {Shooter, Background}, Flags(t), Alters(t),
             Aids(t, task[t].at, task'[t].at)
      PROVE  Shielded'
  <2>1. User(t)
    BY <1>2, CallsOfUser DEF Aids
  <2>2. pc[Background].at # "boot"
    <3>1. k.running = t /\ pc[t].at # "boot"
      BY <2>1 DEF User
    <3> QED
      BY <3>1, PastBoot
  <2>3. Flagged' /\ Keeps(Shooter) /\ Keeps(Background) /\ task'[Shooter] = task[Shooter]
    BY <1>1, <1>2, FlagsKeep DEF Alters
  <2> QED
    BY <2>2, <2>3, KeepsShield DEF Keeps
<1>3. ASSUME NEW t \in Threads, commands(t) PROVE Shielded'
  <2>1. PICK at \in {"INTER", "HDR", "stop", "stopping", "back"} : Stmt(t, at)
    BY <1>3 DEF commands, _setCommand, interval_stop, interval_stopped, Back
  <2>2. t # Shooter
    BY <1>1, <2>1, Commander
  <2>3. t # Background
    BY <1>1, <2>1, <2>2, IntervalometerAssumption DEF Placed, Place, Stmt
  <2> QED
    BY <1>1, <1>2, <1>3, <2>2, <2>3, CommandWorks, CommandFlags
<1>4. CASE prompt_task(Prompt)
  BY <1>1, <1>2, <1>4, PromptWorks, ClientFlags, IntervalometerAssumption
<1>5. CASE switch_task(Switch)
  BY <1>1, <1>2, <1>5, SwitchWorks, ClientFlags, IntervalometerAssumption
<1>6. CASE intervalometer_task(Shooter)
  <2>1. Alters(Shooter) /\ Works(task[Shooter].at, task'[Shooter].at)
    BY <1>1, <1>6, ShooterWorks
  <2>2. task'[Shooter].at # "enter"
    BY <2>1 DEF Works, Commanded, Focusing, Exposing, Between, Early, Dozing
  <2>3. User(Shooter)
    BY <2>1, CallsOfUser DEF Works
  <2>4. k.running = Shooter /\ pc[Shooter].at = "user"
    BY <2>3 DEF User
  <2>5. pc[Background].at # "boot"
    BY <2>4, PastBoot
  <2>6. Flags(Shooter)
    BY <1>6, ShooterFlags DEF Flags
  <2>7. Flagged' /\ pc'[Background].at # "boot"
    BY <1>1, <2>5, <2>6, FlagsKeep DEF Keeps
  <2>8. Shield'
    <3>1. CASE task_enterCritical(Shooter) /\ task[Shooter].at = "enter"
      <4>1. critical[Shooter] = 0
        BY <2>4, <3>1 DEF Shielded, Shield
      <4>2. pc'[Shooter].at = "user" /\ critical'[Shooter] = 1 /\ ~ sr'[Shooter]
        BY <1>1, <2>4, <3>1, <4>1 DEF task_enterCritical
      <4> QED
        BY <2>2, <4>2 DEF Shield
    <3>2. CASE task[Shooter].at # "enter"
      <4>1. critical[Shooter] \in Nat /\ critical[Shooter] > 0 /\ ~ sr[Shooter]
        BY <2>4, <3>2 DEF Shielded, Shield
      <4>2. CASE UNCHANGED <<critical, sr, pc>>
        BY <2>2, <2>4, <4>1, <4>2 DEF Shield
      <4>3. CASE Return(Shooter)
        <5>1. critical'[Shooter] = critical[Shooter] /\ sr'[Shooter] = (critical[Shooter] = 0)
              /\ pc'[Shooter] = pc[Shooter]
          BY <1>1, <4>3 DEF Return
        <5>2. critical[Shooter] # 0
          BY <4>1
        <5>3. ~ sr'[Shooter]
          BY <5>1, <5>2, Zenon
        <5> QED
          BY <2>2, <2>4, <4>1, <5>1, <5>3 DEF Shield
      <4>4. ASSUME NEW p, Leave(Shooter, p), p.at \notin {"user", "new", "isr"}
            PROVE  Shield'
        <5>1. critical'[Shooter] = critical[Shooter] + 1 /\ pc'[Shooter] = p
          BY <1>1, <4>4 DEF Leave
        <5> QED
          BY <2>2, <4>1, <4>4, <5>1 DEF Shield
      <4> QED
        BY <1>6, <3>2, <4>2, <4>3, <4>4, ShooterFlags
    <3> QED
      BY <1>6, <3>1, <3>2, ShooterFlags
  <2> QED
    BY <2>7, <2>8 DEF Shielded
<1>7. CASE UNCHANGED interVars
  BY <1>7 DEF interVars, programVars, driverVars, mutexVars, Shielded, Shield, Flagged
<1>8. CASE /\ \/ KernelSteps({"isr"})
              \/ \E t \in Threads : Tick(t, timer1) \/ Interrupt(t, Line)
           /\ UNCHANGED ownVars
  <2>1. Systems /\ UNCHANGED task
    BY <1>8 DEF Systems, KernelSteps, Tick, Interrupt
  <2> QED
    BY <2>1, SystemsShielded
<1>9. ASSUME NEW t \in Threads, _port1_isr(t) PROVE Shielded'
  <2>1. Systems /\ UNCHANGED task
    BY <1>9 DEF Systems, _port1_isr
  <2> QED
    BY <2>1, SystemsShielded
<1> QED
  BY <1>3, <1>4, <1>5, <1>6, <1>7, <1>8, <1>9 DEF InterNext

LEMMA InitShielded == InterInit => Shielded
<1> SUFFICES ASSUME InterInit PROVE Shielded
  OBVIOUS
<1>1. /\ critical = [th \in Threads |-> IF th = Background THEN 1 ELSE 0]
      /\ sr = [t \in Threads |-> FALSE]
      /\ task = [t \in Threads |-> At0(CASE t = Shooter -> "enter"
                                         [] t = Prompt  -> "enter"
                                         [] t = Switch  -> "press"
                                         [] OTHER       -> "none")]
      /\ pc = [t \in Threads |-> IF t = Background THEN At("boot") ELSE At("new")]
  BY DEF InterInit, DriverInit, MutexInit, TimerInit, KernelInit
<1>2. Shooter \in Threads \ {Background}
  BY IntervalometerAssumption
<1>3. task[Shooter] = At0("enter")
  BY <1>1, IntervalometerAssumption
<1>4. task[Shooter].at = "enter" /\ pc[Shooter].at = "new"
  BY <1>1, <1>2, <1>3 DEF At0, At
<1> QED
  BY <1>1, <1>4 DEF Shielded, Shield, Flagged

\* The shooter waits for the timer; it goes on waiting, at the same time.
Asleep == Shooter \in Threads \ Active(k) /\ In(pc[Shooter]) = {timer1}
Sleeps ==
  /\ Shooter \notin Active(k') /\ UNCHANGED now
  /\ pc'[Shooter] = pc[Shooter] /\ due'[Shooter] = due[Shooter]

\* No statement of another thread but a stop wakes it.
LEMMA OthersSleep ==
  ASSUME TimersApart, Knotted, Asleep, NEW t \in Threads \ {Shooter},
         Resting(t) \/ \E l : Pausing(t, l)
  PROVE  Sleeps
<1>1. /\ DOMAIN pc = Threads /\ DOMAIN due = Threads /\ Shooter \in Threads
      /\ Shooter \notin Active(k) /\ In(pc[Shooter]) = {timer1}
      /\ Waiting[Shooter] = {timer1}
  BY DEF Asleep, Knotted, Layer, Waiting
<1>2. CASE UNCHANGED <<k, pc, now, due>>
  BY <1>1, <1>2 DEF Sleeps
<1>3. CASE task_updateTick(t, timer1)
  <2>1. Knotted' /\ now[timer1] \in Times
    BY <1>3, InterNames, RestingKnots, WindowIsTimes DEF Resting, Knotted
  <2>2. Layer(InterPoints)' /\ SetDue(t, "task_updateTick", now[timer1])
    BY <1>3, <2>1 DEF Knotted, task_updateTick
  <2>3. Active(k') = Active(k)
    BY <2>1, <2>2, KnottedFit, SetDueStep
  <2>4. /\ pc'[Shooter] = pc[Shooter] /\ due'[Shooter] = due[Shooter] /\ UNCHANGED now
    BY <1>1, <2>2 DEF SetDue, Return
  <2> QED
    BY <1>1, <2>3, <2>4 DEF Sleeps
<1>4. CASE event_notify(t, commandEvent) /\ UNCHANGED <<now, due>>
  <2>1. Layer(InterPoints)'
    BY <1>4, RestingKnots DEF Resting, Knotted
  <2>2. User(t) /\ ResumeFromPriorList(t, commandEvent)
    BY <1>4 DEF event_notify
  <2>3. \A u \in Active(k') \ Active(k) : commandEvent \in Waiting[u]
    BY <1>4, <2>1, <2>2, InterNames, KnottedFit, NotifyStep
  <2>4. Shooter \notin Active(k')
    BY <1>1, <2>3, InterNames
  <2>5. pc'[Shooter] = pc[Shooter]
    BY <1>1, <2>2 DEF ResumeFromPriorList, ResumeAndReturn, Return, Leave
  <2> QED
    BY <1>4, <2>4, <2>5 DEF Sleeps
<1>5. ASSUME NEW l, Pausing(t, l) PROVE Sleeps
  <2>1. Waits(t, l)
    BY <1>5, PausingKnots
  <2>2. Shooter \notin Active(k') /\ pc'[Shooter] = pc[Shooter]
    BY <1>1, <2>1 DEF Waits
  <2>3. due'[Shooter] = due[Shooter] /\ UNCHANGED now
    BY <1>1, <1>5 DEF Pausing, WaitTimer
  <2> QED
    BY <2>2, <2>3 DEF Sleeps
<1> QED
  BY <1>2, <1>3, <1>4, <1>5 DEF Resting

\* A tick wakes it at its time, and nothing else does.
TickComes ==
  /\ pc'[Shooter] = pc[Shooter] /\ due'[Shooter] = due[Shooter]
  /\ now'[timer1] = now[timer1] + 1
  /\ Shooter \in Active(k') <=> ~ (due[Shooter] > now'[timer1])

LEMMA SystemsSleep ==
  ASSUME TimersApart, Near, Knotted, Shielded, Asleep, Systems
  PROVE  Sleeps \/ TickComes
<1>1. /\ DOMAIN pc = Threads /\ DOMAIN due = Threads /\ DOMAIN now = TickLists
      /\ Shooter \in Threads /\ Shooter \notin Active(k) /\ In(pc[Shooter]) = {timer1}
      /\ Waiting[Shooter] = {timer1} /\ Flagged
  BY DEF Asleep, Knotted, Layer, Waiting, Shielded
<1>2. pc[Background].at # "boot"
  <2>1. pc[Shooter].at \notin {"new", "user"}
    <3>1. pc[Shooter] \in InterPoints
      BY <1>1 DEF Knotted, Layer
    <3> QED
      BY <1>1, <3>1, InterPointsSeated DEF Seated, Home
  <2> QED
    BY <2>1 DEF Shielded, Shield
<1>3. Layer(InterPoints)' /\ Fit(InterPoints, TimerUses) /\ Above({}) /\ k.running \in Active(k)
  <2>1. Layer(InterPoints)'
    BY SystemRests DEF Knotted
  <2> QED
    BY <2>1, KnottedFit
<1>4. ASSUME NEW t \in Threads,
             \/ Returns(t) \/ checkIRQ(t, {"isr"}) \/ Tick(t, timer1) \/ Interrupt(t, Line)
             \/ notifyInISR(t, _switch) \/ notifyInISR_end(t)
      PROVE  t # Shooter /\ pc'[Shooter] = pc[Shooter]
  <2>1. k.running = t /\ \A u \in Threads \ {t} : Keeps(u)
    BY <1>1, <1>4, RunnerFlags
  <2> QED
    BY <1>1, <1>3, <2>1 DEF Keeps
<1>5. ASSUME NEW t \in Threads, Returns(t) PROVE Sleeps
  <2>1. t # Shooter /\ pc'[Shooter] = pc[Shooter]
    BY <1>4, <1>5
  <2>2. CASE UNCHANGED <<k, now, due>>
    BY <1>1, <2>1, <2>2 DEF Sleeps
  <2>3. CASE timer_return(t)
    <3>1. Active(k') = Active(k)
      BY <1>3, <2>3, TimerReturnStep
    <3>2. due'[Shooter] = due[Shooter] /\ UNCHANGED now
      BY <1>1, <2>1, <2>3 DEF timer_return
    <3> QED
      BY <1>1, <2>1, <3>1, <3>2 DEF Sleeps
  <2> QED
    BY <1>5, <2>2, <2>3, NobodyEnters
    DEF Returns, checkIRQ, yield_return, event_wait_return, aboveKernel
<1>6. ASSUME NEW t \in Threads, Tick(t, timer1) PROVE TickComes
  <2>1. timer_tick(t, timer1) /\ timer1 \in TickLists
    BY <1>6, InterNames DEF Tick, timer_isr
  <2>2. Shooter \in Active(k') <=> ~ (due[Shooter] > now'[timer1])
    BY <1>1, <1>3, <2>1, TickStep
  <2>3. UNCHANGED <<pc, due>> /\ now'[timer1] = now[timer1] + 1
    BY <1>1, <2>1 DEF timer_tick
  <2> QED
    BY <2>2, <2>3 DEF TickComes
<1>7. ASSUME NEW t \in Threads, Interrupt(t, Line) PROVE Sleeps
  <2>1. ResumeFromPriorListISR(t, Line) /\ UNCHANGED <<now, due>>
    BY <1>7 DEF Interrupt, event_notifyISR, driverOnly, aboveKernel
  <2>2. \A u \in Active(k') \ Active(k) : Line \in Waiting[u]
    BY <1>3, <2>1, InterNames, NotifyStep
  <2>3. Shooter \notin Active(k')
    BY <1>1, <2>2, InterNames
  <2> QED
    BY <1>4, <1>7, <2>1, <2>3 DEF Sleeps
<1>8. ASSUME NEW t \in Threads, notifyInISR(t, _switch), UNCHANGED driverOnly PROVE Sleeps
  <2>1. k.head[_switch] # NULL /\ k' = resume(priorList_get(k, _switch), k.head[_switch])
        /\ UNCHANGED <<now, due>>
    BY <1>8 DEF notifyInISR, driverOnly, aboveKernel
  <2>2. Active(k') = Active(k) \cup {k.head[_switch]} /\ _switch \in Waiting[k.head[_switch]]
    BY <1>3, <2>1, InterNames, FromListWoken
  <2>3. Shooter \notin Active(k')
    BY <1>1, <2>2, InterNames
  <2> QED
    BY <1>4, <1>8, <2>1, <2>3 DEF Sleeps
<1>9. ASSUME NEW t \in Threads, notifyInISR_end(t) \/ checkIRQ(t, {"isr"}),
             UNCHANGED <<now, due>>
      PROVE  Sleeps
  <2>1. UNCHANGED k
    BY <1>9 DEF notifyInISR_end, checkIRQ
  <2> QED
    BY <1>1, <1>4, <1>9, <2>1 DEF Sleeps
<1>10. CASE boot
  <2>1. UNCHANGED k /\ pc'[Shooter] = pc[Shooter] /\ UNCHANGED <<now, due>>
    BY <1>1, <1>2, <1>10, IntervalometerAssumption
    DEF boot, scheduler_add, scheduler_run, scheduler_run_return, aboveKernel
  <2> QED
    BY <1>1, <2>1 DEF Sleeps
<1> QED
  BY <1>5, <1>6, <1>7, <1>8, <1>9, <1>10 DEF Systems, KernelSteps, driverOnly, aboveKernel

\* The settings are settings at any time, though they are typed one by one.
Asking  == {"typing", "typed"}
Offered ==
  /\ set \in Settings
  /\ task[Prompt].at \in Asking =>
       "goal" \in DOMAIN task[Prompt] /\ task[Prompt].goal \in Typed

\* A wait is at least one tick, if there is one.
LEMMA SecType ==
  ASSUME NEW x \in Nat
  PROVE  /\ sec(x) \in Nat \ {0}
         /\ Before(x) \in Nat /\ Focus(x) \in Nat \ {0}
<1>1. ASSUME NEW y \in Nat PROVE sec(y) \in Nat \ {0}
  <2> DEFINE n == (Freq * y) % TickMod
  <2>1. Freq * y \in Nat /\ TickMod \in Nat \ {0}
    BY IntervalometerAssumption, ListAssumption
  <2>2. n \in Nat
    BY <2>1
  <2> QED
    BY <2>2 DEF sec
<1>2. Lead \in Nat \ {0} /\ (x >= Lead => x - Lead \in Nat)
  BY IntervalometerAssumption
<1> QED
  BY <1>1, <1>2 DEF Before, Focus

LEMMA TypedSettings ==
  ASSUME set \in Settings, NEW s \in Settings, NEW f,
         set' = [set EXCEPT ![f] = s[f]] \/ (set' = [set EXCEPT ![f] = 0] /\ f \in Zeroes)
  PROVE  set' \in Settings
<1>1. Zeroes \subseteq {"long", "intv", "numb"}
  BY IntervalometerAssumption
<1>2. CASE set' = [set EXCEPT ![f] = s[f]]
  BY <1>2 DEF Settings
<1>3. CASE set' = [set EXCEPT ![f] = 0] /\ f \in Zeroes
  BY <1>1, <1>3 DEF Settings
<1> QED
  BY <1>2, <1>3

\* Only the prompt changes the settings.
LEMMA NextOffered ==
  ASSUME Tended, Offered, [InterNext]_interVars
  PROVE  Offered'
<1>1. /\ DOMAIN task = Threads /\ Placed /\ Following
      /\ {Shooter, Prompt, Switch} \subseteq Threads
      /\ Shooter # Prompt /\ Shooter # Switch /\ Prompt # Switch
      /\ "at" \in DOMAIN task[Prompt]
  BY IntervalometerAssumption DEF Tended, Following, Placed, Place
<1>2. ASSUME UNCHANGED set, task'[Prompt] = task[Prompt] PROVE Offered'
  BY <1>2 DEF Offered
<1>3. ASSUME UNCHANGED set, task'[Prompt].at \notin Asking PROVE Offered'
  BY <1>3 DEF Offered
<1>4. ASSUME NEW r, "at" \in DOMAIN r, task' = [task EXCEPT ![Prompt] = r]
      PROVE  task'[Prompt] = r
  BY <1>1, <1>4
<1>5. ASSUME NEW at, Goto(Prompt, at)
      PROVE  /\ task'[Prompt].at = at /\ DOMAIN task'[Prompt] = DOMAIN task[Prompt]
             /\ "goal" \in DOMAIN task[Prompt] => task'[Prompt].goal = task[Prompt].goal
  <2>1. task' = [task EXCEPT ![Prompt] = [task[Prompt] EXCEPT !.at = at]]
    BY <1>5 DEF Goto
  <2> QED
    BY <1>1, <2>1
<1>6. ASSUME NEW t \in Threads, commands(t) PROVE Offered'
  <2>1. UNCHANGED set
    BY <1>6 DEF commands, _setCommand, interval_stop, interval_stopped, Back, ownVars
  <2>2. PICK at \in {"INTER", "HDR", "stop", "stopping", "back"} : Stmt(t, at)
    BY <1>6 DEF commands, _setCommand, interval_stop, interval_stopped, Back
  <2>3. t # Shooter
    BY <1>1, <2>2, Commander
  <2>4. CASE t # Prompt
    BY <1>1, <1>2, <1>6, <2>1, <2>3, <2>4, CommandWorks DEF Alters
  <2>5. CASE t = Prompt
    <3>1. CASE Goto(t, "back") \/ Goto(t, "stopping")
      <4>1. Goto(Prompt, "back") \/ Goto(Prompt, "stopping")
        BY <2>5, <3>1
      <4>2. task'[Prompt].at \in {"back", "stopping"}
        BY <1>5, <4>1
      <4> QED
        BY <1>3, <2>1, <4>2 DEF Asking
    <3>2. CASE UNCHANGED task
      BY <1>2, <2>1, <3>2
    <3>3. CASE Back(t)
      <4>1. task[Prompt].at = "back" /\ task' = [task EXCEPT ![Prompt] = At0(task[Prompt].then)]
        BY <2>5, <3>3 DEF Back, Stmt
      <4>2. task[Prompt].then = "prompt"
        BY <1>1, <4>1 DEF Placed, Place, CallAts
      <4>3. task'[Prompt].at = "prompt"
        BY <1>1, <4>1, <4>2 DEF At0
      <4> QED
        BY <1>3, <2>1, <4>3 DEF Asking
    <3> QED
      BY <1>6, <3>1, <3>2, <3>3 DEF commands, _setCommand, interval_stop, interval_stopped
  <2> QED
    BY <2>4, <2>5
<1>7. CASE intervalometer_task(Shooter)
  <2>1. UNCHANGED set
    BY <1>7 DEF intervalometer_task, park, idle, delay, lead, led, exposed, gap, focused, off,
                expose, Jump, Wait, ownVars
  <2> QED
    BY <1>1, <1>2, <1>7, <2>1, ShooterWorks DEF Alters
<1>8. CASE switch_task(Switch)
  <2>1. UNCHANGED set
    BY <1>8 DEF switch_task, waitSwitch, pressed, callFunc, debounce, ownVars
  <2> QED
    BY <1>1, <1>2, <1>8, <2>1, SwitchWorks DEF Alters
<1>9. CASE prompt_task(Prompt)
  <2>1. ASSUME NEW to, Goto(Prompt, to), UNCHANGED set,
               to \notin Asking \/ task[Prompt].at \in Asking
        PROVE  Offered'
    BY <1>5, <2>1 DEF Offered
  <2>2. CASE Enter(Prompt, "enter", "prompt") /\ UNCHANGED ownVars
    BY <2>1, <2>2 DEF Enter, ownVars, Asking
  <2>3. CASE Reads(Prompt, Line, "prompt", "command") /\ UNCHANGED ownVars
    BY <2>1, <2>3 DEF Reads, Local, WaitEvent, ownVars, Asking
  <2>4. CASE Reads(Prompt, Line, "typing", "typed") /\ UNCHANGED ownVars
    BY <2>1, <2>4 DEF Reads, Local, WaitEvent, Stmt, ownVars, Asking
  <2>5. CASE command(Prompt)
    <3>1. PICK at \in {"INTER", "HDR", "stop"} : Call(Prompt, at, "prompt")
      BY <2>5 DEF command
    <3>2. task'[Prompt].at \notin Asking
      BY <1>1, <3>1 DEF Call, Asking
    <3> QED
      BY <1>3, <2>5, <3>2 DEF command, ownVars
  <2>6. CASE enterSettings(Prompt)
    <3>1. UNCHANGED set
      BY <2>6 DEF enterSettings, ownVars
    <3>2. CASE Goto(Prompt, "prompt")
      BY <2>1, <3>1, <3>2 DEF Asking
    <3>3. ASSUME NEW s \in Typed,
                 task' = [task EXCEPT ![Prompt] = [at |-> "typing", n |-> 1, goal |-> s]]
          PROVE  Offered'
      <4>1. task'[Prompt] = [at |-> "typing", n |-> 1, goal |-> s]
        BY <1>1, <3>3
      <4> QED
        BY <3>1, <4>1 DEF Offered
    <3> QED
      BY <2>6, <3>2, <3>3 DEF enterSettings
  <2>7. CASE typed(Prompt)
    <3> DEFINE r == task[Prompt]
               f == Fields[r.n]
               s == r.goal
               next == IF r.n = 6 THEN At0("prompt") ELSE [r EXCEPT !.at = "typing", !.n = @ + 1]
    <3>1. /\ r.at = "typed" /\ "goal" \in DOMAIN r /\ s \in Typed
          /\ s \in Settings /\ set \in Settings
      BY <2>7, IntervalometerAssumption DEF typed, Stmt, Offered, Asking
    <3>2. /\ set' = [set EXCEPT ![f] = s[f]] \/ (set' = [set EXCEPT ![f] = 0] /\ f \in Zeroes)
          /\ task' = [task EXCEPT ![Prompt] = next] \/ Goto(Prompt, "typing")
      BY <2>7 DEF typed
    <3>3. set' \in Settings
      <4>1. set \in Settings /\ s \in Settings
        BY <3>1
      <4>2. set' = [set EXCEPT ![f] = s[f]] \/ (set' = [set EXCEPT ![f] = 0] /\ f \in Zeroes)
        BY <3>2
      <4> HIDE DEF f, s, r, next
      <4> QED
        BY <4>1, <4>2, TypedSettings
    <3>4. task'[Prompt].at \in Asking =>
            "goal" \in DOMAIN task'[Prompt] /\ task'[Prompt].goal \in Typed
      <4>1. CASE Goto(Prompt, "typing")
        BY <1>5, <3>1, <4>1
      <4>2. CASE task' = [task EXCEPT ![Prompt] = next]
        <5>1. task'[Prompt] = next
          BY <1>1, <4>2
        <5>2. At0("prompt").at \notin Asking
          BY DEF At0, Asking
        <5> QED
          BY <3>1, <5>1, <5>2
      <4> QED
        BY <3>2, <4>1, <4>2
    <3> QED
      BY <3>3, <3>4 DEF Offered
  <2> QED
    BY <1>9, <2>2, <2>3, <2>4, <2>5, <2>6, <2>7 DEF prompt_task
<1>10. CASE UNCHANGED <<set, task>>
  BY <1>2, <1>10
<1> QED
  BY <1>6, <1>7, <1>8, <1>9, <1>10
  DEF InterNext, interVars, programVars, ownVars, KernelSteps, Tick, Interrupt, _port1_isr

LEMMA InitOffered == InterInit => Offered
<1> SUFFICES ASSUME InterInit PROVE Offered
  OBVIOUS
<1>1. task[Prompt] = At0("enter") /\ set = Start
  BY IntervalometerAssumption DEF InterInit
<1>2. task[Prompt].at \notin Asking
  BY <1>1 DEF At0, Asking
<1> QED
  BY <1>1, <1>2, IntervalometerAssumption DEF Offered

\* The statements between two waits of a process, and those in its loops.
Ticking == {"delay", "lead", "led", "exposed", "gap", "focused"}
Looping == {"exposed", "gap", "focused"}

\* The locals of a process: its waits, and in the loops its exposures.
Planned(j) ==
  /\ {"at", "delay", "intv", "long", "i", "speed", "since"} \subseteq DOMAIN j
  /\ j.delay \in Nat /\ j.intv \in Nat /\ j.long \in Nat /\ j.speed \in Nat
  /\ IF j.at \in Looping THEN j.speed \in DOMAIN Speeds ELSE j.long = 0 /\ j.speed = 0

\* What a shift waited for, which the tick of the shooter does not count.
Behind(j) == IF j.at = "gap" /\ cmd = "INTER" THEN Before(j.intv) ELSE 0

\* It goes on at its own tick, from one wait to the next.
Punctual(j, p) ==
  IF p.at = "user" THEN due[Shooter] + Behind(j) = now[timer1]
  ELSE /\ p.at = IF Behind(j) = 0 THEN "timer_period" ELSE "timer_shift"
       /\ Behind(j) # 0 => p.tmp + Behind(j) = due[Shooter]
       /\ IF Shooter \in Active(k) THEN due[Shooter] = now[timer1]
                                   ELSE due[Shooter] > now[timer1]

Measured(j) ==
  j.at = "exposed" => j.since \in Int /\ j.since + exposure(j) = due[Shooter]

Clocked ==
  cmd # "STOP" /\ task[Shooter].at \in Ticking =>
    /\ Planned(task[Shooter])
    /\ Followed(task[Shooter]) =>
         Measured(task[Shooter]) /\ Punctual(task[Shooter], pc[Shooter])

\* Times are integers.
LEMMA ShooterTimes ==
  ASSUME Knotted
  PROVE  /\ due[Shooter] \in Int /\ now[timer1] \in Int
         /\ DOMAIN pc = Threads /\ DOMAIN due = Threads /\ DOMAIN now = TickLists
         /\ Shooter \in Threads \ {Background} /\ timer1 \in TickLists
<1>1. /\ due \in [Threads -> Times] /\ now \in [TickLists -> 0 .. MaxTicks]
      /\ DOMAIN pc = Threads
  BY DEF Knotted, Layer
<1>2. Shooter \in Threads \ {Background} /\ timer1 \in TickLists
  BY IntervalometerAssumption
<1>3. now[timer1] \in Times
  BY <1>2, WindowIsTimes DEF Knotted
<1> QED
  BY <1>1, <1>2, <1>3, TimesAreIntegers

\* An exposure of half a round or less fits in a tick.
LEMMA AsAsked ==
  ASSUME NEW j, j.long \in Nat, j.speed \in DOMAIN Speeds, Followed(j)
  PROVE  exposure(j) = asked(j) /\ exposure(j) \in 1 .. HalfRound
<1>1. /\ HalfRound \in Int /\ TickMod \in Nat \ {0} /\ HalfRound < TickMod
      /\ Freq \in Nat \ {0} /\ 1 <= HalfRound
  <2>1. Freq \in Nat \ {0} /\ Lead \in Nat \ {0} /\ Freq * Lead <= HalfRound
    BY IntervalometerAssumption
  <2>2. Freq * Lead \in Nat \ {0}
    BY <2>1
  <2> QED
    BY <2>1, <2>2, HalfRoundType
<1>2. j.speed \in Nat
  BY IntervalometerAssumption
<1>3. CASE cmd = "INTER"
  <2> DEFINE n == Freq * j.long
  <2>1. n \in Nat /\ n <= HalfRound
    BY <1>1, <1>3 DEF Followed
  <2>2. n % TickMod = n
    BY <1>1, <2>1
  <2>3. n = 0 <=> j.long = 0
    BY <1>1
  <2> QED
    BY <1>1, <1>3, <2>1, <2>2, <2>3 DEF exposure, sec, asked
<1>4. CASE cmd # "INTER"
  <2>1. Speeds[j.speed] <= HalfRound
    BY <1>2, <1>4 DEF Followed
  <2>2. Speeds[j.speed] \in Nat \ {0}
    BY IntervalometerAssumption
  <2>3. _speeds[j.speed] = Speeds[j.speed]
    BY <1>1, <2>1, <2>2, SpeedsAssumption
  <2> QED
    BY <1>1, <1>4, <2>1, <2>2, <2>3 DEF exposure, asked
<1> QED
  BY <1>3, <1>4

\* The wait for the end of an exposure ends at the tick it began at and the exposure.
LEMMA ClockedSafe == Knotted /\ Clocked => ExposureLasts
<1> SUFFICES ASSUME Knotted, Clocked, Stmt(Shooter, "exposed"), cmd # "STOP",
                    Followed(task[Shooter])
             PROVE  now[timer1] - task[Shooter].since = asked(task[Shooter])
  BY DEF ExposureLasts
<1> DEFINE j == task[Shooter]
<1>1. j.at = "exposed" /\ pc[Shooter].at = "user"
  BY DEF Stmt, User
<1>2. Planned(j) /\ Measured(j) /\ Punctual(j, pc[Shooter])
  BY <1>1 DEF Clocked, Ticking
<1>3. exposure(j) = asked(j) /\ exposure(j) \in Int
  <2>1. j.long \in Nat /\ j.speed \in DOMAIN Speeds
    BY <1>1, <1>2 DEF Planned, Looping
  <2>2. exposure(j) \in 1 .. HalfRound /\ HalfRound \in Int
    BY <2>1, AsAsked, HalfRoundType
  <2> QED
    BY <2>1, <2>2, AsAsked
<1>4. j.since \in Int /\ j.since + exposure(j) = due[Shooter]
  BY <1>1, <1>2 DEF Measured
<1>5. due[Shooter] + 0 = now[timer1]
  BY <1>1, <1>2 DEF Punctual, Behind
<1>6. due[Shooter] \in Int /\ now[timer1] \in Int
  BY ShooterTimes
<1> HIDE DEF j
<1>7. now[timer1] - j.since = exposure(j)
  BY <1>3, <1>4, <1>5, <1>6
<1> QED
  BY <1>3, <1>7 DEF j

\* While it waits, and when it wakes.
LEMMA AsleepClocked ==
  ASSUME Knotted, Tended, Clocked, Asleep, Sleeps \/ TickComes, task'[Shooter] = task[Shooter],
         cmd' = cmd
  PROVE  Clocked'
<1> DEFINE j == task[Shooter]
<1> SUFFICES ASSUME cmd # "STOP", j.at \in Ticking, Followed(j) PROVE Clocked'
  BY DEF Clocked, Planned, Followed
<1>1. Planned(j) /\ Measured(j) /\ Punctual(j, pc[Shooter])
  BY DEF Clocked
<1>2. pc[Shooter].at # "user"
  <2>1. pc[Shooter] \in InterPoints /\ In(pc[Shooter]) # {}
    BY DEF Asleep, Knotted, Layer
  <2> QED
    BY <2>1, InterPointsSeated DEF Seated, Home
<1>3. due[Shooter] > now[timer1] /\ due[Shooter] \in Int /\ now[timer1] \in Int
  BY <1>1, <1>2, ShooterTimes DEF Punctual, Asleep
<1>4. pc'[Shooter] = pc[Shooter] /\ due'[Shooter] = due[Shooter]
  BY DEF Sleeps, TickComes
<1>5. IF Shooter \in Active(k') THEN due[Shooter] = now'[timer1] ELSE due[Shooter] > now'[timer1]
  <2>1. CASE Sleeps
    BY <1>3, <2>1 DEF Sleeps
  <2>2. CASE TickComes
    BY <1>3, <2>2 DEF TickComes
  <2> QED
    BY <2>1, <2>2
<1>6. Active(k)' = Active(k')
  BY DEF Active
<1>7. Punctual(j, pc[Shooter])'
  BY <1>1, <1>2, <1>4, <1>5, <1>6 DEF Punctual, Behind
<1> QED
  BY <1>1, <1>4, <1>7 DEF Clocked, Planned, Measured, exposure

\* No statement of another thread disturbs it: the shooter waits meanwhile.
LEMMA OthersClocked ==
  ASSUME TimersApart, ShooterFirst, Knotted, Tended, Clocked, NEW t \in Threads \ {Shooter},
         Alters(t), Aids(t, task[t].at, task'[t].at)
  PROVE  Clocked'
<1>1. User(t)
  BY CallsOfUser DEF Aids
<1>2. pc[Background].at # "boot" /\ k.running # Shooter
  <2>1. k.running = t /\ pc[t].at # "boot"
    BY <1>1 DEF User
  <2> QED
    BY <2>1, PastBoot
<1>3. task'[Shooter] = task[Shooter]
  BY IntervalometerAssumption DEF Alters
<1>4. CASE task[Shooter].at = "idle"
  BY <1>3, <1>4 DEF Clocked, Ticking
<1>5. CASE cmd' = "STOP"
  BY <1>5 DEF Clocked
<1>6. CASE cmd \notin {"NOTHING", "STOP"} /\ Asleep /\ cmd' # "STOP"
  <2>1. UNCHANGED cmd /\ (Resting(t) \/ \E l : Pausing(t, l))
    BY <1>6 DEF Aids
  <2>2. Sleeps
    BY <1>6, <2>1, OthersSleep
  <2> QED
    BY <1>3, <1>6, <2>1, <2>2, AsleepClocked
<1> QED
  BY <1>2, <1>4, <1>5, <1>6, ShooterSits DEF Asleep

\* What the kernel and the interrupts do while the shooter has the processor: it
\* returns from its wait.
LEMMA RunnerClocked ==
  ASSUME TimersApart, ShooterFirst, Knotted, Shielded, Clocked, k.running = Shooter,
         cmd # "STOP", task[Shooter].at \in Ticking, Systems, UNCHANGED <<task, cmd>>
  PROVE  Clocked'
<1> DEFINE j == task[Shooter]
<1> SUFFICES ASSUME Followed(j) PROVE Clocked'
  BY DEF Clocked, Planned, Followed
<1>1. /\ DOMAIN pc = Threads /\ DOMAIN due = Threads /\ Shooter \in Threads
      /\ Planned(j) /\ Measured(j) /\ Punctual(j, pc[Shooter])
      /\ pc[Background].at # "boot" /\ Flagged /\ Shooter \in Active(k)
  BY ShooterTimes DEF Clocked, Shielded, Ticking, Active
<1>2. pc[Shooter].at # "user"
  <2> SUFFICES ASSUME pc[Shooter].at = "user" PROVE FALSE
    OBVIOUS
  <2>1. sr[Shooter]
    BY SystemsFlags DEF User
  <2> QED
    BY <2>1 DEF Shielded, Shield, Ticking
<1>3. /\ pc[Shooter].at = IF Behind(j) = 0 THEN "timer_period" ELSE "timer_shift"
      /\ Behind(j) # 0 => pc[Shooter].tmp + Behind(j) = due[Shooter]
      /\ due[Shooter] = now[timer1]
  BY <1>1, <1>2 DEF Punctual
<1>4. Active(k)' = Active(k') /\ Shooter \in Active(k') /\ Behind(j)' = Behind(j)
  BY <1>1, SystemRests DEF Active, Rests, Behind
<1>5. ASSUME due'[Shooter] = due[Shooter], Punctual(j, pc[Shooter])' PROVE Clocked'
  BY <1>1, <1>5 DEF Clocked, Planned, Measured, exposure
<1>6. ASSUME pc'[Shooter] = pc[Shooter], UNCHANGED <<now, due>> PROVE Clocked'
  <2>1. Punctual(j, pc[Shooter])'
    BY <1>2, <1>3, <1>4, <1>6 DEF Punctual
  <2> QED
    BY <1>5, <1>6, <2>1
<1>7. CASE timer_return(Shooter)
  <2>1. /\ due' = [due EXCEPT ![Shooter] = IF restores(pc[Shooter].at) THEN pc[Shooter].tmp
                                                                      ELSE due[Shooter]]
        /\ pc' = [pc EXCEPT ![Shooter] = At("user")] /\ UNCHANGED now
    BY <1>7 DEF timer_return, Finish
  <2>2. pc'[Shooter].at = "user"
    BY <1>1, <2>1 DEF At
  <2>3. due'[Shooter] + Behind(j) = now'[timer1]
    <3>1. CASE Behind(j) = 0
      <4>1. due'[Shooter] = due[Shooter]
        BY <1>1, <1>3, <2>1, <3>1 DEF restores
      <4> QED
        BY <1>3, <2>1, <3>1, <4>1, ShooterTimes
    <3>2. CASE Behind(j) # 0
      <4>1. due'[Shooter] = pc[Shooter].tmp
        BY <1>1, <1>3, <2>1, <3>2 DEF restores
      <4> QED
        BY <1>3, <2>1, <3>2, <4>1
    <3> QED
      BY <3>1, <3>2
  <2>4. Punctual(j, pc[Shooter])'
    BY <1>4, <2>2, <2>3 DEF Punctual
  <2>5. Measured(j)'
    <3> SUFFICES ASSUME j.at = "exposed" PROVE Measured(j)'
      BY DEF Measured
    <3>1. Behind(j) = 0
      BY DEF Behind
    <3>2. due'[Shooter] = due[Shooter]
      BY <1>1, <1>3, <2>1, <3>1 DEF restores
    <3> QED
      BY <1>1, <3>2 DEF Measured, exposure
  <2> QED
    BY <1>1, <2>4, <2>5 DEF Clocked, Planned
<1>8. ASSUME NEW t \in Threads, Returns(t) PROVE Clocked'
  <2>1. t = Shooter
    BY <1>1, <1>8, RunnerFlags
  <2>2. CASE checkIRQ(t, {"run", "yield", "event_wait"} \cup EnterLabels \cup TimerLabels)
               /\ UNCHANGED aboveKernel
    BY <1>6, <2>2 DEF checkIRQ, aboveKernel
  <2>3. ~ yield_return(t) /\ ~ event_wait_return(t) /\ ~ mutex_enter_retry(t)
    BY <1>3, <2>1, NobodyEnters DEF yield_return, event_wait_return
  <2> QED
    BY <1>7, <1>8, <2>1, <2>2, <2>3 DEF Returns
<1>9. ASSUME NEW t \in Threads, Tick(t, timer1) PROVE Clocked'
  <2>1. t = Shooter
    BY <1>1, <1>9, RunnerFlags
  <2> QED
    BY <1>3, <1>9, <2>1 DEF Tick, TimerLabels
<1>10. ASSUME NEW t \in Threads, Interrupt(t, Line) PROVE Clocked'
  BY <1>6, <1>10 DEF Interrupt, event_notifyISR, ResumeFromPriorListISR, driverOnly, aboveKernel
<1>11. ASSUME NEW t \in Threads, notifyInISR(t, _switch) \/ notifyInISR_end(t),
              UNCHANGED driverOnly
       PROVE  Clocked'
  <2>1. t = Shooter
    BY <1>1, <1>11, RunnerFlags
  <2>2. ~ notifyInISR_end(t)
    BY <1>3, <2>1 DEF notifyInISR_end
  <2>3. k.head[_switch] # NULL /\ _switch \in PriorLists
    BY <1>11, <2>2, InterNames DEF notifyInISR
  <2>4. ~ preempts(k, k.head[_switch])
    BY <1>1, <2>3, NobodyPreempts
  <2>5. UNCHANGED pc
    BY <1>11, <2>2, <2>4 DEF notifyInISR
  <2> QED
    BY <1>6, <1>11, <2>5 DEF driverOnly, aboveKernel
<1>12. ASSUME NEW t \in Threads, checkIRQ(t, {"isr"}), UNCHANGED aboveKernel PROVE Clocked'
  BY <1>6, <1>12 DEF checkIRQ, aboveKernel
<1>13. ~ boot
  BY <1>1, IntervalometerAssumption DEF boot, scheduler_add, scheduler_run, scheduler_run_return
<1> QED
  BY <1>8, <1>9, <1>10, <1>11, <1>12, <1>13 DEF Systems, KernelSteps

LEMMA SystemsClocked ==
  ASSUME TimersApart, ShooterFirst, Near, Knotted, Tended, Shielded, Clocked, Systems,
         UNCHANGED <<task, cmd>>
  PROVE  Clocked'
<1> SUFFICES ASSUME cmd # "STOP", task[Shooter].at \in Ticking PROVE Clocked'
  BY DEF Clocked
<1>1. pc[Background].at # "boot" /\ task[Shooter].at # "idle"
  BY DEF Shielded, Ticking
<1>2. CASE k.running = Shooter
  BY <1>2, RunnerClocked
<1>3. CASE k.running # Shooter
  <2>1. Asleep
    BY <1>1, <1>3, ShooterSits DEF Asleep
  <2> QED
    BY <2>1, SystemsSleep, AsleepClocked
<1> QED
  BY <1>2, <1>3

\* A statement of the shooter that does not wait: it keeps its tick and the time.
LEMMA JumpClocked ==
  ASSUME Knotted, Clocked, User(Shooter), cmd # "STOP", task[Shooter].at \in Ticking, UNCHANGED cmd,
         UNCHANGED <<pc, now, due>>, NEW r, task'[Shooter] = r, Planned(r), r.at # "exposed",
         Behind(r) = Behind(task[Shooter]), Followed(r) => Followed(task[Shooter])
  PROVE  Clocked'
<1> DEFINE j == task[Shooter]
<1> SUFFICES ASSUME Followed(r), Followed(j) PROVE Clocked'
  BY DEF Clocked, Planned, Followed
<1>1. pc[Shooter].at = "user"
  BY DEF User
<1>2. due[Shooter] + Behind(j) = now[timer1]
  BY <1>1 DEF Clocked, Punctual
<1>3. Behind(r) = Behind(task[Shooter])' /\ Planned(task[Shooter])'
  BY DEF Behind, Planned
<1>4. Punctual(task[Shooter], pc[Shooter])'
  BY <1>1, <1>2, <1>3 DEF Punctual
<1>5. Measured(task[Shooter])'
  BY DEF Measured
<1> QED
  BY <1>3, <1>4, <1>5 DEF Clocked

\* A wait of the shooter, which ends later than now.
LEMMA WaitClocked ==
  ASSUME TimersApart, Knotted, Clocked, User(Shooter), cmd # "STOP",
         task[Shooter].at \in Ticking, UNCHANGED cmd,
         NEW r, task'[Shooter] = r, Planned(r), NEW d \in Int,
         Followed(r) => Followed(task[Shooter]) /\ Behind(task[Shooter]) < d,
         \/ timer_period(Shooter, timer1, d) /\ Behind(r) = 0
         \/ timer_shift(Shooter, timer1, d) /\ Behind(r) = d,
         r.at = "exposed" => r.since = now[timer1] /\ exposure(r) = d /\ Behind(task[Shooter]) = 0
  PROVE  Clocked'
<1> DEFINE j == task[Shooter]
           label == IF Behind(r) = 0 THEN "timer_period" ELSE "timer_shift"
           p == [at |-> label, on |-> timer1, tmp |-> due[Shooter]]
<1> SUFFICES ASSUME Followed(r), Followed(j), Behind(j) < d PROVE Clocked'
  BY DEF Clocked, Planned, Followed
<1>1. /\ due[Shooter] \in Int /\ now[timer1] \in Int /\ Planned(j)
      /\ DOMAIN pc = Threads /\ DOMAIN due = Threads /\ Shooter \in Threads
  BY ShooterTimes DEF Clocked
<1>2. Behind(j) \in Nat
  BY <1>1, SecType DEF Behind, Planned
<1>3. due[Shooter] + Behind(j) = now[timer1]
  BY DEF Clocked, Punctual, User
<1>4. WaitTimer(Shooter, timer1, label, due[Shooter] + d)
  <2>1. d # 0
    BY <1>2
  <2> QED
    BY <2>1 DEF timer_period, timer_shift
<1>5. /\ due'[Shooter] = due[Shooter] + d /\ UNCHANGED now /\ pc'[Shooter] = p
  BY <1>1, <1>4 DEF WaitTimer, Leave
<1>6. Shooter \notin Active(k')
  BY <1>4, TimerWaits DEF Waits
<1>7. Active(k)' = Active(k')
  BY DEF Active
<1>8. p.at = label /\ p.tmp = due[Shooter] /\ label # "user"
  OBVIOUS
<1>9. Behind(r) \in {0, d} /\ Behind(task[Shooter])' = Behind(r) /\ Planned(task[Shooter])'
  BY DEF Behind, Planned
<1>10. due[Shooter] + d > now[timer1]
  BY <1>1, <1>2, <1>3
<1>11. Punctual(task[Shooter], pc[Shooter])'
  <2>1. Behind(r) # 0 => pc'[Shooter].tmp + Behind(r) = due'[Shooter]
    BY <1>5, <1>8, <1>9
  <2>2. pc'[Shooter].at = label
    BY <1>5, <1>8
  <2> HIDE DEF p
  <2>3. due'[Shooter] > now'[timer1]
    BY <1>5, <1>10
  <2> QED
    BY <1>6, <1>7, <1>8, <1>9, <2>1, <2>2, <2>3 DEF Punctual
<1>12. Measured(task[Shooter])'
  <2> SUFFICES ASSUME r.at = "exposed" PROVE Measured(task[Shooter])'
    BY DEF Measured
  <2>1. r.since = now[timer1] /\ exposure(r) = d /\ Behind(j) = 0
    OBVIOUS
  <2>2. due[Shooter] = now[timer1]
    BY <1>1, <1>3, <2>1
  <2>3. r.since \in Int /\ r.since + exposure(r) = due'[Shooter]
    BY <1>1, <1>5, <2>1, <2>2
  <2>4. exposure(task[Shooter])' = exposure(r)
    BY DEF exposure
  <2> QED
    BY <2>3, <2>4 DEF Measured
<1> QED
  BY <1>9, <1>11, <1>12 DEF Clocked

\* The locals of the first wait, and the record that goes on.
LEMMA FirstPlanned ==
  ASSUME set \in Settings
  PROVE  Planned([at |-> "delay", delay |-> set.delay, intv |-> set.intv,
                  long |-> 0, i |-> 0, speed |-> 0, since |-> 0])
BY DEF Settings, Planned, Looping

LEMMA GoesPlanned ==
  ASSUME NEW j, Planned(j), NEW at, at \in Looping <=> j.at \in Looping
  PROVE  /\ Planned([j EXCEPT !.at = at]) /\ [j EXCEPT !.at = at].at = at
         /\ at # "gap" => Behind([j EXCEPT !.at = at]) = 0
         /\ Followed([j EXCEPT !.at = at]) => Followed(j)
<1> DEFINE r == [j EXCEPT !.at = at]
<1>1. /\ DOMAIN r = DOMAIN j /\ r.at = at
      /\ r.delay = j.delay /\ r.intv = j.intv /\ r.long = j.long /\ r.speed = j.speed
  BY DEF Planned
<1> QED
  BY <1>1 DEF Planned, Looping, Behind, Followed

LEMMA ShooterClocked ==
  ASSUME TimersApart, Knotted, Tended, Offered, Clocked, intervalometer_task(Shooter)
  PROVE  Clocked'
<1> DEFINE j == task[Shooter]
<1>1. /\ DOMAIN task = Threads /\ Shooter \in Threads /\ "at" \in DOMAIN j
      /\ set \in Settings
  BY IntervalometerAssumption DEF Tended, Following, Offered
<1>2. ASSUME task'[Shooter].at \notin Ticking PROVE Clocked'
  BY <1>2 DEF Clocked
<1>3. ASSUME NEW at, Goto(Shooter, at) PROVE task'[Shooter] = [j EXCEPT !.at = at]
  BY <1>1, <1>3 DEF Goto
<1>4. ASSUME NEW at \in {"park", "idle", "off"}, Goto(Shooter, at) PROVE Clocked'
  <2>1. task'[Shooter].at = at
    BY <1>1, <1>3, <1>4
  <2> QED
    BY <1>2, <2>1 DEF Ticking
<1>5. ASSUME NEW at \in {"park", "off"}, NEW shine, Jump(Shooter, at, shine) PROVE Clocked'
  BY <1>4, <1>5 DEF Jump
<1>6. ASSUME NEW at \in Ticking, Stmt(Shooter, at), cmd # "STOP"
      PROVE  User(Shooter) /\ j.at \in Ticking /\ j.at = at /\ Planned(j)
  BY <1>6 DEF Stmt, Clocked
<1>7. ASSUME NEW at \in Ticking, Stmt(Shooter, at), cmd # "STOP", NEW d \in Int, NEW r, Planned(r),
             NEW shine, Followed(r) => Followed(j) /\ Behind(j) < d, Behind(r) = 0,
             Wait(Shooter, timer_period(Shooter, timer1, d), [task EXCEPT ![Shooter] = r], shine),
             r.at = "exposed" => r.since = now[timer1] /\ exposure(r) = d /\ Behind(j) = 0
      PROVE  Clocked'
  <2>1. task'[Shooter] = r /\ timer_period(Shooter, timer1, d) /\ UNCHANGED cmd
    BY <1>1, <1>7 DEF Wait
  <2> QED
    BY <1>6, <1>7, <2>1, WaitClocked
<1>8. ASSUME NEW at \in Ticking, Stmt(Shooter, at), cmd # "STOP", NEW d \in Int, NEW to, to # "gap",
             to # "exposed", to \in Looping <=> j.at \in Looping,
             NEW shine, Followed(j) => Behind(j) < d,
             Wait(Shooter, timer_period(Shooter, timer1, d), [task EXCEPT ![Shooter].at = to], shine)
      PROVE  Clocked'
  <2> DEFINE r == [j EXCEPT !.at = to]
  <2>1. [task EXCEPT ![Shooter].at = to] = [task EXCEPT ![Shooter] = r]
    BY <1>1
  <2>2. Planned(r) /\ r.at # "exposed" /\ Behind(r) = 0 /\ (Followed(r) => Followed(j))
    BY <1>6, <1>8, GoesPlanned
  <2> HIDE DEF r
  <2> QED
    BY <1>7, <1>8, <2>1, <2>2
<1>9. ASSUME NEW at \in {"led", "focused"}, Stmt(Shooter, at), cmd # "STOP", NEW i, Planned(j),
             DOMAIN i = DOMAIN j, i.delay = j.delay, i.intv = j.intv,
             i.long \in Nat, i.speed \in DOMAIN Speeds, Followed(i) => Followed(j),
             expose(Shooter, i)
      PROVE  Clocked'
  <2> DEFINE r == [i EXCEPT !.at = "exposed", !.since = now[timer1]]
  <2>1. /\ DOMAIN r = DOMAIN j /\ r.at = "exposed" /\ r.since = now[timer1]
        /\ r.delay = i.delay /\ r.intv = i.intv /\ r.long = i.long /\ r.speed = i.speed
    BY <1>9 DEF Planned
  <2>2. exposure(i) \in Nat \ {0}
    BY <1>9, SecType, ListAssumption, SpeedsAssumption DEF exposure
  <2>3. at \in Ticking /\ Behind(j) = 0
    BY <1>9 DEF Ticking, Behind, Stmt
  <2>4. Wait(Shooter, timer_period(Shooter, timer1, exposure(i)), [task EXCEPT ![Shooter] = r],
             {"shut"})
    BY <1>9 DEF expose
  <2> HIDE DEF r
  <2>5. exposure(i) \in Int /\ Behind(j) < exposure(i)
    BY <2>2, <2>3
  <2>6. r.speed \in Nat
    BY <1>9, <2>1, IntervalometerAssumption
  <2>7. Planned(r) /\ exposure(r) = exposure(i) /\ Behind(r) = 0
    BY <1>9, <2>1, <2>6 DEF Planned, Looping, exposure, Behind
  <2>8. Followed(r) => Followed(j)
    BY <1>9, <2>1 DEF Followed
  <2> QED
    BY <1>7, <1>9, <2>1, <2>3, <2>4, <2>5, <2>7, <2>8
<1>10. CASE Enter(Shooter, "enter", "park")
  BY <1>4, <1>10 DEF Enter
<1>11. CASE park(Shooter)
  BY <1>4, <1>11 DEF park
<1>12. CASE idle(Shooter)
  <2> DEFINE r == [at |-> "delay", delay |-> set.delay, intv |-> set.intv,
                   long |-> 0, i |-> 0, speed |-> 0, since |-> 0]
  <2>1. CASE UNCHANGED task
    <3>1. task'[Shooter].at = "idle"
      BY <1>12, <2>1 DEF idle, Stmt
    <3> QED
      BY <1>2, <3>1 DEF Ticking
  <2>2. CASE timer_on(Shooter, timer1) /\ task' = [task EXCEPT ![Shooter] = r]
    <3>1. Planned(r) /\ Behind(r) = 0 /\ r.at = "delay"
      BY <1>1, FirstPlanned DEF Behind
    <3> HIDE DEF r
    <3>2. task'[Shooter] = r
      BY <1>1, <2>2
    <3>3. /\ UNCHANGED <<pc, now>> /\ pc[Shooter].at = "user"
          /\ due' = [due EXCEPT ![Shooter] = now[timer1]]
      BY <2>2 DEF timer_on, task_updateTick, SetDue, User, Return
    <3>4. due'[Shooter] = now'[timer1] /\ now[timer1] \in Int
      BY <3>3, ShooterTimes
    <3>5. Behind(task[Shooter])' = 0 /\ Planned(task[Shooter])'
      BY <3>1, <3>2 DEF Behind, Planned
    <3>6. Punctual(task[Shooter], pc[Shooter])'
      BY <3>3, <3>4, <3>5 DEF Punctual
    <3> QED
      BY <3>1, <3>2, <3>5, <3>6 DEF Clocked, Measured
  <2> QED
    BY <1>12, <2>1, <2>2 DEF idle
<1>13. CASE delay(Shooter)
  <2>1. Stmt(Shooter, "delay") /\ "delay" \in Ticking
    BY <1>13 DEF delay, Ticking
  <2>2. CASE Jump(Shooter, "park", leds)
    BY <1>5, <2>2
  <2>3. CASE cmd # "STOP" /\ Jump(Shooter, "lead", leds)
    <3> DEFINE r == [j EXCEPT !.at = "lead"]
    <3>1. task'[Shooter] = r
      BY <1>3, <2>3 DEF Jump
    <3>2. User(Shooter) /\ j.at \in Ticking /\ j.at = "delay" /\ Planned(j)
      BY <1>6, <2>1, <2>3
    <3>3. /\ Planned(r) /\ r.at = "lead" /\ Behind(r) = 0 /\ Behind(j) = 0
          /\ Followed(r) => Followed(j)
      BY <3>2, GoesPlanned DEF Behind, Looping
    <3>4. UNCHANGED <<pc, now, due, cmd>>
      BY <2>3 DEF Jump, kernelVars, driverOnly, aboveKernel
    <3> HIDE DEF r
    <3> QED
      BY <2>3, <3>1, <3>2, <3>3, <3>4, JumpClocked
  <2>4. CASE /\ cmd # "STOP" /\ Before(j.delay) # 0
             /\ Wait(Shooter, timer_period(Shooter, timer1, Before(j.delay)),
                     [task EXCEPT ![Shooter].at = "lead"], leds)
    <3>1. j.at = "delay" /\ Before(j.delay) \in Nat
      BY <1>6, <2>1, <2>4, SecType DEF Planned
    <3>2. /\ Before(j.delay) \in Int /\ Behind(j) < Before(j.delay)
          /\ j.at \notin Looping /\ "lead" \notin Looping
      BY <2>4, <3>1 DEF Behind, Looping
    <3> QED
      BY <1>8, <2>1, <2>4, <3>2
  <2> QED
    BY <1>13, <2>2, <2>3, <2>4 DEF delay
<1>14. CASE lead(Shooter)
  <2>1. Stmt(Shooter, "lead") /\ "lead" \in Ticking
    BY <1>14 DEF lead, Ticking
  <2>2. CASE Jump(Shooter, "park", leds)
    BY <1>5, <2>2
  <2>3. CASE /\ cmd # "STOP"
             /\ Wait(Shooter, timer_period(Shooter, timer1, Focus(j.delay)),
                     [task EXCEPT ![Shooter].at = "led"], leds \cup {"focus"})
    <3>1. j.at = "lead" /\ Focus(j.delay) \in Nat \ {0}
      BY <1>6, <2>1, <2>3, SecType DEF Planned
    <3>2. /\ Focus(j.delay) \in Int /\ Behind(j) < Focus(j.delay)
          /\ j.at \notin Looping /\ "led" \notin Looping
      BY <3>1 DEF Behind, Looping
    <3> QED
      BY <1>8, <2>1, <2>3, <3>2
  <2> QED
    BY <1>14, <2>2, <2>3 DEF lead
<1>15. CASE led(Shooter)
  <2>1. Stmt(Shooter, "led") /\ "led" \in Ticking
    BY <1>15 DEF led, Ticking
  <2>2. CASE Jump(Shooter, "park", leds \ {"focus"})
    BY <1>5, <2>2
  <2>3. CASE cmd # "STOP" /\ expose(Shooter, begun(j))
    <3>1. Planned(j) /\ j.at = "led"
      BY <1>6, <2>1, <2>3
    <3>2. set.long \in Nat /\ set.hdr \in DOMAIN Speeds /\ j.speed = 0 /\ j.long = 0
      BY <1>1, <3>1 DEF Settings, Planned, Looping
    <3> DEFINE i == begun(j)
    <3>3. /\ DOMAIN i = DOMAIN j /\ i.delay = j.delay /\ i.intv = j.intv
          /\ i.long = set.long /\ i.speed = set.hdr
      BY <3>1 DEF Planned, begun
    <3> HIDE DEF i
    <3>4. Followed(i) => Followed(j)
      <4>1. set.hdr \in Nat
        BY <3>2, IntervalometerAssumption
      <4>2. 0 .. 0 \subseteq 0 .. set.hdr
        BY <4>1
      <4>3. Freq * 0 <= HalfRound
        BY HalfRoundType, IntervalometerAssumption
      <4> QED
        BY <3>2, <3>3, <4>2, <4>3 DEF Followed
    <3> QED
      BY <1>9, <2>1, <2>3, <3>1, <3>2, <3>3, <3>4 DEF i
  <2> QED
    BY <1>15, <2>2, <2>3 DEF led
<1>16. CASE exposed(Shooter)
  <2> DEFINE r == [j EXCEPT !.at = "gap", !.i = @ + 1,
                            !.speed = IF cmd = "HDR" THEN @ + set.step ELSE @]
             next == [task EXCEPT ![Shooter] = r]
  <2>1. Stmt(Shooter, "exposed") /\ "exposed" \in Ticking
    BY <1>16 DEF exposed, Ticking
  <2>2. next = [task EXCEPT ![Shooter].at = "gap", ![Shooter].i = @ + 1,
                    ![Shooter].speed = IF cmd = "HDR" THEN @ + set.step ELSE @]
    BY <1>1
  <2>3. CASE Jump(Shooter, "off", leds \ {"shut"})
    BY <1>5, <2>3
  <2>4. \/ Jump(Shooter, "off", leds \ {"shut"})
        \/ /\ cmd # "STOP" /\ ~ last(j)
           /\ \/ /\ Before(j.intv) = 0 /\ task' = next /\ UNCHANGED <<kernelVars, driverOnly, cmd, set>>
              \/ /\ Before(j.intv) # 0 /\ cmd = "INTER"
                 /\ Wait(Shooter, timer_shift(Shooter, timer1, Before(j.intv)), next, leds \ {"shut"})
              \/ /\ Before(j.intv) # 0 /\ cmd # "INTER"
                 /\ Wait(Shooter, timer_period(Shooter, timer1, Before(j.intv)), next, leds \ {"shut"})
    <3> HIDE DEF r
    <3> QED
      BY <1>16, <2>2 DEF exposed, Wait
  <2>5. CASE cmd # "STOP" /\ ~ last(j) /\ ~ Jump(Shooter, "off", leds \ {"shut"})
    <3>1. User(Shooter) /\ j.at \in Ticking /\ j.at = "exposed" /\ Planned(j)
      BY <1>6, <2>1, <2>5
    <3>2. Before(j.intv) \in Nat /\ Behind(j) = 0
      BY <3>1, SecType DEF Planned, Behind
    <3>3. cmd = "HDR" => j.speed + set.step \in DOMAIN Speeds
      BY <2>5 DEF last
    <3>4. /\ DOMAIN r = DOMAIN j /\ r.at = "gap" /\ r.delay = j.delay /\ r.intv = j.intv
          /\ r.long = j.long /\ r.speed = IF cmd = "HDR" THEN j.speed + set.step ELSE j.speed
      BY <3>1 DEF Planned
    <3> HIDE DEF r
    <3>5. r.speed \in DOMAIN Speeds /\ r.speed \in Nat /\ j.speed \in Nat /\ set.step \in Nat
      BY <1>1, <3>1, <3>3, <3>4, IntervalometerAssumption DEF Planned, Looping, Settings
    <3>6. Planned(r) /\ Behind(r) = IF cmd = "INTER" THEN Before(j.intv) ELSE 0
      BY <3>1, <3>4, <3>5 DEF Planned, Looping, Behind
    <3>7. Followed(r) => Followed(j)
      <4>1. 0 .. j.speed \subseteq 0 .. r.speed
        BY <3>4, <3>5
      <4> QED
        BY <3>4, <4>1 DEF Followed
    <3>8. task' = next => task'[Shooter] = r
      BY <1>1
    <3>9. CASE Before(j.intv) = 0 /\ task' = next /\ UNCHANGED <<kernelVars, driverOnly, cmd, set>>
      <4>1. UNCHANGED <<pc, now, due, cmd>>
        BY <3>9 DEF kernelVars, driverOnly, aboveKernel
      <4>2. Behind(r) = 0 /\ r.at # "exposed" /\ task'[Shooter] = r
        BY <3>4, <3>6, <3>8, <3>9
      <4> QED
        BY <2>5, <3>1, <3>2, <3>6, <3>7, <4>1, <4>2, JumpClocked
    <3>10. CASE /\ Before(j.intv) # 0 /\ cmd = "INTER"
               /\ Wait(Shooter, timer_shift(Shooter, timer1, Before(j.intv)), next, leds \ {"shut"})
      <4>1. /\ task'[Shooter] = r /\ timer_shift(Shooter, timer1, Before(j.intv)) /\ UNCHANGED cmd
        BY <3>8, <3>10 DEF Wait
      <4>2. Before(j.intv) \in Int /\ Behind(j) < Before(j.intv) /\ Behind(r) = Before(j.intv) /\ r.at # "exposed"
        BY <3>2, <3>4, <3>6, <3>10
      <4> QED
        BY <2>5, <3>1, <3>6, <3>7, <4>1, <4>2, WaitClocked
    <3>11. CASE /\ Before(j.intv) # 0 /\ cmd # "INTER"
               /\ Wait(Shooter, timer_period(Shooter, timer1, Before(j.intv)), next, leds \ {"shut"})
      <4>1. Before(j.intv) \in Int /\ Behind(j) < Before(j.intv) /\ Behind(r) = 0 /\ r.at # "exposed"
        BY <3>2, <3>4, <3>6, <3>11
      <4> QED
        BY <1>7, <2>1, <2>5, <3>6, <3>7, <3>11, <4>1
    <3> QED
      BY <2>4, <2>5, <3>9, <3>10, <3>11
  <2> QED
    BY <2>3, <2>4, <2>5
<1>17. CASE gap(Shooter)
  <2>1. Stmt(Shooter, "gap") /\ "gap" \in Ticking
    BY <1>17 DEF gap, Ticking
  <2>2. CASE Jump(Shooter, "off", leds)
    BY <1>5, <2>2
  <2>3. CASE /\ cmd # "STOP"
             /\ Wait(Shooter, timer_period(Shooter, timer1, Focus(j.intv)),
                     [task EXCEPT ![Shooter].at = "focused"], leds \cup {"focus"})
    <3>1. j.at = "gap" /\ Focus(j.intv) \in Nat \ {0}
      BY <1>6, <2>1, <2>3, SecType DEF Planned
    <3>2. Focus(j.intv) \in Int /\ j.at \in Looping /\ "focused" \in Looping
      BY <3>1 DEF Looping
    <3>3. Followed(j) => Behind(j) < Focus(j.intv)
      BY <3>1 DEF Followed, Behind
    <3> QED
      BY <1>8, <2>1, <2>3, <3>2, <3>3
  <2> QED
    BY <1>17, <2>2, <2>3 DEF gap
<1>18. CASE focused(Shooter)
  <2>1. Stmt(Shooter, "focused") /\ "focused" \in Ticking
    BY <1>18 DEF focused, Ticking
  <2>2. CASE Jump(Shooter, "off", leds \ {"focus"})
    BY <1>5, <2>2
  <2>3. CASE cmd # "STOP" /\ expose(Shooter, j)
    <3>1. Planned(j) /\ j.long \in Nat /\ j.speed \in DOMAIN Speeds
      BY <1>6, <2>1, <2>3 DEF Planned, Looping
    <3> QED
      BY <1>9, <2>1, <2>3, <3>1
  <2> QED
    BY <1>18, <2>2, <2>3 DEF focused
<1>19. CASE off(Shooter)
  <2>1. task'[Shooter].at = "park"
    BY <1>1, <1>19 DEF off, At0
  <2> QED
    BY <1>2, <2>1 DEF Ticking
<1> QED
  BY <1>10, <1>11, <1>12, <1>13, <1>14, <1>15, <1>16, <1>17, <1>18, <1>19
  DEF intervalometer_task

\* Every step keeps the shooter at its tick.
LEMMA NextClocked ==
  ASSUME TimersApart, ShooterFirst, Near, Knotted, Tended, Shielded, Offered,
         Clocked, [InterNext]_interVars
  PROVE  Clocked'
<1>1. /\ {Shooter, Prompt, Switch} \subseteq Threads
      /\ Shooter # Prompt /\ Shooter # Switch /\ Prompt # Switch
      /\ DOMAIN task = Threads /\ Placed /\ Following
  BY IntervalometerAssumption DEF Tended, Following
<1>2. ASSUME NEW t \in Threads, commands(t) PROVE Clocked'
  <2>1. PICK at \in {"INTER", "HDR", "stop", "stopping", "back"} : Stmt(t, at)
    BY <1>2 DEF commands, _setCommand, interval_stop, interval_stopped, Back
  <2>2. t # Shooter
    BY <1>1, <2>1, Commander
  <2> QED
    BY <1>1, <1>2, <2>2, CommandWorks, OthersClocked
<1>3. CASE prompt_task(Prompt)
  BY <1>1, <1>3, PromptWorks, OthersClocked
<1>4. CASE switch_task(Switch)
  BY <1>1, <1>4, SwitchWorks, OthersClocked
<1>5. CASE intervalometer_task(Shooter)
  BY <1>5, ShooterClocked
<1>6. CASE UNCHANGED interVars
  BY <1>6 DEF interVars, programVars, driverVars, mutexVars, ownVars, Clocked, Planned, Measured,
              exposure, Punctual, Behind, Followed, Active, IsReady, ReadyOf
<1>7. CASE Systems /\ UNCHANGED <<task, cmd>>
  BY <1>7, SystemsClocked
<1>8. CASE /\ \/ KernelSteps({"isr"})
              \/ \E t \in Threads : Tick(t, timer1) \/ Interrupt(t, Line)
           /\ UNCHANGED ownVars
  BY <1>7, <1>8 DEF Systems, KernelSteps, Tick, Interrupt, ownVars
<1>9. ASSUME NEW t \in Threads, _port1_isr(t) PROVE Clocked'
  BY <1>7, <1>9 DEF Systems, _port1_isr, ownVars
<1> QED
  BY <1>2, <1>3, <1>4, <1>5, <1>6, <1>8, <1>9 DEF InterNext

Measuring == Knotted /\ Tended /\ Shielded /\ Offered /\ Clocked

LEMMA AlwaysMeasuring ==
  ASSUME TimersApart, ShooterFirst, Near
  PROVE  InterSpec => []Measuring
<1>1. InterInit => Measuring
  <2>1. InterInit => task[Shooter] = At0("enter")
    BY IntervalometerAssumption DEF InterInit
  <2>2. InterInit => Clocked
    BY <2>1 DEF At0, Clocked, Ticking
  <2> QED
    BY <2>2, InitKnotted, InitTended, InitShielded, InitOffered DEF Measuring
<1>2. Measuring /\ [InterNext]_interVars => Measuring'
  BY NextTended, NextShielded, NextOffered, NextClocked DEF Measuring
<1> QED
  BY <1>1, <1>2, PTL DEF InterSpec

\* The shooter sets its tick when it begins, and from then on counts on from it.  It is
\* the thread of the highest priority and in its critical section: between two of its
\* waits no tick is missed and nobody else runs, so each wait begins at the tick the one
\* before ended at, and ends at the tick it is to end at.  Near ends a behaviour at the
\* first wait that is beyond half a round, so the theorem says nothing of what comes
\* after one; it refuses no wait of a process that the tick can follow (FollowedWaits).
THEOREM ExposuresLast ==
  ASSUME TimersApart, ShooterFirst, Near
  PROVE  InterSpec => []ExposureLasts
<1>1. Measuring => ExposureLasts
  BY ClockedSafe DEF Measuring
<1> QED
  BY <1>1, AlwaysMeasuring, PTL

\* What the next wait of a process takes, if it waits next.
NextWait(j, d) ==
  \/ j.at = "delay" /\ d = Before(j.delay)
  \/ j.at = "lead" /\ d = Focus(j.delay)
  \/ j.at \in {"led", "focused"} /\ d = exposure(j)
  \/ j.at = "exposed" /\ d = Before(j.intv)
  \/ j.at = "gap" /\ d = Focus(j.intv)

\* The process, with the exposures of its loops when they begin next.
Process == IF task[Shooter].at = "led" THEN begun(task[Shooter]) ELSE task[Shooter]

\* The bound of the waits lets the shooter wait, as long as its process, with this wait,
\* is one that the tick can follow.
WaitsAllowed ==
  \A d : User(Shooter) /\ cmd # "STOP" /\ Followed(Process) /\ NextWait(Process, d) =>
           InWindow(due[Shooter] + d, timer1)

\* Seconds that the tick can follow are not more than half a round of it.
LEMMA SecFits ==
  ASSUME NEW x \in Nat, Freq * (x - Lead) <= HalfRound
  PROVE  Before(x) \in 0 .. HalfRound /\ Focus(x) \in 1 .. HalfRound
<1>1. /\ Freq \in Nat \ {0} /\ Lead \in Nat \ {0} /\ Freq * Lead <= HalfRound
      /\ HalfRound \in Int /\ TickMod \in Nat \ {0} /\ HalfRound < TickMod
  BY IntervalometerAssumption, HalfRoundType
<1>2. ASSUME NEW y \in Nat, Freq * y <= HalfRound PROVE sec(y) \in 1 .. HalfRound
  <2> DEFINE n == Freq * y
  <2>1. n \in Nat /\ n <= HalfRound
    BY <1>1, <1>2
  <2>2. n % TickMod = n
    BY <1>1, <2>1
  <2>3. Freq * Lead \in Nat \ {0}
    BY <1>1
  <2> QED
    BY <1>1, <2>1, <2>2, <2>3 DEF sec
<1>3. CASE x >= Lead
  <2>1. x - Lead \in Nat
    BY <1>1, <1>3
  <2> QED
    BY <1>1, <1>2, <1>3, <2>1 DEF Before, Focus
<1>4. CASE ~ (x >= Lead)
  <2>1. Freq * x <= HalfRound
    <3>1. Freq * x <= Freq * Lead /\ Freq * x \in Int /\ Freq * Lead \in Int
      BY <1>1, <1>4
    <3> QED
      BY <1>1, <3>1
  <2> QED
    BY <1>1, <1>2, <1>4, <2>1 DEF Before, Focus
<1> QED
  BY <1>3, <1>4

\* No wait of a process that the tick can follow is left out by the bound of the waits
\* that ExposuresLast assumes, when this lets them be as long as half a round.
THEOREM FollowedWaits ==
  ASSUME TimersApart, ShooterFirst, Near, HalfRound <= MaxDelay
  PROVE  InterSpec => []WaitsAllowed
<1>1. Measuring => WaitsAllowed
  <2> SUFFICES ASSUME Measuring, User(Shooter), cmd # "STOP", Followed(Process),
                      NEW d, NextWait(Process, d)
               PROVE  InWindow(due[Shooter] + d, timer1)
    BY DEF WaitsAllowed
  <2> DEFINE i == task[Shooter]
             j == Process
  <2>1. i.at = j.at /\ j.at \in Ticking /\ pc[Shooter].at = "user"
    <3>1. i.at = j.at
      BY DEF Process, begun
    <3> QED
      BY <3>1 DEF User, NextWait, Ticking
  <2>2. Planned(i) /\ set \in Settings
    BY <2>1 DEF Measuring, Clocked, Offered
  <2>3. /\ j.delay \in Nat /\ j.intv \in Nat /\ j.long \in Nat
        /\ j.delay = i.delay /\ j.intv = i.intv
        /\ j.at \in {"led", "focused"} => j.speed \in DOMAIN Speeds
    BY <2>1, <2>2 DEF Planned, Process, begun, Settings, Looping
  <2>4. Followed(i)
    <3>1. CASE i.at = "led"
      <4>1. j.speed \in Nat /\ i.speed = 0 /\ i.long = 0 /\ 0 .. 0 \subseteq 0 .. j.speed
        BY <2>1, <2>2, <2>3, <3>1, IntervalometerAssumption DEF Planned, Looping
      <4>2. Freq * 0 <= HalfRound
        BY HalfRoundType, IntervalometerAssumption
      <4> QED
        BY <2>3, <4>1, <4>2 DEF Followed
    <3> QED
      BY <3>1 DEF Process
  <2>5. due[Shooter] + Behind(i) = now[timer1]
    BY <2>1, <2>4 DEF Measuring, Clocked, Punctual
  <2>6. Followed(j) /\ NextWait(j, d)
    OBVIOUS
  <2> HIDE DEF j
  <2>7. d \in 0 .. HalfRound /\ Behind(i) \in 0 .. d
    <3>1. Before(j.delay) \in 0 .. HalfRound /\ Focus(j.delay) \in 1 .. HalfRound
      BY <2>3, <2>6, SecFits DEF Followed
    <3>2. Before(j.intv) \in 0 .. HalfRound /\ Focus(j.intv) \in 1 .. HalfRound
      BY <2>3, <2>6, SecFits DEF Followed
    <3>3. j.at \in {"led", "focused"} => exposure(j) \in 1 .. HalfRound
      BY <2>3, <2>6, AsAsked
    <3>4. HalfRound \in Int
      BY HalfRoundType
    <3>5. CASE j.at = "gap"
      BY <2>1, <2>3, <2>6, <3>2, <3>4, <3>5 DEF NextWait, Behind, Followed
    <3>6. CASE j.at # "gap"
      <4>1. Behind(i) = 0
        BY <2>1, <3>6 DEF Behind
      <4>2. d \in 0 .. HalfRound
        BY <2>6, <3>1, <3>2, <3>3, <3>4, <3>6 DEF NextWait
      <4> QED
        BY <3>4, <4>1, <4>2
    <3> QED
      BY <3>5, <3>6
  <2>8. /\ due[Shooter] \in Int /\ now[timer1] \in Int /\ HalfRound \in Int
        /\ MaxDelay \in Nat /\ MaxLate \in Nat
    BY ShooterTimes, HalfRoundType, TimerAssumption DEF Measuring
  <2> HIDE DEF i
  <2>9. due[Shooter] + d \in now[timer1] - MaxLate .. now[timer1] + MaxDelay
    BY <2>5, <2>7, <2>8
  <2> QED
    BY <2>9 DEF InWindow
<1> QED
  BY <1>1, AlwaysMeasuring, PTL

=============================================================================
